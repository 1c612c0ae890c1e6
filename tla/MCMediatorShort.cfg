SPECIFICATION Spec
CONSTANTS
    Routes <- ShortRoutes
    PayerExpiration = 9
    PayerSettleTimeout = 9
    RevealTimeout = 2
    ForkConfirmNumber = 1
    MayClose = {}
    MaxHeight = 12
CHECK_DEADLOCK FALSE
INVARIANT
    PaidPayeeIsCovered
