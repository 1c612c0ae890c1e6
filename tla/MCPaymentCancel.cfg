\* The user may cancel while there are routes left to try.
SPECIFICATION Spec
CONSTANTS
    RouteLists <- twoRoutes
    RevealTimeout = 2
    ForkConfirmNumber = 1
    RegisterDelay = 1
    CancelWhileRoutes = TRUE
    MaxLag = 1
    MaxStart = 1
    MaxCrashes = 2
    MaxHeight = 8
INVARIANT
    FailedIsNotPaid
CHECK_DEADLOCK FALSE
