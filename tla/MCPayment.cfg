\* One payment over two routes with mediators or the direct channel, two crashes.
SPECIFICATION Spec
CONSTANTS
    RouteLists <- routeLists
    RevealTimeout = 2
    ForkConfirmNumber = 1
    RegisterDelay = 1
    CancelWhileRoutes = FALSE
    MaxLag = 1
    MaxStart = 1
    MaxCrashes = 2
    MaxHeight = 8
INVARIANTS
    TypeOK
    PaidOnce
    FailedIsNotPaid
    TargetIsPaid
PROPERTY
    AnswerGiven
CHECK_DEADLOCK FALSE
