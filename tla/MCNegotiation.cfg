SPECIFICATION NegSpec
CONSTANTS
    A = A
    B = B
    l1 = l1
    Locks <- MCLocks
    LockSender <- MCLockSender
    LockAmount <- MCLockAmount
    Expiration <- MCExpiration
    InitDeposit <- MCInitDeposit
    MaxDeposit = 1
    DirectAmounts = {1}
    Disposable = {}
    Registrable = {}
    ForkConfirmNumber = 1
    SettleTimeout = 1
    MaxNonce = 1
    MaxHeight = 2
    WithdrawAmounts = {1}
    MaxEpoch = 1
INVARIANTS
    NegTypeOK
    OneAgreement
    OpenedInStep
    NoneSkipped
    NoPanicOnResponse
PROPERTIES
    NoPaymentUndone
    EscrowKept
CHECK_DEADLOCK FALSE
