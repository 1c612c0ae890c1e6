SPECIFICATION SettleSpec
CONSTANTS
    A = A
    B = B
    l1 = l1
    Locks <- MCLocks
    LockSender <- MCLockSender
    LockAmount <- MCLockAmount
    Expiration <- MCExpiration
    InitDeposit <- MCInitDeposit
    MaxDeposit = 1
    DirectAmounts = {2}
    Disposable = {l1}
    Registrable = {l1}
    ForkConfirmNumber = 1
    SettleTimeout = 1
    MaxNonce = 1
    MaxHeight = 5
    PunishBlockNumber = 1
    TargetLocks = {}
    Cheaters = {B}
INVARIANTS
    SettleTypeOK
    SettleArgumentsMatch
    RegisteredIsSubmitted
    HonestNeverPunished
    CheaterLosesAll
    PaidAsAgreed
PROPERTY
    EscrowKept
CHECK_DEADLOCK FALSE
