SPECIFICATION FairSpec
CONSTANTS
    A = A
    B = B
    l1 = l1
    l2 = l2
    Locks <- MCLocks
    LockSender <- MCLockSender
    LockAmount <- MCLockAmount
    Expiration <- MCExpiration
    InitDeposit <- MCInitDeposit
    MaxDeposit = 1
    DirectAmounts = {1}
    Disposable = {l2}
    Registrable = {l1}
    ForkConfirmNumber = 1
    SettleTimeout = 1
    MaxNonce = 2
    MaxHeight = 4
INVARIANTS
    TypeOK
    ProofAgreement
    BooksMatchProof
    Solvent
    TimelySecretNeverExpires
    HeadAcceptable
PROPERTY
    EveryMessageRegistered
CHECK_DEADLOCK FALSE
