SPECIFICATION Spec
CONSTANTS
    w1 = w1
    w2 = w2
    NoCid = NoCid
    OtherCid = OtherCid
    Withdrawals = {w1}
    Jobs = {j1, j2}
    Total <- MCTotal
    Fee <- MCFee
    OpeningBalance = 4
    Conversions = {2}
    MaxAttempts = 2
    MaxTakeovers = 2
    MaxInexact = 1
    MaxCrashes = 1
SYMMETRY JobSymmetry
INVARIANTS
    TypeOK
    MirrorInSync
    PaidNeverReleased
    Lifecycle
    PayoutNeedsReservation
    PublicStatusHonest
PROPERTY
    ExceptionBlocks
