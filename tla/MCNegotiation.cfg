SPECIFICATION Spec
CONSTANTS
    kgp = kgp
    sixel = sixel
    Identities = {kgp, sixel}
    Receipts <- SomeReceipts
    MaxCandidates = 2
INVARIANTS AcceptedFollowsFromReceipts NegotiatedIsNeverRejected
CHECK_DEADLOCK FALSE
