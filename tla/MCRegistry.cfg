SPECIFICATION Spec
CONSTANTS
    Offers = {o1, o2}
    Previews = {v1}
    Tokens = {t1, t2}
    Chunks = {a, b}
    Inodes = {i1, i2}
    MaxChunks = 2
    Limit = 1
    MaxTries = 2
    MaxWrites = 1
    None = None
INVARIANTS TokenNamesItsOffer LatestIsComplete LatestNeverGoesBack ResolvedContentWasWhole
PROPERTY EntriesAreImmutable
SYMMETRY RegistrySymmetry
CHECK_DEADLOCK FALSE
