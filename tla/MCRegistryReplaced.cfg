SPECIFICATION Spec
CONSTANTS
    Offers = {o1}
    Previews = {v1}
    Tokens = {t1}
    Chunks = {a, b}
    Inodes = {i1, i2}
    MaxChunks = 2
    Limit = 1
    MaxTries = 2
    MaxWrites = 1
    None = None
INVARIANT ShowsWhatWasRegistered
CHECK_DEADLOCK FALSE
