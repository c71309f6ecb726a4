SPECIFICATION WireSpec
CONSTANTS
    Kinds = {"kgp", "sixel", "geometry", "image"}
    Transports = {"direct", "tmux"}
    KgpReplies <- SomeKgpReplies
    Da1Replies <- SomeDa1Replies
    Reports <- SomeReports
    LateReplies <- SomeLateReplies
    KeyInputs <- SomeKeys
    MaxChunks = 3
INVARIANTS PassthroughIsTransparent RepliesAreRecognised SplitDoesNotMatter
CHECK_DEADLOCK FALSE
