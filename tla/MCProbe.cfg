SPECIFICATION FairSpec
CONSTANTS
    Terminals <- SomeTerminals
    Millisecond = 1
    Timeout = 1
    TransportTimeout = 2
    AttemptTimeout = 1
    PollMax = 1
    MaxResponse = 5
INVARIANTS SelectedIsSupported SilenceStaysUnknown RawModeIsUndone
PROPERTY ProbeEnds
CHECK_DEADLOCK FALSE
