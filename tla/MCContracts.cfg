SPECIFICATION Spec
CONSTANTS
    Paths <- SomePaths
    Endpoints = {"e1", "UPPER"}
    Canonical = {"e1"}
    Tokens = {"t1"}
    MaxTarget = 5
    MaxDetail = 3
    MaxEvents = 2
INVARIANTS EmittedIsValid LinkLeadsBack UriIsCanonical
CHECK_DEADLOCK FALSE
