SPECIFICATION FairSpec
CONSTANTS
    l1 = l1
    l2 = l2
    d1 = d1
    d2 = d2
    p1 = p1
    e1 = e1
    e2 = e2
    Listeners = {l1, l2}
    Dispatchers = {d1, d2}
    Peers = {}
    Endpoints = {e1, e2}
    ListenEndpoint <- TwoListeners
    LinkEndpoint <- LinksOnly
    Once = {l2}
    Backlog = 1
    None = None
    Garbage = Garbage
    NoFrame = NoFrame
PROPERTIES KeepsPromise DispatchEnds RequestsAreServed
CHECK_DEADLOCK FALSE
