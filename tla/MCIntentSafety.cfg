SPECIFICATION Spec
CONSTANTS
    l1 = l1
    l2 = l2
    d1 = d1
    d2 = d2
    p1 = p1
    e1 = e1
    e2 = e2
    Listeners = {l1, l2}
    Dispatchers = {d1, d2}
    Peers = {p1}
    Endpoints = {e1, e2}
    ListenEndpoint <- TwoListeners
    LinkEndpoint <- LinksAndPeer
    Once = {l2}
    Backlog = 1
    None = None
    Garbage = Garbage
    NoFrame = NoFrame
INVARIANTS OwnsItsPath OrderlyExitFreesPath ForwardedWasHandedOff ConsumerStream ServesUntilSomeoneLeaves
CHECK_DEADLOCK FALSE
