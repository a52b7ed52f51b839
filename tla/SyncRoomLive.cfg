SPECIFICATION FairSpec
CONSTANTS
    p1 = p1
    p2 = p2
    c1 = c1
    c2 = c2
    c3 = c3
    u1 = u1
    u2 = u2
    NoConn = NoConn
    Stopped = Stopped
    NoUpdate = NoUpdate
    Peers = {p1, p2}
    Conns = {c1, c3}
    PeerOf <- PeerOfPair
    Updates = {u1, u2}
    Author <- AuthorBoth
    Deps <- DepsFree
    ChanCap = 2
    MaxPeers = 2
    SnapshotEvery = 1
    Receipts = TRUE
    Stalls = {c1}
    Env = {"close", "put", "deny"}
PROPERTIES EvictedEnds UpdateAnswered UpdateReaches
CHECK_DEADLOCK FALSE
