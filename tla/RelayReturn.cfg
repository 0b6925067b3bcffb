SPECIFICATION Spec
CONSTANTS
    c1 = c1
    c2 = c2
    p1 = p1
    p2 = p2
    NoLink = NoLink
    Connectors <- TwoConnectors
    Mine <- TwoConnectors
    Providers <- OneProvider
    MaxUp = 0
    MaxDrops = 2
    MaxBack = 2
    QueueSize = 2
    V2 = TRUE
CHECK_DEADLOCK FALSE
INVARIANTS ReplyKeptOnce
