SPECIFICATION FairSpec
CONSTANTS
    c1 = c1
    c2 = c2
    p1 = p1
    p2 = p2
    NoLink = NoLink
    Connectors <- OneConnector
    Mine <- OneConnector
    Providers <- TwoProviders
    MaxUp = 2
    MaxBack = 0
    MaxDrops = 2
    QueueSize = 2
    V2 = FALSE
CHECK_DEADLOCK FALSE
INVARIANTS BoundThenInOrder
PROPERTIES QueueDrains
