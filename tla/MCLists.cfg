CONSTANTS
    a = a
    n1 = n1
    n2 = n2
    e1 = e1
    e2 = e2
    s1 = s1
    s2 = s2
    Client = Client
    First = 2
    Last = 3
    IP <- MCIP
    LastNum <- MCLastNum
    Host <- MCHost
    Requests <- MCRivalRequests
    FirstRequest <- MCRivals
    Node <- MCNode
    Session = {s1, s2}
    NoSession = NoSession
    Addr = {e1,e2}
    NoPeer = NoPeer
    QueueCap = 1
    ExpireTicks = 0
    OrphanTicks = 1
    MaxGrants = 3
    MaxRestarts = 0
SYMMETRY MCSessions
VIEW MCSilentView
SPECIFICATION QuickSpec
ACTION_CONSTRAINT MCSilent
INVARIANTS
    ChannelsOpen
    ListFresh
    DistinctAddresses
    DistinctNames
CHECK_DEADLOCK FALSE
