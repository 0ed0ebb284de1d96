CONSTANTS
    a = a
    n1 = n1
    n2 = n2
    e1 = e1
    e2 = e2
    s1 = s1
    s2 = s2
    Client = Client
    First = 2
    Last = 2
    IP = {2}
    LastNum <- MCLastNum
    Host <- MCHost
    Requests <- MCTwinRequests
    FirstRequest <- MCTwins
    Node <- MCNode
    Session = {s1, s2}
    NoSession = NoSession
    Addr = {e1}
    NoPeer = NoPeer
    QueueCap = 1
    ExpireTicks = 0
    OrphanTicks = 0
    MaxGrants = 2
    MaxRestarts = 0
SYMMETRY MCSymmetry
VIEW MCSilentView
SPECIFICATION Spec
ACTION_CONSTRAINT MCSilent
INVARIANTS
    SignalingTypeOK
    NoLeak
    ChannelsOpen
    ListFresh
