CONSTANTS
    Server <- MCServer
    Endpoint <- MCEndpoint
    NoEndpoint = NoEndpoint
    MaxRemaps = 2
SPECIFICATION FairSpec
INVARIANTS PublicWasMine StunTypeOK TypeIsRight
PROPERTIES Converges
CHECK_DEADLOCK FALSE
