CONSTANTS
    a = a
    rg = rg
    hb = hb
    tm = tm
    Client = Client
    First = 2
    Last = 3
    IP <- MCIP
    LastNum <- MCLastNum
    Host <- MCHost
    Requests <- MCRequests
    Goroutine <- MCGoroutine
    Job <- MCJob
    Nobody = Nobody
SPECIFICATION FairSpec
INVARIANTS RegistryTypeOK LocksTypeOK BooksAgree NamesDistinct
PROPERTIES ImplementsRegistry CallsReturn
