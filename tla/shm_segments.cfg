\* Servers and clients that are started, crash, and are started again.
SPECIFICATION FairSpec
CONSTANTS
    ServerStarts <- MCServerStarts
    ClientStarts <- MCClientStarts
    MaxFailures <- MCMaxFailures
    MaxRunning <- MCMaxRunning
    None = None
CHECK_DEADLOCK FALSE
INVARIANTS
    TypeOK
    HandshakeIsMutual
    RefusalsHaveDeaths
    FindableUntilMet
    PartnersGoOn
    StartersGoOn
PROPERTIES
    BothConnect
    PartnersFinish
    EveryStepCounts
