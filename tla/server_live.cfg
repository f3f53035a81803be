\* What the server owes a client that sends ahead, closes and aborts, while others
\* come and go and take up the descriptors, which do not suffice for all.
SPECIFICATION FairSpec
CONSTANTS
    c1 = c1
    c2 = c2
    c3 = c3
    Client <- ThreeClients
    Fd = {3, 4, 5}
    ListenFd = 3
    Free = Free
    Listener = Listener
    MaxRequests <- OneAsks
    MaxOutstanding = 2
    SendBuffer = 1
    Aborting <- OneClient
    NonBlocking = TRUE
    LowestFd = TRUE
    fdsListAddCount = 2
    ReallocFails = FALSE
    closeConnection = FALSE
    useProfilier = FALSE
    profilierEndCount = 0
    Interrupts = FALSE
INVARIANTS
    PoliteClientsCannotStopIt
PROPERTIES
    RequestsAreRead
    LeftIsClosed
    ConnectsAreAccepted
    ServesRequests
