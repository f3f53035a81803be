\* The loop over the events goes on when all are served.
SPECIFICATION Spec
CONSTANTS
    c1 = c1
    c2 = c2
    c3 = c3
    Client <- TwoClients
    Fd = {3, 4, 5}
    ListenFd = 3
    Free = Free
    Listener = Listener
    MaxRequests <- OneEach
    MaxOutstanding = 1
    SendBuffer = 1
    Aborting <- TwoClients
    NonBlocking = TRUE
    LowestFd = FALSE
    fdsListAddCount = 2
    ReallocFails = FALSE
    closeConnection = FALSE
    useProfilier = FALSE
    profilierEndCount = 0
    Interrupts = FALSE
SYMMETRY Symmetry2
INVARIANTS
    BreaksWhenServed
