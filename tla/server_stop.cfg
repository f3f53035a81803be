\* Three connections at once, closed after their answers, and a loop that ends
\* while connections are open.
SPECIFICATION Spec
CONSTANTS
    c1 = c1
    c2 = c2
    c3 = c3
    Client <- ThreeClients
    Fd = {3, 4, 5, 6}
    ListenFd = 3
    Free = Free
    Listener = Listener
    MaxRequests <- OneEach
    MaxOutstanding = 1
    SendBuffer = 1
    Aborting <- ThreeClients
    NonBlocking = TRUE
    LowestFd = TRUE
    fdsListAddCount = 2
    ReallocFails = FALSE
    closeConnection = TRUE
    useProfilier = TRUE
    profilierEndCount = 1
    Interrupts = FALSE
SYMMETRY Symmetry3
INVARIANTS
    ShutdownClosesAll
PROPERTIES
    DispatchesEvents
