\* Three connections at once, clients that reset, a poll that may fail.
SPECIFICATION Spec
CONSTANTS
    c1 = c1
    c2 = c2
    c3 = c3
    Client <- ThreeClients
    Fd = {3, 4, 5, 6}
    ListenFd = 3
    Free = Free
    Listener = Listener
    MaxRequests <- OneEach
    MaxOutstanding = 1
    SendBuffer = 1
    Aborting <- ThreeClients
    NonBlocking = TRUE
    LowestFd = TRUE
    fdsListAddCount = 2
    ReallocFails = TRUE
    closeConnection = FALSE
    useProfilier = FALSE
    profilierEndCount = 0
    Interrupts = TRUE
SYMMETRY Symmetry3
INVARIANTS
    TypeOK
    TableIsOpenSockets
    PollTableSafe
    EventsStayWithTheirFd
PROPERTIES
    ErrorsAreKnown
    EventsAreServed
