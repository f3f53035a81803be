\* Clients that wait for their answers, one of which may abort, on sockets that
\* block; descriptors for two of the three, given in any order and used again.
SPECIFICATION Spec
CONSTANTS
    c1 = c1
    c2 = c2
    c3 = c3
    Client <- ThreeClients
    Fd = {3, 4, 5}
    ListenFd = 3
    Free = Free
    Listener = Listener
    MaxRequests <- TwoEachButC1
    MaxOutstanding = 1
    SendBuffer = 1
    Aborting <- OneClient
    NonBlocking = FALSE
    LowestFd = FALSE
    fdsListAddCount = 2
    ReallocFails = FALSE
    closeConnection = FALSE
    useProfilier = FALSE
    profilierEndCount = 0
    Interrupts = FALSE
SYMMETRY SymmetryOthers
INVARIANTS
    OneAnswerEach
    PoliteClientsCannotStopIt
PROPERTIES
    NoSpuriousClose
    ServesRequests
