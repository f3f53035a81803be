\* The exchange, with the smallest status count that works.
SPECIFICATION FairSpec
CONSTANTS
    StatusCount = 3
    LoopCount = 3
    BigLoops = 2
    Part = {1, 2}
    Powers <- DecimalPowers
    Hello = Hello
    Zero = Zero
    NoStore = NoStore
    useSetData = TRUE
    Ordered = TRUE
    SleepCovers = TRUE
INVARIANTS
    TypeOK
    NoWriteWhileRead
    ReadsWholeMessage
    InStep
PROPERTIES
    PlaysPingPong
    BothFinish
    SentComesBack
