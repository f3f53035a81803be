\* Without any assumption on the sleep or on the order of stores.
SPECIFICATION Spec
CONSTANTS
    StatusCount = 3
    LoopCount = 3
    BigLoops = 2
    Part = {1, 2}
    Powers <- DecimalPowers
    Hello = Hello
    Zero = Zero
    NoStore = NoStore
    useSetData = FALSE
    Ordered = FALSE
    SleepCovers = FALSE
CHECK_DEADLOCK FALSE
INVARIANTS
    OneAtATime
    OnlyMissedHelloBlocks
PROPERTIES
    EveryStepCounts
