\* Stores of the data that come after the status.
SPECIFICATION Spec
CONSTANTS
    StatusCount = 3
    LoopCount = 3
    BigLoops = 2
    Part = {1, 2}
    Powers <- DecimalPowers
    Hello = Hello
    Zero = Zero
    NoStore = NoStore
    useSetData = TRUE
    Ordered = FALSE
    SleepCovers = TRUE
INVARIANTS
    ReadsWholeMessage
