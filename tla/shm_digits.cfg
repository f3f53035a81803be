\* The numbers of the second round, written over those of the first.
SPECIFICATION Spec
CONSTANTS
    StatusCount = 3
    LoopCount = 11
    BigLoops = 2
    Part = {1}
    Powers <- DecimalPowers
    Hello = Hello
    Zero = Zero
    NoStore = NoStore
    useSetData = TRUE
    Ordered = TRUE
    SleepCovers = TRUE
PROPERTIES
    DataChangesEveryLoop
