\* Owner and two workers, two thread intrinsics each; any thread may wait for
\* any task, itself included, for as long as it likes.
CONSTANTS
    MaxId = 2
    Calls = 2
    Delayed = {2}
SPECIFICATION FairSpec
INVARIANTS
    TypeOK
    CancelsAreSeen
    JoinsAreSafe
PROPERTIES
    LifecycleSpec
    WaiterReleased
    ShutdownReturns
