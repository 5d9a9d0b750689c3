\* Two submitters, three tasks and two drains.  The pool starts with its two threads; after
\* a drain it has none, as MessageHandler builds it, and starts them on demand.
CONSTANTS
    Tasks = {t1, t2, t3}
    Submitters = {s1, s2}
    InitialThreads = 2
    MaxThreads = 2
    MaxWaits = 2
    NoTask = NoTask
SPECIFICATION FairSpec
CHECK_DEADLOCK FALSE
INVARIANTS
    OnePlace
    NoStrandedTask
    NoIdleSleeper
PROPERTIES
    JoinLoopStable
    ImplementsTaskPool
    TasksAndDrainsEnd
