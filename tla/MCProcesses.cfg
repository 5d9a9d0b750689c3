\* A thread that starts two processes, one in the place of the other or after it, and a
\* thread that starts one.  The system may stop: two starts can wait for each other.
CONSTANTS
    t1 = t1
    t2 = t2
    Threads = {t1, t2}
    MaxStarts <- TwoAndOne
    Parent = Parent
    None = None
    MaxFaults = 1
SPECIFICATION Spec
CHECK_DEADLOCK FALSE
INVARIANTS
    DescriptorsAreOwned
    NoZombieIsLeft
    StartedIsExecuted
PROPERTIES
    EveryCallReturns
