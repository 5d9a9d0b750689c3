\* Two readers and the pool: synchronous and asynchronous handlers, messages and
\* batches, failing writes, the destructor.
CONSTANTS
    Readers = {r1, r2}
    Methods <- SomeMethods
    InitialHandlers <- SomeHandlers
    Offered <- NoOffers
    Forms <- SomeForms
    MaxMessages = 3
    MaxBatch = 2
    MaxChanges = 0
    MaxWriteFailures = 1
    QuietChanges = TRUE
SPECIFICATION Spec
SYMMETRY Symmetry
CHECK_DEADLOCK FALSE
INVARIANTS
    ContextOnlyInHandler
    SettledOnce
    BatchAnsweredInOrder
    NothingOwedWhenDestroyed
