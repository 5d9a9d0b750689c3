\* A sender and two readers whose callbacks send, too; the peer answers late, twice or
\* what nobody asked; the ids come round at the last request.
CONSTANTS
    Senders = {s1}
    Readers = {r1, r2}
    IdCount = 3
    MaxRequests = 4
    MaxResponses = 2
SPECIFICATION FairSpec
CHECK_DEADLOCK FALSE
INVARIANTS
    ResultHeldOnce
    NoResultIsLost
    ResponseReachesItsRequest
    DestroyedLeavesNothingPending
PROPERTIES
    EveryCallReturns
