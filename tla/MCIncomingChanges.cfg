\* Handlers are added, replaced and removed while no reader is calling them; every
\* request is settled all the same.
CONSTANTS
    Readers = {r1, r2}
    Methods <- FewMethods
    InitialHandlers <- FewHandlers
    Offered <- FewOffers
    Forms <- FewForms
    MaxMessages = 2
    MaxBatch = 2
    MaxChanges = 1
    MaxWriteFailures = 1
    QuietChanges = TRUE
SPECIFICATION FairSpec
CHECK_DEADLOCK FALSE
PROPERTIES
    ImplementsExchange
    RequestsAreSettled
