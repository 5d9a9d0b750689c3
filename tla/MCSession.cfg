\* A name with two addresses, of which the server listens on the second, and a connection
\* that may be lost; the programs are started in the same directory or in different ones.
\* The system stops when both programs have ended.
CONSTANTS
    Resolved <- TwoAddresses
    Local = "ipv4"
    Directories = {"here", "there"}
    MayBreak = TRUE
SPECIFICATION Spec
CHECK_DEADLOCK FALSE
INVARIANTS
    CleanSession
PROPERTIES
    ImplementsLifeCycle
    SessionEnds
