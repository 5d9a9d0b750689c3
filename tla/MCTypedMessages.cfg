\* Messages and batches of up to two, JSON with every choice of members, and content of
\* eleven types: typed values, and JSON with at most one thing wrong in it.
CONSTANTS
    Messages <- SomeMessages
    Batches <- SomeBatches
    Received <- SomeReceived
    Structures <- SomeStructures
    TypeAliases <- SomeTypeAliases
    Enumerations <- SomeEnumerations
    MaxInteger = 7
    UriTexts = {"file:///a"}
    Types <- SomeTypes
    Typed <- SomeTyped
    Foreign <- SomeForeign
SPECIFICATION TypedSpec
CHECK_DEADLOCK FALSE
INVARIANTS
    AcceptsTheProtocol
    RoundTrip
    ConvertedConforms
    ConformingIsConverted
    TypedRoundTrip
