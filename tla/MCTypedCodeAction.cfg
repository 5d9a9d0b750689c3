\* The result of textDocument/codeAction.
CONSTANTS
    Messages <- NoMessages
    Batches <- NoMessages
    Received <- NoMessages
    Structures <- SomeStructures
    TypeAliases <- SomeTypeAliases
    Enumerations <- SomeEnumerations
    MaxInteger = 7
    UriTexts = {"file:///a"}
    Types <- OtherTypes
    Typed <- OtherTyped
    Foreign <- OtherForeign
SPECIFICATION TypedSpec
CHECK_DEADLOCK FALSE
INVARIANTS
    ConformingIsConverted
