\* Written values, short texts, and texts one edit away from a good one.
CONSTANTS
    Texts <- SomeTexts
    Values <- SomeValues
SPECIFICATION Spec
INVARIANTS
    StackIsPath
    ParsesTheLanguage
    WrittenIsReadBack
PROPERTIES
    EveryTurnGetsOn
