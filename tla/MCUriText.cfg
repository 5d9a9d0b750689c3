\* Setters in any order on an empty URI or on a parsed one, file paths, and all texts of
\* up to four bytes behind the scheme or the authority; lengths come round at 10.
CONSTANTS
    Width = 10
    Setter <- SomeSetter
    Paths <- SomePaths
    Texts <- SomeTexts
    Edited <- SomeEdited
    MaxData = 24
SPECIFICATION Spec
CHECK_DEADLOCK FALSE
INVARIANTS
    LengthsFit
    PartsAreKept
    ReadBack
