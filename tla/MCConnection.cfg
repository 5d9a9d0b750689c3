\* Two readers and a writer on a stream of each kind; messages that are refused,
\* and a peer that goes away.
CONSTANTS
    Readers = {r1, r2}
    Writers = {w1}
    Size <- SomeSize
    Verdict <- SomeVerdict
    Frames <- SoundFrames
    Builds <- UsualBuilds
    MaxFrames = 2
    MaxWrites = 1
SPECIFICATION Spec
SYMMETRY Symmetry
CHECK_DEADLOCK FALSE
INVARIANTS
    MessagesAreReadWhole
    FramesAreWrittenWhole
    ErrorsAreReported
