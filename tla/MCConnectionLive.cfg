\* Liveness: frames with mistakes, and a peer that goes away.  The readers write the error
\* responses; callers of writeMessage are in run connection.
CONSTANTS
    Readers = {r1, r2}
    Writers = {}
    Size <- OddSize
    Verdict <- OddVerdict
    Frames <- OddFrames
    Builds <- UsualBuilds
    MaxFrames = 1
    MaxWrites = 1
SPECIFICATION FairSpec
CHECK_DEADLOCK FALSE
PROPERTIES
    EveryCallEnds
