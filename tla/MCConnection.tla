---------------------------- MODULE MCConnection ----------------------------
(* Instances of Connection for TLC. *)
EXTENDS Connection, TLC

Some == {"a", "bad", "wrong", "error"}
SomeSize == [c \in Some |-> IF c = "a" THEN 2 ELSE 1]
SomeVerdict == [c \in Some |->
    CASE c = "bad" -> "ParseError"
      [] c = "wrong" -> "ProtocolError"
      [] OTHER -> "message"]

Frame(lines, c) == [lines |-> lines, content |-> c]

\* Frames as our own writer makes them, with a good and with a bad content, and
\* one whose content type is refused.
SoundFrames ==
    {Frame(<<Length(2), GoodType>>, "a"), Frame(<<Length(1)>>, "wrong"),
     Frame(<<BadType, Length(2)>>, "a")}

\* What MessagesRead is proved from.
ASSUME SoundFramesAssumption == Frames = SoundFrames => SoundPeer

\* Frames with mistakes: no length, one that is no number, one too many or too few,
\* a stray line feed, an unknown field, a line that starts with the byte that is Eof, a
\* json::TypeError.
OddContents == {"a", "none", "typed", "error"}
OddSize == [c \in OddContents |-> CASE c = "none" -> 0 [] c = "a" -> 2 [] OTHER -> 1]
OddVerdict == [c \in OddContents |->
    CASE c = "none" -> "ParseError" [] c = "typed" -> "TypeError" [] OTHER -> "message"]
OddFrames ==
    {Frame(<<OtherField>>, "none"), Frame(<<BadLength>>, "a"), Frame(<<Length(1)>>, "a"),
     Frame(<<Length(3)>>, "a"), Frame(<<Eof, Length(2)>>, "a"), Frame(<<LF, Length(2)>>, "a"),
     Frame(<<Length(1)>>, "typed")}

\* Every stream on the usual build, and standard input where char is unsigned.
UsualBuilds ==
    {<<"socket", TRUE>>, <<"standardIO", TRUE>>, <<"process", TRUE>>, <<"standardIO", FALSE>>}

\* Sound for the safety runs: readers are interchangeable.
Symmetry == Permutations(Readers)
=============================================================================
