----------------------------- MODULE Connection -----------------------------
(***************************************************************************)
(* lsp::Connection (src/lsp/connection.cpp): the framing of messages over  *)
(* an io::Stream, read and written by several threads, and what the end of *)
(* the input does on each kind of stream.                                  *)
(*                                                                         *)
(* A stream is a sequence of characters [c, n].  The text of a header line *)
(* is one character here, and so is each byte of a content: byte n of      *)
(* content c.  Contents are told apart by what json::parse and             *)
(* jsonrpc::messageFromJson make of them.                                  *)
(***************************************************************************)
EXTENDS Integers, Sequences, FiniteSets, SequencesExt, FiniteSetsExt

CONSTANTS
    Readers,      \* threads calling readMessage
    Writers,      \* threads calling writeMessage
    Size,         \* the contents and their sizes
    Verdict,      \* what the parsers say of a content
    Frames,       \* what the peer sends: header lines and a content
    Builds,       \* kinds of io::Stream, each with whether char is signed
    MaxFrames,    \* bound on the frames of the peer
    MaxWrites     \* bound on the calls of writeMessage

Threads == Readers \union Writers
Contents == DOMAIN Size
Error == "error"               \* the content of an error response

Verdicts == {"message", "ParseError", "ProtocolError", "TypeError"}
StreamKinds == {"standardIO", "socket", "process"}

ASSUME ThreadsAssumption == Readers \intersect Writers = {}
ASSUME ContentsAssumption ==
    /\ Error \in Contents
    /\ \A c \in Contents : Size[c] \in Nat
    /\ Verdict \in [Contents -> Verdicts]
ASSUME BuildsAssumption == Builds \subseteq StreamKinds \X BOOLEAN
ASSUME BoundsAssumption == MaxFrames \in Nat /\ MaxWrites \in Nat

Char(c, n) == [c |-> c, n |-> n]
CR == Char("CR", 0)
LF == Char("LF", 0)
Eof == Char("Eof", 0)          \* io::Stream::Eof
Nul == Char("Nul", 0)          \* content.resize() fills with these

\* Header lines: Content-Length with its value, or one that is no number,
\* Content-Type that verifyContentType accepts or not, and any other field.
Length(n) == Char("Content-Length", n)
BadLength == Char("Content-Length", -1)
GoodType == Char("Content-Type", 1)
BadType == Char("Content-Type", 0)
OtherField == Char("Other", 0)
FieldLines == [c : {"Content-Length"}, n : Nat]
                \union {BadLength, GoodType, BadType, OtherField}

\* A line may also be a mistake: a line feed of its own, or the byte that is Eof.
Lines == FieldLines \union {LF, Eof}
Chars == [c : Contents, n : Nat] \union Lines \union {CR, Nul}

ASSUME CharsAssumption ==
    /\ Contents \intersect {"CR", "LF", "Eof", "Nul",
                            "Content-Length", "Content-Type", "Other"} = {}
    /\ \A f \in Frames : f.content \in Contents /\ f.lines \in Seq(Lines)

\* A peer without mistakes: every line of a frame is a header field, its Content-Length is
\* the size of the content, and it has one unless the content is empty.
SoundPeer ==
    \A f \in Frames :
        /\ f.lines \in Seq(FieldLines)
        /\ \A i \in DOMAIN f.lines :
              f.lines[i].c = "Content-Length" => f.lines[i].n = Size[f.content]
        /\ \/ Size[f.content] = 0
           \/ \E i \in DOMAIN f.lines : f.lines[i].c = "Content-Length"

Bytes(c) == [i \in 1 .. Size[c] |-> Char(c, i)]
Encode(lines, c) == FlattenSeq([i \in DOMAIN lines |-> <<lines[i], CR, LF>>])
                        \o <<CR, LF>> \o Bytes(c)

\* messageHeaderString and the content
FrameOf(c) == Encode(<<Length(Size[c]), GoodType>>, c)

VARIABLES
    stream,     \* m_stream, by its kind
    signed,     \* the build's char is signed
    input,      \* characters sent by the peer and not yet read
    closed,     \* the peer has closed its end
    sent,       \* contents of the frames the peer has sent
    readLock,   \* <<t>> while thread t holds m_readMutex
    pc,         \* where each thread is
    local,      \* header, lineData and content of a readMessage
    ended,      \* how each thread's last call ended
    read,       \* contents and their types, in the order they were read
    writeLock,  \* <<t>> while thread t holds m_writeMutex
    buffer,     \* what a thread still has to write
    output,     \* characters written
    written,    \* contents written, in the order of the mutex
    broken      \* writes fail, from now on

buildVars == <<stream, signed>>
inVars == <<buildVars, input, closed, sent>>
readVars == <<readLock, local, read>>
outVars == <<writeLock, buffer, output, written, broken>>
vars == <<inVars, readVars, pc, ended, outVars>>

Fresh == [length |-> 0, type |-> 1, line |-> <<>>, content |-> <<>>]

Init ==
    /\ \E b \in Builds : stream = b[1] /\ signed = b[2]
    /\ input = <<>> /\ closed = FALSE /\ sent = <<>>
    /\ readLock = <<>> /\ writeLock = <<>>
    /\ pc = [t \in Threads |-> "idle"]
    /\ local = [r \in Readers |-> Fresh]
    /\ ended = [t \in Threads |-> "none"]
    /\ read = <<>>
    /\ buffer = [t \in Threads |-> <<>>]
    /\ output = <<>> /\ written = <<>> /\ broken = FALSE

-----------------------------------------------------------------------------
(* The peer *)

PeerSends ==
    /\ ~closed /\ Len(sent) < MaxFrames
    /\ \E f \in Frames :
          /\ input' = input \o Encode(f.lines, f.content)
          /\ sent' = Append(sent, Bytes(f.content))
    /\ UNCHANGED <<buildVars, closed, readVars, pc, ended, outVars>>

\* The peer goes away, between two frames or in the middle of one.
PeerCloses ==
    /\ ~closed
    /\ closed' = TRUE
    /\ \/ UNCHANGED <<input, sent>>
       \/ /\ Len(sent) < MaxFrames
          /\ \E f \in Frames : \E n \in 1 .. Len(Encode(f.lines, f.content)) - 1 :
                input' = input \o SubSeq(Encode(f.lines, f.content), 1, n)
          /\ UNCHANGED sent
    /\ UNCHANGED <<buildVars, readVars, pc, ended, outVars>>

OutputBreaks ==
    /\ ~broken
    /\ broken' = TRUE
    /\ UNCHANGED <<inVars, readVars, pc, ended, writeLock, buffer, output, written>>

-----------------------------------------------------------------------------
(* readMessage: the part under m_readMutex.  A step reads one character, or     *)
(* blocks until there is one.                                                   *)

\* fread leaves the buffer alone at the end of the input, so that get() returns
\* Eof, again and again.  The read() of a process loops there for ever.
AtEnd == closed /\ input = <<>>
Readable == input # <<>> \/ (AtEnd /\ stream = "standardIO")
NextChar == IF input = <<>> THEN Eof ELSE Head(input)
Consume == input' = IF input = <<>> THEN <<>> ELSE Tail(input)

InHeader == {"start", "header", "field", "fieldEnd", "headerEnd"}
Reading == InHeader \union {"body"}

\* An exception leaves readMessage; the mutex is released on the way.
Throw(r, exception) ==
    /\ pc' = [pc EXCEPT ![r] = "idle"]
    /\ ended' = [ended EXCEPT ![r] = exception]
    /\ readLock' = IF readLock = <<r>> THEN <<>> ELSE readLock
    /\ local' = [local EXCEPT ![r] = Fresh]

GoOn(r, place, locals) ==
    /\ pc' = [pc EXCEPT ![r] = place]
    /\ local' = [local EXCEPT ![r] = locals]
    /\ UNCHANGED <<readLock, ended>>

MayLock == readLock = <<>>

BeginRead(r) ==
    /\ pc[r] = "idle" /\ MayLock
    /\ readLock' = <<r>>
    /\ pc' = [pc EXCEPT ![r] = "start"]
    /\ ended' = [ended EXCEPT ![r] = "none"]
    /\ UNCHANGED <<inVars, local, read, outVars>>

Start(r) ==
    /\ pc[r] = "start" /\ Readable
    /\ IF NextChar = Eof
       THEN Throw(r, "ConnectionError") /\ Consume
       ELSE GoOn(r, "header", local[r]) /\ UNCHANGED input
    /\ UNCHANGED <<buildVars, closed, sent, read, outVars>>

\* The comparison at the start of a field is with the int eof(), which no unsigned char
\* equals.
SeesEof == NextChar = Eof /\ signed

\* The loop of readMessageHeader, and that comparison.
Header(r) ==
    /\ pc[r] = "header" /\ Readable
    /\ CASE NextChar = CR -> GoOn(r, "headerEnd", local[r]) /\ Consume
         [] SeesEof -> Throw(r, "ConnectionError") /\ Consume
         [] OTHER -> GoOn(r, "field", local[r]) /\ UNCHANGED input
    /\ UNCHANGED <<buildVars, closed, sent, read, outVars>>

\* A character of a field.  Eof is a character like any other: the loop goes on, and at
\* the end of the input lineData grows by what is left out here.
FieldChar(r) ==
    /\ pc[r] = "field" /\ Readable /\ NextChar # CR
    /\ CASE NextChar = LF -> Throw(r, "ConnectionError")
         [] input = <<>> -> GoOn(r, "field", local[r])
         [] OTHER -> GoOn(r, "field", [local[r] EXCEPT !.line = Append(@, NextChar)])
    /\ Consume
    /\ UNCHANGED <<buildVars, closed, sent, read, outVars>>

\* parseHeaderValue: of two equal fields the last one counts.
HeaderValue(locals) ==
    LET text == Head(locals.line)
        next == [locals EXCEPT !.line = <<>>]
    IN  CASE text.c = "Content-Length" -> [next EXCEPT !.length = text.n]
          [] text.c = "Content-Type" -> [next EXCEPT !.type = text.n]
          [] OTHER -> next

FieldCR(r) ==
    /\ pc[r] = "field" /\ Readable /\ NextChar = CR
    /\ IF local[r].line[1] = BadLength
       THEN Throw(r, "ConnectionError")
       ELSE GoOn(r, "fieldEnd", HeaderValue(local[r]))
    /\ Consume
    /\ UNCHANGED <<buildVars, closed, sent, read, outVars>>

\* The LF after the CR of a field, or of the empty line.
LineFeed(r) ==
    /\ pc[r] \in {"fieldEnd", "headerEnd"} /\ Readable
    /\ IF NextChar # LF THEN Throw(r, "ConnectionError")
       ELSE GoOn(r, IF pc[r] = "fieldEnd" THEN "header" ELSE "body", local[r])
    /\ Consume
    /\ UNCHANGED <<buildVars, closed, sent, read, outVars>>

\* Mutant of ContentRead: the content type is verified before the content is read.
ContentReadIfTyped(r) == IF local[r].type = 1 THEN local[r].length ELSE 0

\* How much of the stream belongs to the message.
ContentRead(r) == local[r].length

\* The content in one read(); the mutex is released after it.  Where the input
\* ends, the rest of the content stays as resize() made it.
ReadBody(r) ==
    /\ pc[r] = "body"
    /\ LET n == ContentRead(r)
           k == Min({n, Len(input)})
           bytes == [i \in 1 .. n |-> IF i <= k THEN input[i] ELSE Nul]
       IN  /\ k = n \/ (closed /\ stream = "standardIO")
           /\ input' = SubSeq(input, k + 1, Len(input))
           /\ read' = Append(read, [bytes |-> bytes, type |-> local[r].type])
           /\ local' = [local EXCEPT ![r].content = bytes]
    /\ pc' = [pc EXCEPT ![r] = "parse"]
    /\ readLock' = <<>>
    /\ UNCHANGED <<buildVars, closed, sent, ended, outVars>>

\* Mutant of SocketSeesEnd: only a negative result of recv() is an error.
SocketMissesEnd == FALSE

SocketSeesEnd == stream = "socket" /\ closed

\* recv() returns 0: the socket throws, and readMessage with it.
SocketThrows(r) ==
    /\ SocketSeesEnd
    /\ \/ pc[r] \in InHeader /\ input = <<>>
       \/ pc[r] = "body" /\ Len(input) < local[r].length
    /\ input' = <<>>
    /\ Throw(r, "ConnectionError")
    /\ UNCHANGED <<buildVars, closed, sent, read, outVars>>

-----------------------------------------------------------------------------
(* readMessage: the part without the mutex *)

\* What json::parse and messageFromJson say of the bytes that were read.
Parsed(bytes) ==
    IF \E c \in Contents : Bytes(c) = bytes
    THEN Verdict[CHOOSE c \in Contents : Bytes(c) = bytes]
    ELSE "ParseError"

ReturnMessage(r) ==
    /\ pc[r] = "parse"
    /\ local[r].type = 1 /\ Parsed(local[r].content) = "message"
    /\ pc' = [pc EXCEPT ![r] = "idle"]
    /\ ended' = [ended EXCEPT ![r] = "message"]
    /\ local' = [local EXCEPT ![r] = Fresh]
    /\ UNCHANGED <<inVars, readLock, read, outVars>>

\* A bad content type and a json::TypeError end in a ConnectionError.
RejectMessage(r) ==
    /\ pc[r] = "parse"
    /\ local[r].type = 0 \/ Parsed(local[r].content) = "TypeError"
    /\ Throw(r, "ConnectionError")
    /\ UNCHANGED <<inVars, read, outVars>>

\* Mutant of Reported: protocol errors are not answered.
ReportedParseError(verdict) == verdict = "ParseError"

Reported(verdict) == verdict \in {"ParseError", "ProtocolError"}

Bad(bytes) == Parsed(bytes) \in {"ParseError", "ProtocolError"}

\* The handlers that send an error response before they throw again.
ReportError(r) ==
    /\ pc[r] = "parse"
    /\ local[r].type = 1 /\ Bad(local[r].content)
    /\ pc' = [pc EXCEPT ![r] = IF Reported(Parsed(local[r].content)) THEN "report"
                               ELSE "idle"]
    /\ ended' = [ended EXCEPT ![r] = Parsed(local[r].content)]
    /\ local' = [local EXCEPT ![r] = Fresh]
    /\ UNCHANGED <<inVars, readLock, read, outVars>>

-----------------------------------------------------------------------------
(* writeMessage *)

\* Mutant of MayWrite: no mutex.
MayAlwaysWrite == TRUE

MayWrite == writeLock = <<>>

BeginWrite(t, c) ==
    /\ MayWrite
    /\ writeLock' = <<t>>
    /\ buffer' = [buffer EXCEPT ![t] = FrameOf(c)]
    /\ written' = Append(written, c)
    /\ pc' = [pc EXCEPT ![t] = "write"]
    /\ UNCHANGED <<inVars, readVars, output, broken>>

writeMessage(w) ==
    /\ w \in Writers /\ pc[w] = "idle" /\ Len(written) < MaxWrites
    /\ \E c \in Contents \ {Error} : Verdict[c] = "message" /\ BeginWrite(w, c)
    /\ ended' = [ended EXCEPT ![w] = "none"]

WriteError(r) ==
    /\ r \in Readers /\ pc[r] = "report"
    /\ BeginWrite(r, Error)
    /\ UNCHANGED ended

\* The loop of the stream's write(): some characters at a time.
WriteSome(t) ==
    /\ pc[t] = "write" /\ ~broken /\ buffer[t] # <<>>
    /\ output' = Append(output, Head(buffer[t]))
    /\ buffer' = [buffer EXCEPT ![t] = Tail(@)]
    /\ UNCHANGED <<inVars, readVars, pc, ended, writeLock, written, broken>>

WriteUnlock == <<>>

\* A reader now throws again what it caught.
WriteEnds(t) ==
    /\ pc[t] = "write" /\ buffer[t] = <<>>
    /\ writeLock' = WriteUnlock
    /\ pc' = [pc EXCEPT ![t] = "idle"]
    /\ ended' = [ended EXCEPT ![t] = IF t \in Writers THEN "written" ELSE @]
    /\ UNCHANGED <<inVars, readVars, buffer, output, written, broken>>

\* The stream throws, with part of the frame written.
WriteFails(t) ==
    /\ pc[t] = "write" /\ broken /\ buffer[t] # <<>>
    /\ writeLock' = WriteUnlock
    /\ buffer' = [buffer EXCEPT ![t] = <<>>]
    /\ pc' = [pc EXCEPT ![t] = "idle"]
    /\ ended' = [ended EXCEPT ![t] = "ConnectionError"]
    /\ UNCHANGED <<inVars, readVars, output, written, broken>>

-----------------------------------------------------------------------------
ReadStep(r) ==
    \/ Start(r) \/ Header(r) \/ FieldChar(r) \/ FieldCR(r) \/ LineFeed(r)
    \/ ReadBody(r) \/ SocketThrows(r)
    \/ ReturnMessage(r) \/ RejectMessage(r) \/ ReportError(r) \/ WriteError(r)
WriteStep(t) == WriteSome(t) \/ WriteEnds(t) \/ WriteFails(t)

Next ==
    \/ PeerSends \/ PeerCloses \/ OutputBreaks
    \/ \E r \in Readers : BeginRead(r) \/ ReadStep(r)
    \/ \E w \in Writers : writeMessage(w)
    \/ \E t \in Threads : WriteStep(t)

\* A thread inside readMessage or writeMessage runs when it can.  Nobody has to
\* call them, and the peer need not send.
Fairness ==
    /\ \A r \in Readers : WF_vars(ReadStep(r))
    /\ \A t \in Threads : WF_vars(WriteStep(t))

Spec == Init /\ [][Next]_vars
FairSpec == Spec /\ Fairness

-----------------------------------------------------------------------------
(* Invariants *)

TypeOK ==
    /\ buildVars \in Builds
    /\ closed \in BOOLEAN /\ broken \in BOOLEAN
    /\ input \in Seq(Chars) /\ output \in Seq(Chars)
    /\ sent \in Seq(Seq(Chars)) /\ written \in Seq(Contents)
    /\ pc \in [Threads -> {"idle", "parse", "report", "write"} \union Reading]
    /\ ended \in [Threads -> {"none", "message", "written", "ConnectionError",
                              "ParseError", "ProtocolError"}]
    /\ local \in [Readers -> [length : Nat, type : {0, 1},
                              line : Seq(Chars), content : Seq(Chars)]]
    /\ read \in Seq([bytes : Seq(Chars), type : {0, 1}])
    /\ buffer \in [Threads -> Seq(Chars)]
    /\ readLock \in {<<>>} \union {<<r>> : r \in Readers}
    /\ writeLock \in {<<>>} \union {<<t>> : t \in Threads}
    /\ \A w \in Writers : pc[w] \in {"idle", "write"}
    /\ \A r \in Readers : pc[r] \in Reading <=> readLock = <<r>>
    /\ \A t \in Threads : pc[t] = "write" <=> writeLock = <<t>>
    /\ \A t \in Threads : buffer[t] # <<>> => pc[t] = "write"

\* Several readers take whole messages off the stream, in the order in which the
\* peer sent them, also after messages that are rejected for their content type or
\* their content: nothing of a message is left in the stream.
MessagesAreReadWhole ==
    \A i \in DOMAIN read :
        \/ i \in DOMAIN sent /\ read[i].bytes = sent[i]
        \/ closed /\ i = Len(sent) + 1

\* What several writers, and readers that report errors, put on the stream is one
\* whole frame after the other; only a write that failed leaves part of one, at
\* the end.
FramesAreWrittenWhole ==
    LET all == FlattenSeq([i \in DOMAIN written |-> FrameOf(written[i])])
        rest == IF writeLock = <<>> THEN <<>> ELSE buffer[writeLock[1]]
    IN  IF broken THEN IsPrefix(output, all) ELSE output \o rest = all

\* Every content that is no JSON, or no message of the protocol, is answered by
\* one error response before the exception leaves readMessage.
ErrorsAreReported ==
    LET errors == {i \in DOMAIN written : written[i] = Error}
        coming == {r \in Readers :
            \/ pc[r] = "report"
            \/ pc[r] = "parse" /\ local[r].type = 1 /\ Bad(local[r].content)}
        bad == {i \in DOMAIN read : read[i].type = 1 /\ Bad(read[i].bytes)}
    IN  Cardinality(errors) + Cardinality(coming) = Cardinality(bad)

-----------------------------------------------------------------------------
(* Liveness *)

\* Once the peer is gone, every readMessage ends, wherever it was in a message, and no
\* reader keeps the others from the mutex, except where the end of the input goes
\* unnoticed: in the read loop of a process, and on standard input in a header field, or
\* before one where char is unsigned.
\* writeMessage ends, and so does the report of an error, whoever else writes.
EndUnnoticed(r) ==
    /\ closed
    /\ \/ stream = "process" /\ pc[r] \in InHeader /\ input = <<>>
       \/ stream = "process" /\ pc[r] = "body" /\ Len(input) < local[r].length
       \/ /\ stream = "standardIO" /\ pc[r] = "field" /\ input = <<>>
          /\ signed => local[r].line # <<>>

EveryCallEnds ==
    /\ \A r \in Readers : []<>(closed => pc[r] \notin Reading) \/ <>[]EndUnnoticed(r)
    /\ \A t \in Threads : pc[t] \in {"report", "write"} ~> pc[t] = "idle"
=============================================================================
