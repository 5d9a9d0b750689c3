------------------------------ MODULE UriText ------------------------------
(***************************************************************************)
(* src/lsp/uri.cpp: a URI is one string with the texts of its parts, one   *)
(* after the other without delimiters, and the length of each part in a    *)
(* std::uint16_t.                                                          *)
(*                                                                         *)
(* A text is a sequence of bytes.  Widths are kept: lengths are reduced    *)
(* modulo Width.                                                           *)
(***************************************************************************)
EXTENDS Integers, Sequences, SequencesExt, FiniteSetsExt

CONSTANTS
    Width,    \* 2^16 in the code
    Setter,   \* part -> texts given to its setter
    Paths,    \* absolute paths given to fileUriFromPath
    Texts,    \* texts given to parse
    Edited,   \* those of them whose result is then changed
    MaxData   \* bound on the bytes kept, where parts too long pile up

Parts == {"scheme", "authority", "path", "query", "fragment"}
Optional == {"authority", "query", "fragment"}
Byte == 0 .. 255

\* The scheme that fileUriFromPath sets is not too long.
ASSUME WidthAssumption == Width \in Nat /\ Width > 4
ASSUME EditedAssumption == Edited \subseteq Texts
ASSUME TextsAssumption ==
    Texts \union Paths \union UNION {Setter[p] : p \in Parts} \subseteq Seq(Byte)

Percent == 37
Slash == 47
Colon == 58
Question == 63
Hash == 35

Digit == 48 .. 57
Upper == 65 .. 90
Lower == 97 .. 122
Alnum == Digit \union Upper \union Lower
SchemeByte == Alnum \union {43, 45, 46}     \* + - .
PlainByte == Alnum \union {95, 46, 45}      \* _ . -
HexDigit == Digit \union (65 .. 70) \union (97 .. 102)

toLower(c) == IF c \in Upper THEN c + 32 ELSE c
toUpper(c) == IF c \in Lower THEN c - 32 ELSE c
HexValue(c) == IF c \in Digit THEN c - 48 ELSE toUpper(c) - 55
HexChar(n) == IF n < 10 THEN 48 + n ELSE 55 + n

File == <<102, 105, 108, 101>>

-----------------------------------------------------------------------------
(* Texts.  Positions count from 0, as they do in the code. *)

From(text, idx) == SubSeq(text, idx + 1, Len(text))
ByteAt(text, idx, c) == idx < Len(text) /\ text[idx + 1] = c

\* How many bytes there are before the first one in stop.
Span(text, stop) ==
    LET stops == {i \in DOMAIN text : text[i] \in stop}
    IN  IF stops = {} THEN Len(text) ELSE Min(stops) - 1

\* The parseUri... functions count in a std::uint16_t.
parseUriScheme(text) == Span(text, Byte \ SchemeByte) % Width
parseUriAuthority(text) == Span(text, {Slash, Question, Hash}) % Width
parseUriPath(text) == Span(text, {Question, Hash}) % Width
parseUriQuery(text) == Span(text, {Hash}) % Width

\* Mutant of IsEscape: the last escape of a text is overlooked.
IsEscapeBefore(text, i) == text[i] = Percent /\ i + 2 < Len(text)

IsEscape(text, i) == text[i] = Percent /\ i + 2 <= Len(text)

\* The loops over a text step over the two bytes that follow a percent sign.
Escapes(text) ==
    LET starts[i \in 1 .. Len(text)] ==
            IsEscape(text, i) /\ (i > 1 => ~starts[i - 1]) /\ (i > 2 => ~starts[i - 2])
    IN  {i \in DOMAIN text : starts[i]}

InEscape(text, i) == i - 1 \in Escapes(text) \/ i - 2 \in Escapes(text)

normalizeEncodedCase(text) ==
    [i \in DOMAIN text |-> IF InEscape(text, i) THEN toUpper(text[i]) ELSE text[i]]

Unencoded(exclude) == PlainByte \union exclude

encode(text, exclude) ==
    FlattenSeq([i \in DOMAIN text |->
        IF text[i] \in Unencoded(exclude) THEN <<text[i]>>
        ELSE <<Percent, HexChar(text[i] \div 16), HexChar(text[i] % 16)>>])

\* Nothing at all is returned for a text with a bad escape.
decode(text) ==
    IF \E i \in Escapes(text) : {text[i + 1], text[i + 2]} \ HexDigit # {} THEN <<>>
    ELSE FlattenSeq([i \in DOMAIN text |->
        CASE i \in Escapes(text) -> <<16 * HexValue(text[i + 1]) + HexValue(text[i + 2])>>
          [] InEscape(text, i) -> <<>>
          [] OTHER -> <<text[i]>>])

-----------------------------------------------------------------------------
(* The representation *)

NewUri == [data |-> <<>>, len |-> [p \in Parts |-> 0], has |-> {}]

\* Mutant of Idx: the index of the fragment leaves out the query.
IdxWithoutQuery(u, p) ==
    CASE p = "scheme" -> 0
      [] p = "authority" -> u.len["scheme"]
      [] OTHER -> u.len["scheme"] + u.len["authority"]
                    + IF p = "path" THEN 0 ELSE u.len["path"]

\* The index of a part is the sum of the lengths before it.
Idx(u, p) ==
    CASE p = "scheme" -> 0
      [] p = "authority" -> u.len["scheme"]
      [] p = "path" -> u.len["scheme"] + u.len["authority"]
      [] p = "query" -> u.len["scheme"] + u.len["authority"] + u.len["path"]
      [] p = "fragment" -> u.len["scheme"] + u.len["authority"] + u.len["path"] + u.len["query"]

\* scheme(), authority(), path(), query(), fragment()
Get(u, p) ==
    IF p \in Optional \ u.has THEN <<>>
    ELSE SubSeq(u.data, Idx(u, p) + 1, Idx(u, p) + u.len[p])

isValid(u) == u.len["scheme"] > 0

\* What is done to the text of a part, once it is in its place.
Canonical(p, text) ==
    CASE p = "scheme" -> [i \in DOMAIN text |-> toLower(text[i])]
      [] p = "path" -> text
      [] OTHER -> normalizeEncodedCase(text)

\* Mutant of Replace: the byte behind the old text goes too.
ReplaceOneMore(text, idx, n, new) == SubSeq(text, 1, idx) \o new \o From(text, idx + n + 1)

Replace(text, idx, n, new) == SubSeq(text, 1, idx) \o new \o From(text, idx + n)

\* The insert... functions.  Of a text that is too long only the part that the
\* length still counts is made canonical.
Insert(u, p, text) ==
    LET n == Len(text) % Width
    IN  [data |-> Replace(u.data, Idx(u, p), u.len[p],
                          Canonical(p, SubSeq(text, 1, n)) \o From(text, n)),
         len |-> [u.len EXCEPT ![p] = n],
         has |-> u.has \union ({p} \intersect Optional)]

\* setPath and setFragment take anything.
Accepts(p, text) ==
    CASE p = "scheme" -> parseUriScheme(text) = Len(text)
      [] p = "authority" -> parseUriAuthority(text) = Len(text)
      [] p = "query" -> parseUriQuery(text) = Len(text)
      [] OTHER -> TRUE

Without(u, p) ==
    LET emptied == Insert(u, p, <<>>)
    IN  [data |-> emptied.data, len |-> emptied.len, has |-> u.has \ {p}]

toString(u) ==
    LET Delimited(p, delimiter) == IF p \in u.has THEN delimiter \o Get(u, p) ELSE <<>>
    IN  IF ~isValid(u) THEN <<>>
        ELSE Get(u, "scheme") \o <<Colon>> \o Delimited("authority", <<Slash, Slash>>)
                \o encode(Get(u, "path"), {Slash})
                \o Delimited("query", <<Question>>) \o Delimited("fragment", <<Hash>>)

\* The steps of parse(), from the index the one before has reached.
ParsedFragment(u, text, idx) ==
    IF ByteAt(text, idx, Hash) THEN Insert(u, "fragment", From(text, idx + 1)) ELSE u

ParsedQuery(u, text, idx) ==
    LET n == parseUriQuery(From(text, idx + 1))
    IN  IF ByteAt(text, idx, Question)
        THEN ParsedFragment(Insert(u, "query", SubSeq(text, idx + 2, idx + 1 + n)),
                            text, idx + 1 + n)
        ELSE ParsedFragment(u, text, idx)

ParsedPath(u, text, idx) ==
    LET n == parseUriPath(From(text, idx))
    IN  IF idx >= Len(text) THEN u
        ELSE IF "authority" \in u.has /\ ~ByteAt(text, idx, Slash) THEN NewUri
        ELSE ParsedQuery(Insert(u, "path", decode(SubSeq(text, idx + 1, idx + n))),
                         text, idx + n)

ParsedAuthority(u, text, idx) ==
    LET n == parseUriAuthority(From(text, idx + 2))
    IN  IF ByteAt(text, idx, Slash) /\ ByteAt(text, idx + 1, Slash)
        THEN ParsedPath(Insert(u, "authority", SubSeq(text, idx + 3, idx + 2 + n)),
                        text, idx + 2 + n)
        ELSE ParsedPath(u, text, idx)

parse(text) ==
    LET n == parseUriScheme(text)
    IN  IF n = 0 \/ ~ByteAt(text, n, Colon) THEN NewUri
        ELSE ParsedAuthority(Insert(NewUri, "scheme", SubSeq(text, 1, n)), text, n + 1)

-----------------------------------------------------------------------------
(* What a URI consists of: a reference that knows of no positions and lengths. *)

NoParts == [p \in Parts \ Optional |-> <<>>]

Set(parts, p, text) ==
    [q \in DOMAIN parts \union {p} |-> IF q = p THEN Canonical(p, text) ELSE parts[q]]

\* The setters that check the text refuse one whose length would come round.
Fits(p, text) == p \notin {"path", "fragment"} => Len(text) < Width

\* What the setter of a part takes, whatever the length.
Allowed(p, text) ==
    CASE p = "scheme" -> Range(text) \subseteq SchemeByte
      [] p = "authority" -> Range(text) \intersect {Slash, Question, Hash} = {}
      [] p = "query" -> Hash \notin Range(text)
      [] OTHER -> TRUE

\* The parts between the delimiters, found from the end: the fragment is behind the
\* first #, the query behind the first ? before it, the scheme before the first :
\* of the rest, and an authority between // and the next /.
Cut(text, c) ==
    LET at == {i \in DOMAIN text : text[i] = c}
    IN  IF at = {} THEN <<text>> ELSE <<SubSeq(text, 1, Min(at) - 1), From(text, Min(at))>>

RawParts(text) ==
    LET f == Cut(text, Hash)
        q == Cut(f[1], Question)
        s == Cut(q[1], Colon)
        rest == s[2]
        a == Cut(From(rest, 2), Slash)
        hasAuthority == IsPrefix(<<Slash, Slash>>, rest)
    IN  [p \in {"scheme", "path"}
                \union (IF hasAuthority THEN {"authority"} ELSE {})
                \union (IF Len(q) = 2 THEN {"query"} ELSE {})
                \union (IF Len(f) = 2 THEN {"fragment"} ELSE {}) |->
            CASE p = "scheme" -> s[1]
              [] p = "authority" -> a[1]
              [] p = "path" ->
                    IF hasAuthority THEN IF Len(a) = 1 THEN <<>> ELSE <<Slash>> \o a[2]
                    ELSE rest
              [] p = "query" -> q[2]
              [] p = "fragment" -> f[2]]

\* The texts that parse() takes: it refuses an authority without a path when a query
\* or a fragment follows.
IsUri(text) ==
    LET head == Cut(Cut(Cut(text, Hash)[1], Question)[1], Colon)
        parts == RawParts(text)
    IN  /\ Len(head) = 2 /\ head[1] # <<>> /\ Allowed("scheme", head[1])
        /\ "authority" \in DOMAIN parts /\ parts["path"] = <<>>
              => DOMAIN parts \intersect {"query", "fragment"} = {}

Denoted(text) ==
    IF ~IsUri(text) THEN NoParts
    ELSE LET parts == RawParts(text)
         IN  [p \in DOMAIN parts |->
                IF p = "path" THEN decode(parts[p]) ELSE Canonical(p, parts[p])]

-----------------------------------------------------------------------------
VARIABLES
    uri,       \* the object
    parts,     \* what it should consist of
    source,    \* the text it was made from, if any
    tooLong    \* a part was accepted that its length cannot hold

vars == <<uri, parts, source, tooLong>>

Init == uri = NewUri /\ parts = NoParts /\ source = <<>> /\ tooLong = FALSE

\* Bound: results of other texts are left as they are.
MayChange == source \in Edited \union {<<>>}

set(p, text) ==
    /\ MayChange
    /\ uri' = IF Accepts(p, text) THEN Insert(uri, p, text) ELSE uri
    /\ parts' = IF Allowed(p, text) /\ Fits(p, text) THEN Set(parts, p, text) ELSE parts
    /\ tooLong' = (tooLong \/ (Len(text) >= Width /\ Accepts(p, text)))
    /\ Len(uri'.data) <= MaxData
    /\ UNCHANGED source

remove(p) ==
    /\ MayChange
    /\ uri' = Without(uri, p)
    /\ parts' = [q \in DOMAIN parts \ {p} |-> parts[q]]
    /\ UNCHANGED <<source, tooLong>>

Parse(text) ==
    /\ uri = NewUri /\ source = <<>>
    /\ uri' = parse(text)
    /\ parts' = Denoted(text)
    /\ source' = text
    /\ tooLong' = (IsUri(text)
                    /\ \E p \in DOMAIN RawParts(text) : Len(RawParts(text)[p]) >= Width)

fileUriFromPath(path) ==
    /\ MayChange
    /\ uri' = Insert(Insert(Insert(NewUri, "scheme", File), "authority", <<>>), "path", path)
    /\ parts' = Set(Set(Set(NoParts, "scheme", File), "authority", <<>>), "path", path)
    /\ tooLong' = (Len(path) >= Width)
    /\ UNCHANGED source

Next ==
    \/ \E p \in Parts : \E text \in Setter[p] : set(p, text)
    \/ \E p \in Optional : remove(p)
    \/ \E text \in Texts : Parse(text)
    \/ \E path \in Paths : fileUriFromPath(path)

Spec == Init /\ [][Next]_vars

-----------------------------------------------------------------------------
(* Invariants *)

\* After any setters, removals and parses the getters return exactly the parts that
\* were set, unless a path or fragment was accepted that is too long for its length:
\* the one string is cut at the right places, and parse() finds the parts that the
\* definition of a URI finds.
PartsAreKept ==
    ~tooLong =>
        /\ DOMAIN parts \intersect Optional = uri.has
        /\ \A p \in DOMAIN parts : Get(uri, p) = parts[p]

\* The parts never reach over the end of the string, also when lengths have come
\* round (or substr() would throw in a getter), and they fill it unless they have.
LengthsFit ==
    LET sum == uri.len["scheme"] + uri.len["authority"] + uri.len["path"]
                + uri.len["query"] + uri.len["fragment"]
    IN  /\ sum <= Len(uri.data)
        /\ ~tooLong => sum = Len(uri.data)

\* The URIs that are read back from their text: an authority needs a path behind it
\* or nothing, a path without an authority must not look like one, and a path must
\* not become too long when it is encoded.
Readable(u) ==
    LET path == Get(u, "path")
    IN  /\ Len(encode(path, {Slash})) < Width
        /\ IF "authority" \in u.has
           THEN \/ ByteAt(path, 0, Slash)
                \/ path = <<>> /\ u.has = {"authority"}
           ELSE ~IsPrefix(<<Slash, Slash>>, path)

\* toString() and parse() are inverse for exactly these: maps with URIs for keys, and
\* every message with a document, send a URI as its text and read it back.
ReadBack ==
    isValid(uri) /\ ~tooLong => (parse(toString(uri)) = uri <=> Readable(uri))
=============================================================================
