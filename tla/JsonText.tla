------------------------------ MODULE JsonText ------------------------------
(***************************************************************************)
(* The JSON parser of src/lsp/json/json.cpp: a loop over a stack of        *)
(* contexts, each with a pointer to the value it is filling in.            *)
(*                                                                         *)
(* A text is a sequence of bytes.  Values live at addresses, as they do in *)
(* the program: the items of an array are moved when its vector grows, and *)
(* what points to them then points nowhere; the members of an object stay  *)
(* where they are.  An integer or a decimal number is kept as its text.    *)
(***************************************************************************)
EXTENDS Integers, Sequences, SequencesExt, FiniteSetsExt

CONSTANT Texts    \* the texts to be parsed

Bytes == Seq(0 .. 255)

ASSUME TextsAssumption == Texts \subseteq Bytes

VARIABLES
    text,       \* m_start .. m_end
    pos,        \* m_pos; 1 is the first byte
    stack,      \* m_stateStack
    heap,       \* address -> value
    outcome     \* "running", "value", or the exception that left parse()

vars == <<text, pos, stack, heap, outcome>>

-----------------------------------------------------------------------------
(* Characters *)

LineFeed == 10
Quote == 34
Comma == 44
Minus == 45
Dot == 46
Colon == 58
LeftBracket == 91
Backslash == 92
RightBracket == 93
LeftBrace == 123
RightBrace == 125

Space == {32} \union 9 .. 13
Digit == 48 .. 57
Letter == (65 .. 90) \union (97 .. 122)
Alnum == Digit \union Letter
Exponent == {69, 101}
HexDigit == Digit \union (65 .. 70) \union (97 .. 102)
HexValue(c) == IF c \in Digit THEN c - 48 ELSE IF c <= 70 THEN c - 55 ELSE c - 87
HexChar(n) == IF n < 10 THEN 48 + n ELSE 55 + n

TrueName == <<116, 114, 117, 101>>
FalseName == <<102, 97, 108, 115, 101>>
NullName == <<110, 117, 108, 108>>

-----------------------------------------------------------------------------
(* Values *)

Null == [null |-> TRUE]
Boolean(b) == [boolean |-> b]
Integer(l) == [integer |-> l]
Decimal(l) == [decimal |-> l]
String(s) == [string |-> s]
Array(items) == [items |-> items]
Object(members) == [members |-> members]

IsObject(v) == "members" \in DOMAIN v
IsArray(v) == "items" \in DOMAIN v

-----------------------------------------------------------------------------
(* String literals *)

\* The escapes that stand for a character which has to be escaped.
EscapeLetter == [c \in {8, 9, 10, 12, 13, Quote, Backslash} |->
    CASE c = 8 -> 98 [] c = 9 -> 116 [] c = 10 -> 110 [] c = 12 -> 102
      [] c = 13 -> 114 [] OTHER -> c]

\* Mutant of Escape: a backslash is not escaped.
EscapeNoBackslash(c) ==
    IF c \in DOMAIN EscapeLetter \ {Backslash} THEN <<Backslash, EscapeLetter[c]>> ELSE <<c>>

Escape(c) ==
    IF c \in DOMAIN EscapeLetter THEN <<Backslash, EscapeLetter[c]>>
    ELSE IF c < 32
         THEN <<Backslash, 117, 48, 48, HexChar(c \div 16), HexChar(c % 16)>>
         ELSE <<c>>

toStringLiteral(s) == <<Quote>> \o FlattenSeq([i \in DOMAIN s |-> Escape(s[i])]) \o <<Quote>>

\* The character after a backslash; what is no known escape stands for itself.
Unescape(c) ==
    CASE c = 48 -> 0 [] c = 97 -> 7 [] c = 98 -> 8 [] c = 116 -> 9 [] c = 110 -> 10
      [] c = 118 -> 11 [] c = 102 -> 12 [] c = 114 -> 13 [] OTHER -> c

\* appendCodePointAsUtf8
Utf8(codepoint) ==
    LET part(shift) == 128 + ((codepoint \div shift) % 64)
    IN  CASE codepoint < 128 -> <<codepoint>>
          [] codepoint \in 128 .. 2047 -> <<192 + codepoint \div 64, part(1)>>
          [] codepoint \in 2048 .. 65535 ->
                <<224 + codepoint \div 4096, part(64), part(1)>>
          [] codepoint \in 65536 .. 2097151 ->
                <<240 + codepoint \div 262144, part(4096), part(64), part(1)>>
          [] OTHER -> <<63>>

\* How many of the four characters from i on are hexadecimal digits.
HexDigits(s, i) ==
    Max({n \in 0 .. 4 : i + n - 1 <= Len(s) /\ \A k \in i .. i + n - 1 : s[k] \in HexDigit})

CodePoint(h) ==
    4096 * HexValue(h[1]) + 256 * HexValue(h[2]) + 16 * HexValue(h[3]) + HexValue(h[4])

Unquoted(s) ==
    LET front == IF s # <<>> /\ Head(s) = Quote THEN Tail(s) ELSE s
    IN  IF front # <<>> /\ Last(front) = Quote THEN Front(front) ELSE front

\* An escape \u without its four digits is kept as it is, with the digits it has,
\* or with all that is left of a literal that is too short.
fromStringLiteral(literal) ==
    LET s == Unquoted(literal)
        Rest[i \in 1 .. Len(s) + 1] ==
            IF i > Len(s) THEN <<>>
            ELSE IF s[i] # Backslash \/ i = Len(s) THEN <<s[i]>> \o Rest[i + 1]
            ELSE IF s[i + 1] # 117 THEN <<Unescape(s[i + 1])>> \o Rest[i + 2]
            ELSE IF HexDigits(s, i + 2) = 4
                 THEN Utf8(CodePoint(SubSeq(s, i + 2, i + 5))) \o Rest[i + 6]
                 ELSE LET kept == IF i + 5 <= Len(s) THEN HexDigits(s, i + 2)
                                  ELSE Len(s) - i - 1
                      IN  SubSeq(s, i, i + 1 + kept) \o Rest[i + 2 + kept]
    IN  Rest[1]

-----------------------------------------------------------------------------
(* What the parser reads at a position of the text *)

AtEnd(i) == i > Len(text)
Char(i) == text[i]

\* The first position from i on whose character is not in the set.
RunEnd(i, class) ==
    Min({j \in i .. Len(text) + 1 : AtEnd(j) \/ Char(j) \notin class})

SkipWhitespace(i) == IF AtEnd(i) THEN i ELSE RunEnd(i, Space)

Parsed(value, end) == [value |-> value, end |-> end]
Thrown(exception) == [exception |-> exception]
Throws(result) == "exception" \in DOMAIN result

\* Where the literal that starts at i ends: at a quote without an escape, at a line
\* feed, or with the text.
StringEnd(i) ==
    LET escaped[j \in i + 1 .. Len(text) + 1] ==
            j > i + 1 /\ ~escaped[j - 1] /\ Char(j - 1) = Backslash
    IN  Min({j \in i + 1 .. Len(text) + 1 :
                \/ AtEnd(j)
                \/ Char(j) = LineFeed
                \/ Char(j) = Quote /\ ~escaped[j]})

parseString(i) ==
    IF AtEnd(i) \/ Char(i) # Quote THEN Thrown("ParseError")
    ELSE LET end == StringEnd(i)
         IN  IF AtEnd(end) \/ Char(end) = LineFeed THEN Thrown("ParseError")
             ELSE Parsed(String(fromStringLiteral(SubSeq(text, i, end))), end + 1)

Digits(l) == \A i \in DOMAIN l : l[i] \in Digit
Unsigned(l) == IF l # <<>> /\ Head(l) = Minus THEN Tail(l) ELSE l

\* std::from_chars: the whole text is an integer.
IsInteger(l) == Unsigned(l) # <<>> /\ Digits(Unsigned(l))

\* What std::stod reads as decimal notation; hexadecimal floating point, infinities
\* and numbers out of the range of double are not modelled.
IsMantissa(l) ==
    \E k \in 0 .. Len(l) :
        LET fraction == SubSeq(l, k + 1, Len(l))
        IN  /\ Digits(SubSeq(l, 1, k))
            /\ \/ fraction = <<>> /\ k > 0
               \/ /\ fraction # <<>> /\ Head(fraction) = Dot /\ Digits(Tail(fraction))
                  /\ Len(l) > 1
IsDecimal(l) ==
    LET m == Unsigned(l)
    IN  \/ IsMantissa(m)
        \/ \E k \in DOMAIN m :
            /\ m[k] \in Exponent
            /\ IsMantissa(SubSeq(m, 1, k - 1)) /\ IsInteger(SubSeq(m, k + 1, Len(m)))
DecimalPrefix(l) == Max({0} \union {n \in DOMAIN l : IsDecimal(SubSeq(l, 1, n))})

\* The largest integers of 32 and of 64 bits.
Max32 == <<50, 49, 52, 55, 52, 56, 51, 54, 52, 55>>
Max64 == <<57, 50, 50, 51, 51, 55, 50, 48, 51, 54, 56, 53, 52, 55, 55, 53, 56, 48, 55>>

\* Is the integer l in the two's complement range whose maximum is given?
Within(l, max) ==
    LET u == Unsigned(l)
        digits == SubSeq(u, Min({k \in DOMAIN u : u[k] # 48 \/ k = Len(u)}), Len(u))
        limit == IF u = l THEN max ELSE [max EXCEPT ![Len(max)] = @ + 1]
    IN  \/ Len(digits) < Len(limit)
        \/ digits = limit
        \/ /\ Len(digits) = Len(limit)
           /\ \E k \in DOMAIN digits :
                digits[k] < limit[k] /\ \A j \in 1 .. k - 1 : digits[j] = limit[j]

parseNumber(i) ==
    LET end == RunEnd(i, Alnum \union {Minus, Dot})
        l == SubSeq(text, i, end - 1)
    IN  IF \E k \in DOMAIN l : l[k] \in Exponent \union {Dot}
        THEN IF DecimalPrefix(l) = 0 THEN Thrown("invalid_argument")
             ELSE IF DecimalPrefix(l) < Len(l) THEN Thrown("ParseError")
             ELSE Parsed(Decimal(l), end)
        ELSE IF ~IsInteger(l) \/ ~Within(l, Max64) THEN Thrown("ParseError")
             ELSE Parsed(IF Within(l, Max32) THEN Integer(l) ELSE Decimal(l), end)

parseIdentifier(i) ==
    LET end == RunEnd(i, Alnum)
        name == SubSeq(text, i, end - 1)
    IN  CASE name = TrueName -> Parsed(Boolean(TRUE), end)
          [] name = FalseName -> Parsed(Boolean(FALSE), end)
          [] name = NullName -> Parsed(Null, end)
          [] OTHER -> Thrown("ParseError")

parseSimpleValue(i) ==
    CASE Char(i) = Quote -> parseString(i)
      [] Char(i) \in Digit \union {Minus} -> parseNumber(i)
      [] Char(i) \in Letter -> parseIdentifier(i)
      [] OTHER -> Thrown("ParseError")

-----------------------------------------------------------------------------
(* Values in memory, and the stack of pointers to them *)

Root == 1
Fresh == Max(DOMAIN heap) + 1

Current == Last(stack)
CurrentValue == heap[Current.value]

Push(s, context, value) == Append(s, [context |-> context, value |-> value])
Pop(s) == Front(s)

Init ==
    /\ text \in Texts /\ pos = 1
    /\ heap = [a \in {Root} |-> Null]
    /\ stack = Push(<<>>, "Value", Root)
    /\ outcome = "running"

\* object[key]: a member at a new address; the others stay where they are.
AddMember(object, key) ==
    LET members == heap[object].members
    IN  [a \in DOMAIN heap \union {Fresh} |->
            IF a = Fresh THEN Null
            ELSE IF a = object
                 THEN Object([k \in DOMAIN members \union {key} |->
                                IF k = key THEN Fresh ELSE members[k]])
                 ELSE heap[a]]

\* array.emplace_back(): if the vector grows, the items so far move to new addresses
\* and nothing is left at the old ones.
EmplaceBack(array, grows) ==
    LET items == heap[array].items
        n == Len(items)
        base == IF grows THEN Fresh - 1 ELSE Fresh - 1 - n
        moved == [i \in 1 .. n + 1 |-> IF grows \/ i = n + 1 THEN base + i ELSE items[i]]
        gone == IF grows THEN Range(items) ELSE {}
    IN  [a \in (DOMAIN heap \ gone) \union Range(moved) |->
            IF a = array THEN Array(moved)
            ELSE IF a = moved[n + 1] THEN Null
            ELSE IF a > Fresh - 1 THEN heap[items[a - base]]
            ELSE heap[a]]

-----------------------------------------------------------------------------
(* One turn of the loop in parse(): skip white space, then handle the context on *)
(* top of the stack.                                                             *)

Here == SkipWhitespace(pos)

Turn(context) ==
    /\ outcome = "running" /\ stack # <<>> /\ Current.context = context /\ ~AtEnd(Here)

Throw(exception) == outcome' = exception /\ UNCHANGED <<text, pos, stack, heap>>
Go == UNCHANGED <<text, outcome>>

SetCurrent(value) == heap' = [heap EXCEPT ![Current.value] = value]

\* Mutant of Beyond: m_pos is not incremented.
NotBeyond == Here

Beyond == Here + 1

\* handleValue
OpenObject ==
    /\ Turn("Value") /\ Char(Here) = LeftBrace
    /\ pos' = Beyond
    /\ SetCurrent(Object(<<>>))
    /\ stack' = Push(stack, "Object", Current.value)
    /\ Go

OpenArray ==
    /\ Turn("Value") /\ Char(Here) = LeftBracket
    /\ pos' = Beyond
    /\ SetCurrent(Array(<<>>))
    /\ stack' = Push(stack, "Array", Current.value)
    /\ Go

SimpleValue ==
    /\ Turn("Value") /\ Char(Here) \notin {LeftBrace, LeftBracket}
    /\ LET result == parseSimpleValue(Here)
       IN  IF Throws(result) THEN Throw(result.exception)
           ELSE /\ pos' = result.end
                /\ SetCurrent(result.value)
                /\ stack' = Pop(stack)
                /\ Go

\* Mutant of PopBoth: the entry of the object or array only.
PopOne == Pop(stack)

\* The entry of the object or array, and that of its value.
PopBoth == Pop(Pop(stack))

Close(context, char) ==
    /\ Turn(context) /\ Char(Here) = char
    /\ pos' = Beyond
    /\ stack' = PopBoth
    /\ UNCHANGED heap /\ Go

\* Mutant of NextStart: a comma that is missing is not missed.
OptionalComma(empty, close) ==
    Parsed(Null, IF Char(Here) = Comma THEN SkipWhitespace(Beyond) ELSE Here)

\* Where the next member or item starts: after a comma, unless it is the first.
NextStart(empty, close) ==
    LET start == SkipWhitespace(Beyond)
    IN  IF empty THEN Parsed(Null, Here)
        ELSE IF Char(Here) # Comma \/ (~AtEnd(start) /\ Char(start) = close)
             THEN Thrown("ParseError")
             ELSE Parsed(Null, start)

\* handleObject
NextMember ==
    /\ Turn("Object") /\ Char(Here) # RightBrace
    /\ LET next == NextStart(CurrentValue.members = <<>>, RightBrace)
       IN  IF Throws(next) THEN Throw(next.exception)
           ELSE /\ pos' = next.end
                /\ stack' = Push(stack, "ObjectKey", Current.value)
                /\ UNCHANGED heap /\ Go

IsDuplicate(key) == key \in DOMAIN CurrentValue.members

\* handleObjectKey; at the end of the text the colon is taken for granted.
ObjectKey ==
    /\ Turn("ObjectKey")
    /\ LET key == parseString(Here)
       IN  IF Throws(key) THEN Throw(key.exception)
           ELSE LET colon == SkipWhitespace(key.end)
                    name == key.value.string
                IN  IF IsDuplicate(name) \/ (~AtEnd(colon) /\ Char(colon) # Colon)
                    THEN Throw("ParseError")
                    ELSE /\ pos' = colon + 1
                         /\ heap' = AddMember(Current.value, name)
                         /\ stack' = Push(Pop(stack), "Value", Fresh)
                         /\ Go

\* handleArray
NextItem ==
    /\ Turn("Array") /\ Char(Here) # RightBracket
    /\ LET next == NextStart(CurrentValue.items = <<>>, RightBracket)
       IN  IF Throws(next) THEN Throw(next.exception)
           ELSE \E grows \in BOOLEAN :
                    /\ pos' = next.end
                    /\ heap' = EmplaceBack(Current.value, grows)
                    /\ stack' = Push(stack, "Value", Last(heap'[Current.value].items))
                    /\ Go

\* The text ends inside a value.
UnexpectedEnd ==
    /\ outcome = "running" /\ stack # <<>> /\ AtEnd(Here)
    /\ Throw("ParseError")

\* parse() returns the value, unless something follows it.
Return ==
    /\ outcome = "running" /\ stack = <<>>
    /\ outcome' = IF AtEnd(Here) THEN "value" ELSE "ParseError"
    /\ UNCHANGED <<text, pos, stack, heap>>

\* parse() has returned or thrown.
Done == outcome # "running" /\ UNCHANGED vars

Next ==
    \/ OpenObject \/ OpenArray \/ SimpleValue
    \/ Close("Object", RightBrace) \/ Close("Array", RightBracket)
    \/ NextMember \/ ObjectKey \/ NextItem
    \/ UnexpectedEnd \/ Return \/ Done

Spec == Init /\ [][Next]_vars

-----------------------------------------------------------------------------
(* Properties *)

Contexts == {"Value", "Object", "ObjectKey", "Array"}
Outcomes == {"running", "value", "ParseError", "invalid_argument"}

Children(a) ==
    IF IsObject(heap[a]) THEN Range(heap[a].members)
    ELSE IF IsArray(heap[a]) THEN Range(heap[a].items)
    ELSE {}

\* The position is at most two after the last byte: ObjectKey steps over a colon that
\* is not there.
TypeOK ==
    /\ text \in Bytes
    /\ pos \in 1 .. Len(text) + 2
    /\ outcome \in Outcomes
    /\ DOMAIN heap \subseteq Nat /\ Root \in DOMAIN heap
    /\ \A a \in DOMAIN heap : Children(a) \subseteq DOMAIN heap
    /\ stack \in Seq([context : Contexts, value : Nat])

\* The value that an entry of the stack points to is there, and is what the context
\* takes it for.
PointsToItsKind(e) ==
    /\ e.value \in DOMAIN heap
    /\ e.context \in {"Object", "ObjectKey"} => IsObject(heap[e.value])
    /\ e.context = "Array" => IsArray(heap[e.value])

\* Which entry may be on top of which.
Follows(e, f) ==
    CASE e.context = "Value" -> f.context \in {"Object", "Array"} /\ f.value = e.value
      [] e.context = "Object" ->
            \/ f.context = "ObjectKey" /\ f.value = e.value
            \/ f.context = "Value" /\ f.value \in Children(e.value)
      [] e.context = "Array" -> f.context = "Value" /\ f.value = Last(heap[e.value].items)
      [] OTHER -> FALSE

\* While vectors grow and their items move, no pointer on the stack is left dangling:
\* the stack is a path through the value from its root, each context is on a value
\* of its kind, and a value that is to be read is still null.
StackIsPath ==
    /\ \A i \in DOMAIN stack : PointsToItsKind(stack[i])
    /\ stack # <<>> => stack[1] = [context |-> "Value", value |-> Root]
    /\ \A i \in DOMAIN stack \ {1} : Follows(stack[i - 1], stack[i])
    /\ stack # <<>> /\ Current.context = "Value" => CurrentValue = Null

\* The loop ends for every text: no turn leaves it where it was.  Only a turn on an
\* object or array may leave the position where it was, and the turn after it does not.
TurnsLeft ==
    2 * (Len(text) + 2 - pos)
        + (IF stack # <<>> /\ Current.context \in {"Object", "Array"} THEN 1 ELSE 0)
EveryTurnGetsOn ==
    [][outcome' = "running" => TurnsLeft' < TurnsLeft /\ TurnsLeft' >= 0]_vars
=============================================================================
