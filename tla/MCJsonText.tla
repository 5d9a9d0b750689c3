----------------------------- MODULE MCJsonText -----------------------------
(* An instance of JsonLanguage for TLC. *)
EXTENDS JsonLanguage

\* Values with every kind of member, nested three deep, and with strings that need
\* each kind of escape.
a == 97
Odd == <<1, 31, 10, 34, 92, 117, 48, 195, 169>>
One == Integer(<<49>>)
Leaves == {Null, Boolean(FALSE), One, Integer(<<45, 50>>), String(<<>>), String(Odd),
           String(<<92>>), Array(<<>>), Object(<<>>)}
Nested ==
    {Array(<<v, w>>) : v, w \in Leaves}
        \union {Object([k \in {<<>>, Odd} |-> IF k = Odd THEN v ELSE w]) : v, w \in Leaves}
SomeValues ==
    Leaves \union Nested
        \union {Array(<<One, Array(<<One, One, Array(<<Null, One>>)>>), v>>) : v \in Leaves}
        \union {Object([k \in {<<a>>} |-> Array(<<Object([l \in {<<a>>} |-> v]), v>>)]) :
                    v \in Leaves}

\* Every short text of these characters.
Alphabet == {LeftBrace, RightBrace, LeftBracket, RightBracket, Comma, Colon, Quote, 49, 32}
Short == SeqOf(Alphabet, 5)

\* Every text that is one edit away from one of these.
Edits(s) ==
    {RemoveAt(s, i) : i \in DOMAIN s}
        \union {[s EXCEPT ![i] = c] : i \in DOMAIN s, c \in Alphabet \union {Backslash, 10, a}}
        \union {InsertAt(s, i, c) : i \in 1 .. Len(s) + 1, c \in Alphabet \union {Backslash}}
Models == {stringify(v, FALSE) : v \in {
    Array(<<One, Array(<<One>>), Null>>),
    Object([k \in {<<>>, <<a>>} |-> One]),
    Array(<<Object([k \in {<<a>>} |-> Array(<<>>)]), Object(<<>>)>>),
    String(<<34, 1, 92>>)}}

\* Escapes that stringify does not write: \u with four, three and no digits, in the
\* middle and at the end of a literal, and letters that escape nothing.
Literals == {<<Quote>> \o s \o <<Quote>> : s \in {
    <<92, 117, 48, 48, 69, 57>>, <<92, 117, 50, 48, 97, 99, 49>>, <<92, 117, 48, 52>>,
    <<92, 117, 48, 122, 49, 49>>, <<92, 117>>, <<92, 113, 92, 47>>, <<92, 48, 92, 97>>}}

\* Numbers at the limits of 32 and 64 bits, and what looks like a number.
Negative(l) == <<Minus>> \o l
Above(l) == [l EXCEPT ![Len(l)] = @ + 1]
Numerals ==
    {Max32, Above(Max32), Negative(Above(Max32)), Negative(Above(Above(Max32))),
     Max64, Above(Max64), Negative(Above(Max64)), Negative(Above(Above(Max64))),
     <<48, 48, 55>>, <<45>>, <<45, 101>>, <<45, 46, 53>>, <<49, 46>>, <<49, 101>>,
     <<49, 101, 45, 50>>, <<49, 46, 50, 46, 51>>, <<49, 97>>, <<46, 53>>, <<49, 45>>}

SomeTexts ==
    {w[2] : w \in Written} \union Short \union Literals
        \union Numerals \union UNION {Edits(s) : s \in Models}
        \union {TrueName, NullName \o <<49>>, <<Comma>> \o TrueName}
=============================================================================
