---------------------------- MODULE JsonLanguage ----------------------------
(***************************************************************************)
(* What the parser of JsonText is to accept, as a definition of the        *)
(* language by decomposition of a text, and stringify(), which writes      *)
(* values to texts of the language.                                        *)
(*                                                                         *)
(* A value is here a tree: arrays and objects hold values, not addresses.  *)
(***************************************************************************)
EXTENDS JsonText

CONSTANT Values    \* values to be written and read back

-----------------------------------------------------------------------------
(* stringify() *)

Join(parts, separator) ==
    IF parts = <<>> THEN <<>>
    ELSE Head(parts) \o FlattenSeq([i \in 1 .. Len(parts) - 1 |-> separator \o parts[i + 1]])

Tabs(level) == [i \in 1 .. (IF level < 32 THEN level ELSE 32) |-> 9]

\* Elements between brackets, each on a line of its own if the text is formatted.
Enclosed(open, parts, close, level, format) ==
    LET start(l) == IF format THEN <<LineFeed>> \o Tabs(l) ELSE <<>>
    IN  IF parts = <<>> THEN <<open, close>>
        ELSE <<open>> \o start(level + 1) \o Join(parts, <<Comma>> \o start(level + 1))
                 \o start(level) \o <<close>>

\* Decimal numbers, which std::to_string rounds to six places, are not written here.
\* The members of an object come in no particular order.
RECURSIVE stringifyImplementation(_, _, _)
stringifyImplementation(json, level, format) ==
    LET within(v) == stringifyImplementation(v, level + 1, format)
        keySep == IF format THEN <<Colon, 32>> ELSE <<Colon>>
    IN  CASE "null" \in DOMAIN json -> NullName
          [] "boolean" \in DOMAIN json -> IF json.boolean THEN TrueName ELSE FalseName
          [] "integer" \in DOMAIN json -> json.integer
          [] "string" \in DOMAIN json -> toStringLiteral(json.string)
          [] IsObject(json) ->
                LET keys == SetToSeq(DOMAIN json.members)
                    member(k) == toStringLiteral(k) \o keySep \o within(json.members[k])
                IN  Enclosed(LeftBrace, [i \in DOMAIN keys |-> member(keys[i])], RightBrace,
                             level, format)
          [] IsArray(json) ->
                Enclosed(LeftBracket, [i \in DOMAIN json.items |-> within(json.items[i])],
                         RightBracket, level, format)

stringify(json, format) == stringifyImplementation(json, 0, format)

\* Every value with its two texts.
Written == {<<v, stringify(v, format)>> : v \in Values, format \in BOOLEAN}

-----------------------------------------------------------------------------
(* The language: which values a text denotes, none or one *)

IsBlank(s) == \A i \in DOMAIN s : s[i] \in Space
Trim(s) ==
    IF IsBlank(s) THEN <<>>
    ELSE LET inked == {i \in DOMAIN s : s[i] \notin Space}
         IN  SubSeq(s, Min(inked), Max(inked))
Before(s, i) == SubSeq(s, 1, i - 1)
After(s, i) == SubSeq(s, i + 1, Len(s))
Places(s, c) == {i \in DOMAIN s : s[i] = c}

\* Characters and escapes, none of them a quote or a line feed of its own.
RECURSIVE IsBody(_)
IsBody(s) ==
    \/ s = <<>>
    \/ Head(s) \notin {Quote, Backslash, LineFeed} /\ IsBody(Tail(s))
    \/ Head(s) = Backslash /\ Len(s) > 1 /\ s[2] # LineFeed /\ IsBody(After(s, 2))

IsLiteral(s) == Len(s) > 1 /\ Head(s) = Quote /\ Last(s) = Quote /\ IsBody(Front(Tail(s)))

Names(s) ==
    (IF s = TrueName THEN {Boolean(TRUE)} ELSE {})
        \union (IF s = FalseName THEN {Boolean(FALSE)} ELSE {})
        \union (IF s = NullName THEN {Null} ELSE {})

\* Integers of 32 bits; integers of 64 bits and decimals become decimal.
Numbers(s) ==
    IF IsInteger(s)
    THEN IF Within(s, Max32) THEN {Integer(s)}
         ELSE IF Within(s, Max64) THEN {Decimal(s)} ELSE {}
    ELSE IF IsDecimal(s) /\ Head(s) # Dot THEN {Decimal(s)} ELSE {}

Strings(s) == IF IsLiteral(s) THEN {String(fromStringLiteral(s))} ELSE {}

RECURSIVE Denotes(_), Items(_), Members(_)
Denotes(t) ==
    LET s == Trim(t)
        inner == Front(Tail(s))
        compound(open, close) == Len(s) > 1 /\ Head(s) = open /\ Last(s) = close
    IN  IF s = <<>> THEN {}
        ELSE IF compound(LeftBracket, RightBracket)
             THEN {Array(x) : x \in IF IsBlank(inner) THEN {<<>>} ELSE Items(inner)}
        ELSE IF compound(LeftBrace, RightBrace)
             THEN {Object(m) : m \in IF IsBlank(inner) THEN {<<>>} ELSE Members(inner)}
        ELSE Names(s) \union Numbers(s) \union Strings(s)

\* One value, or one before a comma and the others after it.
Items(s) ==
    {<<v>> : v \in Denotes(s)} \union
    UNION {{<<v>> \o rest : v \in Denotes(Before(s, i)), rest \in Items(After(s, i))} :
             i \in Places(s, Comma)}

\* The same with members, a literal, a colon and a value; keys are different.
Member(s) ==
    UNION {{[k \in {key.string} |-> v] :
              key \in Strings(Trim(Before(s, i))), v \in Denotes(After(s, i))} :
             i \in Places(s, Colon)}
Members(s) ==
    Member(s) \union
    UNION {{p[1] @@ p[2] :
              p \in {q \in Member(Before(s, i)) \X Members(After(s, i)) :
                       DOMAIN q[1] \intersect DOMAIN q[2] = {}}} :
             i \in Places(s, Comma)}

-----------------------------------------------------------------------------
(* Properties *)

\* The tree at an address.
RECURSIVE Tree(_)
Tree(a) ==
    LET v == heap[a]
    IN  IF IsObject(v) THEN Object([k \in DOMAIN v.members |-> Tree(v.members[k])])
        ELSE IF IsArray(v) THEN Array([i \in DOMAIN v.items |-> Tree(v.items[i])])
        ELSE v

\* parse() returns a value exactly for the texts of the language, and the value that the
\* text denotes: no stray or trailing comma, no missing or doubled colon, bracket, quote or
\* key gets past the stack machine, however values are nested, and none is lost or
\* put in the wrong place.
ParsesTheLanguage ==
    outcome # "running" => Denotes(text) = IF outcome = "value" THEN {Tree(Root)} ELSE {}

\* What stringify writes, formatted or not, parse reads back as the same value: control
\* characters, quotes and backslashes in strings and keys included.
WrittenIsReadBack ==
    outcome # "running" =>
        \A w \in Written : text = w[2] => outcome = "value" /\ Tree(Root) = w[1]
=============================================================================
