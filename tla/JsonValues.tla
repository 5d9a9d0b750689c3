----------------------------- MODULE JsonValues -----------------------------
(***************************************************************************)
(* JSON values, src/lsp/json/json.h.  A value is [kind, v]; the v of an    *)
(* object is a function from its keys, that of an array a sequence.        *)
(* Strings and numbers stand for themselves; a number is counted in        *)
(* halves, to have one that is not an integer.                             *)
(***************************************************************************)
EXTENDS Integers, Sequences

Value(kind, v) == [kind |-> kind, v |-> v]
Null == Value("null", <<>>)
Boolean(b) == Value("boolean", b)
String(s) == Value("string", s)
Number(halves) == Value("number", halves)
Object(members) == Value("object", members)
Array(elements) == Value("array", elements)

\* std::optional and the empty one
Some(x) == <<x>>
Nothing == <<>>

Keys(json) == DOMAIN json.v
At(json, key) == IF key \in Keys(json) THEN Some(json.v[key]) ELSE Nothing
Put(json, key, value) ==
    Object([k \in Keys(json) \union {key} |-> IF k = key THEN value ELSE json.v[k]])
PutSome(json, key, option) == IF option = Nothing THEN json ELSE Put(json, key, option[1])

\* What is made of a JSON value, or the exception it makes the reader throw.
Ok(x) == [ok |-> TRUE, value |-> x]
Failure(exception) == [ok |-> FALSE, value |-> exception]

\* A static_cast to an integer: the fraction is cut off.
Truncate(halves) == IF halves >= 0 THEN halves \div 2 ELSE -((-halves) \div 2)
=============================================================================
