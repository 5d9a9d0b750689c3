----------------------------- MODULE MCUriText -----------------------------
(* An instance of UriText for TLC. *)
EXTENDS UriText

\* a A f 2 and a space
SomeSetter == [p \in Parts |->
    CASE p = "scheme" -> {<<>>, <<65, 43>>, <<65, 58>>, [i \in 1 .. 10 |-> 97]}
      [] p = "authority" -> {<<>>, <<65, 37, 50, 102>>, <<97, 47>>, [i \in 1 .. 10 |-> 97]}
      [] p = "path" -> {<<>>, <<47>>, <<47, 47, 32>>, <<97, 37, 102>>, <<63, 35, 32, 37>>,
                        [i \in 1 .. 11 |-> 97]}
      [] p = "query" -> {<<>>, <<37, 37, 102, 97>>, <<63, 35>>, [i \in 1 .. 10 |-> 97]}
      [] p = "fragment" -> {<<>>, <<35, 37, 102, 97>>, [i \in 1 .. 10 |-> 37]}]

SomePaths == {<<47, 97, 32>>, <<47, 37, 63, 47>>, <<47, 0, 255, 47>>, <<47, 255, 255, 255>>}

\* All texts with the scheme a and up to four more bytes, and others.
Alphabet == {47, 63, 35, 58, 37, 50, 102}
Tails == UNION {[1 .. n -> Alphabet] : n \in 0 .. 4}
Rest == UNION {[1 .. n -> {97, 58, 47, 37}] : n \in 0 .. 3}
SomeEdited == {<<65, 58, 47, 47, 97, 47, 63, 37, 50, 102, 35>>, <<97, 58, 37, 50, 102, 97>>}
SomeTexts ==
    {<<97, 58>> \o t : t \in Tails} \union {<<97, 58, 47, 47>> \o t : t \in Tails}
        \union Rest \union SomeEdited
        \union {[i \in 1 .. n |-> 97] \o <<58, 97>> : n \in 9 .. 12}
        \union {<<97, 58, 47, 47>> \o [i \in 1 .. n |-> 97] \o <<47, 63>> : n \in 9 .. 11}
        \union {<<97, 58>> \o [i \in 1 .. n |-> 97] \o <<63, 97, 35>> : n \in 9 .. 11}
        \union {<<97, 58, 47, 37, 50, 102>> \o [i \in 1 .. n |-> 37] : n \in 0 .. 9}
=============================================================================
