--------------------------- MODULE JsonTextProofs ---------------------------
(***************************************************************************)
(* Proofs about JsonText, for every set of texts: the parser reads inside  *)
(* the text and gets on in every turn, and its stack of pointers is a path *)
(* through the value it builds.                                            *)
(***************************************************************************)
EXTENDS JsonText, WellFoundedInduction, TLAPS

-----------------------------------------------------------------------------
(* Where the parser stops reading *)

\* The smallest of some natural numbers.
LEMMA MinOfNats ==
    ASSUME NEW S \in SUBSET Nat, S # {}
    PROVE  Min(S) \in S /\ \A n \in S : Min(S) <= n
<1>1. PICK m \in S : \A n \in S : <<n, m>> \notin OpToRel(<, Nat)
  BY NatLessThanWellFounded, WFMin, Zenon
<1>2. ASSUME NEW k \in Nat, NEW n \in Nat, <<n, k>> \notin OpToRel(<, Nat)
      PROVE  k <= n
  BY <1>2 DEF OpToRel
<1>3. \A n \in S : m <= n
  BY <1>1, <1>2
<1> QED
  BY <1>3 DEF Min

\* A run of characters ends in the text or at its end, after the first one if that
\* belongs to the run.
LEMMA RunEndFacts ==
    ASSUME text \in Bytes, NEW i \in 1 .. Len(text) + 1, NEW class
    PROVE  /\ RunEnd(i, class) \in i .. Len(text) + 1
           /\ ~AtEnd(i) /\ Char(i) \in class => RunEnd(i, class) # i
<1> DEFINE Ends == {j \in i .. Len(text) + 1 : AtEnd(j) \/ Char(j) \notin class}
<1>1. Len(text) \in Nat
  BY DEF Bytes
<1>2. Ends \in SUBSET Nat /\ Len(text) + 1 \in Ends
  BY <1>1 DEF AtEnd
<1>3. Min(Ends) \in Ends
  BY <1>2, MinOfNats
<1> QED
  BY <1>1, <1>3 DEF RunEnd

\* White space is skipped forwards, to a character of the text or to its end.
LEMMA SkipFacts ==
    ASSUME text \in Bytes, NEW i \in 1 .. Len(text) + 2
    PROVE  /\ SkipWhitespace(i) \in i .. Len(text) + 2
           /\ i <= Len(text) + 1 => SkipWhitespace(i) <= Len(text) + 1
           /\ ~AtEnd(SkipWhitespace(i)) => SkipWhitespace(i) \in i .. Len(text)
<1>1. Len(text) \in Nat
  BY DEF Bytes
<1>2. CASE AtEnd(i)
  BY <1>1, <1>2 DEF SkipWhitespace
<1>3. CASE ~AtEnd(i)
  <2>1. i \in 1 .. Len(text) + 1
    BY <1>1, <1>3 DEF AtEnd
  <2>2. RunEnd(i, Space) \in i .. Len(text) + 1
    BY <2>1, RunEndFacts
  <2> QED
    BY <1>1, <1>3, <2>2 DEF SkipWhitespace, AtEnd
<1> QED
  BY <1>2, <1>3

\* What a reader of the text returns: a value that is neither object nor array and
\* the place after it, or an exception of its own.
Read(result, i) ==
    \/ /\ ~Throws(result)
       /\ result.end \in i + 1 .. Len(text) + 1
       /\ ~IsObject(result.value) /\ ~IsArray(result.value)
    \/ /\ Throws(result)
       /\ result.exception \in {"ParseError", "invalid_argument"}

\* An exception of the readers.
LEMMA ThrownIsRead ==
    ASSUME NEW i, NEW e \in {"ParseError", "invalid_argument"}
    PROVE  Read(Thrown(e), i)
BY DEF Read, Thrown, Throws

\* A value without children, up to a place in the text.
LEMMA ParsedIsRead ==
    ASSUME NEW i, NEW end \in i + 1 .. Len(text) + 1, NEW v,
           ~IsObject(v) /\ ~IsArray(v)
    PROVE  Read(Parsed(v, end), i)
BY DEF Read, Parsed, Throws

\* What stands for a value without members or items.
LEMMA Leaves ==
    /\ ~IsObject(Null) /\ ~IsArray(Null)
    /\ \A b : ~IsObject(Boolean(b)) /\ ~IsArray(Boolean(b))
    /\ \A l : ~IsObject(Integer(l)) /\ ~IsArray(Integer(l))
    /\ \A l : ~IsObject(Decimal(l)) /\ ~IsArray(Decimal(l))
    /\ \A s : ~IsObject(String(s)) /\ ~IsArray(String(s))
BY DEF IsObject, IsArray, Null, Boolean, Integer, Decimal, String

\* A string literal ends inside the text, or it is an error.
LEMMA StringIsRead ==
    ASSUME text \in Bytes, NEW i \in 1 .. Len(text)
    PROVE  Read(parseString(i), i)
<1>1. Len(text) \in Nat
  BY DEF Bytes
<1>2. StringEnd(i) \in i + 1 .. Len(text) + 1
  <2> DEFINE escaped == CHOOSE f : f = [j \in i + 1 .. Len(text) + 1 |->
                            j > i + 1 /\ ~f[j - 1] /\ Char(j - 1) = Backslash]
             Ends == {j \in i + 1 .. Len(text) + 1 :
                            \/ AtEnd(j)
                            \/ Char(j) = LineFeed
                            \/ Char(j) = Quote /\ ~escaped[j]}
  <2>1. Ends \in SUBSET Nat /\ Len(text) + 1 \in Ends
    BY <1>1 DEF AtEnd
  <2>2. Min(Ends) \in Ends
    BY <2>1, MinOfNats
  <2>3. StringEnd(i) = Min(Ends)
    BY DEF StringEnd
  <2> QED
    BY <2>2, <2>3
<1>3. CASE AtEnd(i) \/ Char(i) # Quote
  BY <1>3, ThrownIsRead DEF parseString
<1>4. CASE ~(AtEnd(i) \/ Char(i) # Quote)
  <2>1. CASE AtEnd(StringEnd(i)) \/ Char(StringEnd(i)) = LineFeed
    BY <1>4, <2>1, ThrownIsRead DEF parseString
  <2>2. CASE ~(AtEnd(StringEnd(i)) \/ Char(StringEnd(i)) = LineFeed)
    <3> DEFINE s == fromStringLiteral(SubSeq(text, i, StringEnd(i)))
    <3>1. StringEnd(i) + 1 \in i + 1 .. Len(text) + 1
      BY <1>1, <1>2, <2>2 DEF AtEnd
    <3>2. parseString(i) = Parsed(String(s), StringEnd(i) + 1)
      BY <1>4, <2>2 DEF parseString
    <3> HIDE DEF s
    <3> QED
      BY <3>1, <3>2, ParsedIsRead, Leaves
  <2> QED
    BY <2>1, <2>2
<1> QED
  BY <1>3, <1>4

\* A number, a string and a name start with different characters.
LEMMA StartsDiffer ==
    ASSUME NEW c
    PROVE  c \in Digit \union {Minus} => c # Quote /\ c \notin Letter
<1> SUFFICES ASSUME c \in Int, c \in 48 .. 57 \/ c = 45
             PROVE  c # Quote /\ c \notin Letter
  BY DEF Digit, Minus
<1> QED
  BY DEF Quote, Letter

\* The three readers that parseSimpleValue chooses from, or none.
LEMMA SimpleIsRead ==
    ASSUME text \in Bytes, NEW i \in 1 .. Len(text)
    PROVE  Read(parseSimpleValue(i), i)
<1>1. Len(text) \in Nat /\ ~AtEnd(i)
  BY DEF Bytes, AtEnd
<1>2. CASE Char(i) = Quote
  <2>1. parseSimpleValue(i) = parseString(i)
    BY <1>2 DEF parseSimpleValue, Quote, Digit, Minus, Letter
  <2> QED
    BY <2>1, StringIsRead
<1>3. CASE Char(i) \in Digit \union {Minus}
  <2> DEFINE class == Alnum \union {Minus, Dot}
             end == RunEnd(i, class)
             l == SubSeq(text, i, end - 1)
  <2>1. Char(i) \in class
    BY <1>3 DEF Alnum
  <2>2. end \in i + 1 .. Len(text) + 1
    <3> HIDE DEF class
    <3>1. end \in i .. Len(text) + 1 /\ end # i
      BY <1>1, <2>1, RunEndFacts
    <3> QED
      BY <1>1, <3>1
  <2>3. \/ \E e \in {"ParseError", "invalid_argument"} : parseNumber(i) = Thrown(e)
        \/ parseNumber(i) = Parsed(Decimal(l), end)
        \/ parseNumber(i) = Parsed(Integer(l), end)
    BY DEF parseNumber
  <2>4. Read(parseNumber(i), i)
    <3> HIDE DEF end, l
    <3> QED
      BY <2>2, <2>3, ThrownIsRead, ParsedIsRead, Leaves
  <2>5. Char(i) # Quote /\ Char(i) \notin Letter
    BY <1>3, StartsDiffer
  <2>6. parseSimpleValue(i) = parseNumber(i)
    BY <1>3, <2>5, Zenon DEF parseSimpleValue
  <2> QED
    BY <2>4, <2>6
<1>4. CASE Char(i) \in Letter
  <2> DEFINE end == RunEnd(i, Alnum)
  <2>1. end \in i + 1 .. Len(text) + 1
    <3>1. end \in i .. Len(text) + 1 /\ end # i
      BY <1>1, <1>4, RunEndFacts DEF Alnum
    <3> QED
      BY <1>1, <3>1
  <2>2. \/ parseIdentifier(i) = Thrown("ParseError")
        \/ \E b \in BOOLEAN : parseIdentifier(i) = Parsed(Boolean(b), end)
        \/ parseIdentifier(i) = Parsed(Null, end)
    <3>1. TrueName # FalseName /\ TrueName # NullName /\ FalseName # NullName
      BY DEF TrueName, FalseName, NullName
    <3> QED
      BY <3>1 DEF parseIdentifier
  <2>3. Read(parseIdentifier(i), i)
    <3> HIDE DEF end
    <3> QED
      BY <2>1, <2>2, ThrownIsRead, ParsedIsRead, Leaves
  <2>4. parseSimpleValue(i) = parseIdentifier(i)
    BY <1>4 DEF parseSimpleValue, Quote, Digit, Minus, Letter
  <2> QED
    BY <2>3, <2>4
<1>5. CASE Char(i) \notin {Quote, Minus} \union Digit \union Letter
  <2>1. parseSimpleValue(i) = Thrown("ParseError")
    BY <1>5 DEF parseSimpleValue
  <2> QED
    BY <2>1, ThrownIsRead
<1> QED
  BY <1>2, <1>3, <1>4, <1>5

-----------------------------------------------------------------------------
(* The values in memory *)

\* A value is an object, an array or neither, and the items of an array are at
\* different addresses.
Shapes == \A a \in DOMAIN heap :
    /\ ~(IsObject(heap[a]) /\ IsArray(heap[a]))
    /\ IsArray(heap[a]) =>
          /\ heap[a].items \in Seq(DOMAIN heap)
          /\ \A i, j \in DOMAIN heap[a].items :
                heap[a].items[i] = heap[a].items[j] => i = j

\* No value is part of two.
OneParent ==
    \A a, b \in DOMAIN heap : \A c \in Children(a) : c \in Children(b) => a = b

\* There is a last address, so that there is a next one.
NewestExists == \E m \in DOMAIN heap : \A a \in DOMAIN heap : a <= m

Memory ==
    /\ DOMAIN heap \subseteq Nat /\ Root \in DOMAIN heap
    /\ \A a \in DOMAIN heap : Children(a) \subseteq DOMAIN heap
    /\ Shapes /\ OneParent /\ NewestExists

\* What the constructors of objects and arrays make.
LEMMA Containers ==
    ASSUME NEW f
    PROVE  /\ IsObject(Object(f)) /\ ~IsArray(Object(f)) /\ Object(f).members = f
           /\ IsArray(Array(f)) /\ ~IsObject(Array(f)) /\ Array(f).items = f
BY DEF IsObject, IsArray, Object, Array

\* A new address is above all others.
LEMMA FreshFacts ==
    ASSUME Memory
    PROVE  Fresh \in Nat /\ \A a \in DOMAIN heap : a < Fresh
<1>1. PICK m \in DOMAIN heap : \A a \in DOMAIN heap : a <= m
  BY DEF Memory, NewestExists
<1>2. \A a \in DOMAIN heap : m >= a
  BY <1>1 DEF Memory
<1>3. Max(DOMAIN heap) \in DOMAIN heap /\ \A a \in DOMAIN heap : Max(DOMAIN heap) >= a
  BY <1>2, Zenon DEF Max
<1> QED
  BY <1>3 DEF Fresh, Memory

\* A value that has neither members nor items yet, or never has.
Childless(v) ==
    /\ ~(IsObject(v) /\ IsArray(v))
    /\ IsObject(v) => v.members = <<>>
    /\ IsArray(v) => v.items = <<>>

\* The empty sequence, and the function without arguments.
LEMMA NoItems == DOMAIN <<>> = {} /\ \A S : <<>> \in Seq(S)
OBVIOUS

\* A sequence of addresses stays one when there are more of them.
LEMMA SeqElsewhere ==
    ASSUME NEW S, NEW T, NEW s \in Seq(S), \A i \in DOMAIN s : s[i] \in T
    PROVE  s \in Seq(T)
OBVIOUS

\* More sequences when there is more to make them from.
LEMMA SeqGrows == ASSUME NEW S, NEW T, S \subseteq T PROVE Seq(S) \subseteq Seq(T)
OBVIOUS

\* Setting a value that is yet to have children leaves the others as they were.
LEMMA SetMemory ==
    ASSUME Memory, NEW a \in DOMAIN heap, NEW v, Childless(v),
           heap' = [heap EXCEPT ![a] = v]
    PROVE  /\ Memory'
           /\ DOMAIN heap' = DOMAIN heap
           /\ heap'[a] = v /\ Children(a)' = {}
           /\ \A b \in DOMAIN heap \ {a} :
                heap'[b] = heap[b] /\ Children(b)' = Children(b)
<1>1. /\ DOMAIN heap' = DOMAIN heap
      /\ heap'[a] = v
      /\ \A b \in DOMAIN heap \ {a} : heap'[b] = heap[b]
  OBVIOUS
<1>2. Children(a)' = {}
  BY <1>1 DEF Children, Childless, Range
<1>3. \A b \in DOMAIN heap \ {a} : Children(b)' = Children(b)
  BY <1>1 DEF Children
<1>4. Shapes'
  <2>1. /\ ~(IsObject(v) /\ IsArray(v))
        /\ IsArray(v) => v.items \in Seq(DOMAIN heap) /\ DOMAIN v.items = {}
    BY NoItems DEF Childless
  <2> QED
    BY <1>1, <2>1 DEF Memory, Shapes
<1>5. OneParent'
  BY <1>1, <1>2, <1>3 DEF Memory, OneParent
<1>6. NewestExists'
  BY <1>1 DEF Memory, NewestExists
<1>7. \A b \in DOMAIN heap' : Children(b)' \subseteq DOMAIN heap'
  BY <1>1, <1>2, <1>3 DEF Memory
<1> QED
  BY <1>1, <1>2, <1>3, <1>4, <1>5, <1>6, <1>7 DEF Memory

\* A new member is at a new address, and null.
LEMMA AddMemory ==
    ASSUME Memory, NEW a \in DOMAIN heap, IsObject(heap[a]),
           NEW key, key \notin DOMAIN heap[a].members,
           heap' = AddMember(a, key)
    PROVE  /\ Memory'
           /\ DOMAIN heap' = DOMAIN heap \union {Fresh}
           /\ heap'[Fresh] = Null
           /\ IsObject(heap'[a]) /\ Children(a)' = Children(a) \union {Fresh}
           /\ \A b \in DOMAIN heap \ {a} :
                heap'[b] = heap[b] /\ Children(b)' = Children(b)
<1> DEFINE members == heap[a].members
           more == [k \in DOMAIN members \union {key} |->
                        IF k = key THEN Fresh ELSE members[k]]
<1>1. Fresh \in Nat /\ Fresh \notin DOMAIN heap /\ \A b \in DOMAIN heap : b < Fresh
  BY FreshFacts DEF Memory
<1>2. /\ DOMAIN heap' = DOMAIN heap \union {Fresh}
      /\ heap'[Fresh] = Null
      /\ heap'[a] = Object(more)
      /\ \A b \in DOMAIN heap \ {a} : heap'[b] = heap[b]
  BY <1>1 DEF AddMember
<1>3. IsObject(heap'[a]) /\ ~IsArray(heap'[a])
  BY <1>2, Containers
<1>4. Range(more) = Range(members) \union {Fresh}
  BY DEF Range
<1>5. Children(a)' = Children(a) \union {Fresh}
  <2>1. heap'[a].members = more
    BY <1>2, Containers
  <2>2. Children(a)' = Range(more)
    BY <1>3, <2>1 DEF Children
  <2>3. Children(a) = Range(members)
    BY DEF Children
  <2> QED
    BY <1>4, <2>2, <2>3
<1>6. \A b \in DOMAIN heap \ {a} : Children(b)' = Children(b)
  BY <1>2 DEF Children
<1>7. \A b : b = Fresh => Children(b)' = {}
  BY <1>2, Leaves DEF Children
<1> HIDE DEF more, members
<1>8. Shapes'
  <2>1. Seq(DOMAIN heap) \subseteq Seq(DOMAIN heap')
    BY <1>2, SeqGrows
  <2> QED
    BY <1>2, <1>3, <2>1, Leaves DEF Memory, Shapes
<1>9. OneParent'
  BY <1>1, <1>2, <1>5, <1>6, <1>7 DEF Memory, OneParent
<1>10. NewestExists'
  <2>1. \A b \in DOMAIN heap' : b <= Fresh
    BY <1>1, <1>2 DEF Memory
  <2> QED
    BY <1>2, <2>1 DEF NewestExists
<1>11. \A b \in DOMAIN heap' : Children(b)' \subseteq DOMAIN heap'
  BY <1>2, <1>5, <1>6, <1>7 DEF Memory
<1>12. DOMAIN heap' \subseteq Nat /\ Root \in DOMAIN heap'
  BY <1>1, <1>2 DEF Memory
<1> QED
  BY <1>2, <1>3, <1>5, <1>6, <1>8, <1>9, <1>10, <1>11, <1>12 DEF Memory

\* emplace_back in a vector with room for one more: the items stay where they are.
LEMMA EmplaceInPlace ==
    ASSUME Memory, NEW a \in DOMAIN heap, IsArray(heap[a]), a \notin Children(a),
           NEW grows \in BOOLEAN, ~grows, heap' = EmplaceBack(a, grows)
    PROVE  /\ Memory'
           /\ DOMAIN heap' = DOMAIN heap \union {Fresh}
           /\ heap'[Fresh] = Null
           /\ IsArray(heap'[a]) /\ Last(heap'[a].items) = Fresh
           /\ Children(a)' = Children(a) \union {Fresh}
           /\ \A b \in DOMAIN heap \ {a} :
                heap'[b] = heap[b] /\ Children(b)' = Children(b)
<1> PICK items : items = heap[a].items
  OBVIOUS
<1> PICK n : n = Len(items)
  OBVIOUS
<1> PICK q : q = Fresh
  OBVIOUS
<1> DEFINE moved == [i \in 1 .. n + 1 |-> IF i = n + 1 THEN q ELSE items[i]]
<1>1. q \in Nat /\ q \notin DOMAIN heap /\ \A b \in DOMAIN heap : b < q
  BY FreshFacts DEF Memory
<1>2. /\ items \in Seq(DOMAIN heap) /\ n \in Nat /\ DOMAIN items = 1 .. n
      /\ \A i \in 1 .. n : items[i] \in DOMAIN heap /\ items[i] < q
      /\ \A i, j \in 1 .. n : items[i] = items[j] => i = j
  BY <1>1 DEF Memory, Shapes
<1>3. /\ moved \in Seq(DOMAIN heap \union {q})
      /\ Len(moved) = n + 1 /\ DOMAIN moved = 1 .. n + 1
      /\ moved[n + 1] = q /\ \A i \in 1 .. n : moved[i] = items[i]
      /\ \A i, j \in 1 .. n + 1 : moved[i] = moved[j] => i = j
  BY <1>1, <1>2
<1>4. moved = [i \in 1 .. n + 1 |->
                  IF grows \/ i = n + 1 THEN (q - 1 - n) + i ELSE items[i]]
  <2>1. \A i \in 1 .. n + 1 : i = n + 1 => (q - 1 - n) + i = q
    BY <1>1, <1>2
  <2> QED
    BY <2>1
<1> HIDE DEF moved
<1>5. Range(moved) = Range(items) \union {q}
  BY <1>2, <1>3, SMTT(30) DEF Range
<1>6. heap' = [b \in (DOMAIN heap \ {}) \union Range(moved) |->
                  IF b = a THEN Array(moved)
                  ELSE IF b = moved[n + 1] THEN Null
                  ELSE IF b > q - 1 THEN heap[items[b - (q - 1 - n)]]
                  ELSE heap[b]]
  BY <1>4 DEF EmplaceBack
<1>7. Range(items) \subseteq DOMAIN heap
  BY <1>2 DEF Range
<1>8. DOMAIN heap' = DOMAIN heap \union {q}
  BY <1>5, <1>6, <1>7
<1>9. heap'[q] = Null /\ heap'[a] = Array(moved)
  BY <1>1, <1>3, <1>6, <1>8
<1>10. \A b \in DOMAIN heap \ {a} : heap'[b] = heap[b]
  <2>1. \A b \in DOMAIN heap : b # q /\ ~(b > q - 1)
    BY <1>1 DEF Memory
  <2> QED
    BY <1>3, <1>6, <1>8, <2>1
<1>11. /\ IsArray(heap'[a]) /\ ~IsObject(heap'[a])
       /\ heap'[a].items = moved
  BY <1>9, Containers
<1>12. Children(a)' = Children(a) \union {q}
  <2>1. Children(a)' = Range(moved)
    BY <1>11 DEF Children
  <2>2. Children(a) = Range(items)
    BY DEF Children, Memory, Shapes
  <2> QED
    BY <1>5, <2>1, <2>2
<1>13. \A b \in DOMAIN heap \ {a} : Children(b)' = Children(b)
  BY <1>10 DEF Children
<1>14. \A b : b = q => Children(b)' = {}
  BY <1>9, Leaves DEF Children
<1>15. Shapes'
  <2>1. Seq(DOMAIN heap) \subseteq Seq(DOMAIN heap')
    BY <1>8, SeqGrows
  <2>2. moved \in Seq(DOMAIN heap')
    BY <1>3, <1>8
  <2> QED
    <3> SUFFICES ASSUME NEW b \in DOMAIN heap'
                 PROVE  /\ ~(IsObject(heap'[b]) /\ IsArray(heap'[b]))
                        /\ IsArray(heap'[b]) =>
                             /\ heap'[b].items \in Seq(DOMAIN heap')
                             /\ \A i, j \in DOMAIN heap'[b].items :
                                   heap'[b].items[i] = heap'[b].items[j] => i = j
      BY DEF Shapes
    <3>1. CASE b = a
      BY <1>3, <1>11, <2>2, <3>1
    <3>2. CASE b = q
      BY <1>9, <3>2, Leaves
    <3>3. CASE b \in DOMAIN heap \ {a}
      BY <1>10, <2>1, <3>3 DEF Memory, Shapes
    <3> QED
      BY <1>8, <3>1, <3>2, <3>3
<1>16. OneParent'
  BY <1>1, <1>8, <1>12, <1>13, <1>14 DEF Memory, OneParent
<1>17. NewestExists'
  <2>1. \A b \in DOMAIN heap' : b <= q
    BY <1>1, <1>8 DEF Memory
  <2> QED
    BY <1>8, <2>1 DEF NewestExists
<1>18. \A b \in DOMAIN heap' : Children(b)' \subseteq DOMAIN heap'
  BY <1>8, <1>12, <1>13, <1>14 DEF Memory
<1>19. DOMAIN heap' \subseteq Nat /\ Root \in DOMAIN heap'
  BY <1>1, <1>8 DEF Memory
<1>20. Last(heap'[a].items) = q
  BY <1>3, <1>11 DEF Last
<1> QED
  BY <1>8, <1>9, <1>10, <1>11, <1>12, <1>13, <1>15, <1>16, <1>17, <1>18, <1>19, <1>20
     DEF Memory

\* What is in memory when the vector at a has grown.
Grown(a) ==
    LET items == heap[a].items
        n == Len(items)
        base == Fresh - 1
        moved == [i \in 1 .. n + 1 |-> base + i]
    IN  [b \in (DOMAIN heap \ Range(items)) \union Range(moved) |->
            IF b = a THEN Array(moved)
            ELSE IF b = moved[n + 1] THEN Null
            ELSE IF b > Fresh - 1 THEN heap[items[b - base]]
            ELSE heap[b]]

\* It is what emplace_back leaves.
LEMMA GrownFacts ==
    ASSUME NEW a, NEW grows \in BOOLEAN, grows
    PROVE  EmplaceBack(a, grows) = Grown(a)
<1>1. \A m : [i \in 1 .. m + 1 |-> IF grows \/ i = m + 1 THEN (Fresh - 1) + i
                                  ELSE heap[a].items[i]]
                = [i \in 1 .. m + 1 |-> (Fresh - 1) + i]
  OBVIOUS
<1> QED
  BY <1>1 DEF EmplaceBack, Grown

\* emplace_back in a vector that grows: its items move to new addresses, their own
\* members and items stay, and nobody else knows the old addresses.
LEMMA EmplaceGrowing ==
    ASSUME Memory, NEW a \in DOMAIN heap, IsArray(heap[a]), a \notin Children(a),
           Root \notin Children(a), heap' = Grown(a)
    PROVE  /\ Memory'
           /\ \E z : /\ z \in Children(a)' /\ Last(heap'[a].items) = z
                    /\ z \notin DOMAIN heap /\ heap'[z] = Null
           /\ IsArray(heap'[a])
           /\ \A c \in Children(a)' : c \notin DOMAIN heap
           /\ DOMAIN heap \ Children(a) \subseteq DOMAIN heap'
           /\ \A b \in DOMAIN heap \ (Children(a) \union {a}) :
                heap'[b] = heap[b] /\ Children(b)' = Children(b)
<1> PICK items : items = heap[a].items
  OBVIOUS
<1> PICK n : n = Len(items)
  OBVIOUS
<1> PICK base : base = Fresh - 1
  OBVIOUS
<1> DEFINE moved == [i \in 1 .. n + 1 |-> base + i]
           newest == base + (n + 1)
<1>1. base + 1 \in Nat /\ base \in Int /\ \A b \in DOMAIN heap : b \in Nat /\ b <= base
  BY FreshFacts DEF Memory
<1>2. /\ items \in Seq(DOMAIN heap) /\ n \in Nat /\ DOMAIN items = 1 .. n
      /\ \A i \in 1 .. n : items[i] \in DOMAIN heap
      /\ \A i, j \in 1 .. n : items[i] = items[j] => i = j
  BY DEF Memory, Shapes
<1>3. /\ Len(moved) = n + 1 /\ DOMAIN moved = 1 .. n + 1
      /\ \A i \in 1 .. n + 1 : moved[i] = base + i
      /\ moved[n + 1] = newest
  BY <1>1, <1>2
<1> DEFINE News == {base + i : i \in 1 .. n + 1}
<1>4. Range(moved) = News
  BY DEF Range
<1>5. heap' = [b \in (DOMAIN heap \ Range(items)) \union Range(moved) |->
                  IF b = a THEN Array(moved)
                  ELSE IF b = moved[n + 1] THEN Null
                  ELSE IF b > Fresh - 1 THEN heap[items[b - base]]
                  ELSE heap[b]]
  BY DEF Grown
<1> HIDE DEF moved, newest
<1>6. Children(a) = Range(items)
  BY DEF Children, Memory, Shapes
<1>7. \A i \in 1 .. n + 1 : /\ base + i \in Nat /\ base + i \notin DOMAIN heap
                            /\ base + i > Fresh - 1 /\ base + i # a
  BY <1>1, <1>2
<1>8. DOMAIN heap' = (DOMAIN heap \ Range(items)) \union News
  BY <1>4, <1>5
<1>9. a \in DOMAIN heap' /\ heap'[a] = Array(moved)
  BY <1>5, <1>6
<1>10. newest \in News /\ newest # a
  BY <1>2, <1>7 DEF newest
<1>11. heap'[newest] = Null
  BY <1>3, <1>4, <1>5, <1>10
<1>12. \A b \in DOMAIN heap \ (Range(items) \union {a}) : heap'[b] = heap[b]
  <2>1. \A b \in DOMAIN heap : ~(b > Fresh - 1) /\ b # newest
    BY <1>1, <1>2 DEF newest
  <2> QED
    BY <1>3, <1>5, <2>1
<1>13. \A i \in 1 .. n : /\ base + i \in DOMAIN heap'
                         /\ heap'[base + i] = heap[items[i]]
  <2> TAKE i \in 1 .. n
  <2>1. /\ base + i \in News /\ base + i # a /\ base + i # newest
        /\ base + i > Fresh - 1 /\ (base + i) - base = i
    BY <1>1, <1>2, <1>7 DEF newest
  <2> QED
    BY <1>3, <1>4, <1>5, <2>1
\* Where the value at an address was before.
<1> PICK old : old = DOMAIN heap
  OBVIOUS
<1> DEFINE Before(b) == IF b \in old THEN b ELSE items[b - base]
           Copies == DOMAIN heap' \ {a, newest}
<1>14. \A b \in Copies :
         \/ b \in DOMAIN heap \ (Range(items) \union {a}) /\ Before(b) = b
         \/ \E i \in 1 .. n : b = base + i /\ Before(b) = items[i]
  <2> TAKE b \in Copies
  <2>1. CASE b \in DOMAIN heap \ Range(items)
    BY <2>1
  <2>2. CASE b \in News
    <3>1. PICK i \in 1 .. n + 1 : b = base + i
      BY <2>2
    <3>2. i \in 1 .. n
      BY <1>2, <3>1 DEF newest
    <3>3. b \notin old /\ b - base = i
      BY <1>1, <1>2, <1>7, <3>1
    <3> QED
      BY <3>1, <3>2, <3>3
  <2> QED
    BY <1>8, <2>1, <2>2
<1>15. \A i \in 1 .. n : items[i] \in Range(items) /\ items[i] # a
  BY <1>2, <1>6 DEF Range
<1> HIDE DEF Before
<1>16. \A b \in Copies : Before(b) \in DOMAIN heap \ {a} /\ heap'[b] = heap[Before(b)]
  BY <1>2, <1>12, <1>13, <1>14, <1>15
<1> HIDE DEF Copies
<1>17. \A b, c \in Copies : Before(b) = Before(c) => b = c
  BY <1>2, <1>14, <1>15
<1>18. \A b : \A e : b \in Copies /\ e = Before(b) => Children(b)' = Children(e)
  BY <1>16 DEF Children
<1>19. /\ IsArray(heap'[a]) /\ ~IsObject(heap'[a])
       /\ heap'[a].items = moved
  BY <1>9, Containers
<1>20. Children(a)' = News
  <2>1. Children(a)' = Range(moved)
    BY <1>19 DEF Children
  <2> QED
    BY <1>4, <2>1
<1>21. \A b : b = newest => Children(b)' = {}
  BY <1>11, Leaves DEF Children
<1>22. \A e \in DOMAIN heap \ {a} : Children(e) \subseteq DOMAIN heap \ Range(items)
  BY <1>6 DEF Memory, OneParent
<1> HIDE DEF News
<1>23. \A b \in DOMAIN heap' : b = a \/ b = newest \/ b \in Copies
  BY DEF Copies
<1>24. News \intersect DOMAIN heap = {} /\ News \subseteq Nat
  BY <1>7 DEF News
<1>25. Shapes'
  <2> SUFFICES ASSUME NEW b \in DOMAIN heap'
               PROVE  /\ ~(IsObject(heap'[b]) /\ IsArray(heap'[b]))
                      /\ IsArray(heap'[b]) =>
                           /\ heap'[b].items \in Seq(DOMAIN heap')
                           /\ \A i, j \in DOMAIN heap'[b].items :
                                 heap'[b].items[i] = heap'[b].items[j] => i = j
    BY DEF Shapes
  <2>1. CASE b = a
    <3>1. moved \in Seq(DOMAIN heap')
      <4>1. \A i \in 1 .. n + 1 : base + i \in DOMAIN heap'
        BY <1>8 DEF News
      <4>2. n + 1 \in Nat
        BY <1>2
      <4> QED
        BY <4>1, <4>2 DEF moved
    <3>2. \A i, j \in DOMAIN moved : moved[i] = moved[j] => i = j
      BY <1>1, <1>2, <1>3
    <3> QED
      BY <1>19, <2>1, <3>1, <3>2
  <2>2. CASE b = newest
    BY <1>11, <2>2, Leaves
  <2>3. CASE b \in Copies
    <3> PICK e : e = Before(b)
      OBVIOUS
    <3>1. e \in DOMAIN heap \ {a} /\ heap'[b] = heap[e]
      BY <1>16, <2>3
    <3>2. ASSUME IsArray(heap[e]) PROVE heap[e].items \in Seq(DOMAIN heap')
      <4>1. heap[e].items \in Seq(DOMAIN heap) /\ ~IsObject(heap[e])
        BY <3>1, <3>2 DEF Memory, Shapes
      <4>2. Children(e) = Range(heap[e].items)
        BY <3>2, <4>1 DEF Children
      <4>3. \A i \in DOMAIN heap[e].items : heap[e].items[i] \in DOMAIN heap'
        BY <1>8, <1>22, <3>1, <4>2 DEF Range
      <4> QED
        BY <4>1, <4>3, SeqElsewhere
    <3>3. /\ ~(IsObject(heap[e]) /\ IsArray(heap[e]))
          /\ IsArray(heap[e]) => \A i, j \in DOMAIN heap[e].items :
                                  heap[e].items[i] = heap[e].items[j] => i = j
      BY <3>1 DEF Memory, Shapes
    <3> QED
      BY <3>1, <3>2, <3>3
  <2> QED
    BY <1>23, <2>1, <2>2, <2>3
<1>26. OneParent'
  <2> SUFFICES ASSUME NEW b \in DOMAIN heap', NEW c \in DOMAIN heap',
                      NEW d \in Children(b)', d \in Children(c)'
               PROVE  b = c
    BY DEF OneParent
  <2>1. ASSUME NEW e \in Copies PROVE Children(e)' \subseteq DOMAIN heap
    <3> PICK f : f = Before(e)
      OBVIOUS
    <3> QED
      BY <1>16, <1>18, <1>22, <2>1
  <2>2. CASE b = a \/ c = a
    BY <1>20, <1>21, <1>23, <1>24, <2>1, <2>2
  <2>3. CASE b \in Copies /\ c \in Copies
    <3>1. d \in Children(Before(b)) /\ d \in Children(Before(c))
      BY <1>18, <2>3
    <3> QED
      BY <1>16, <1>17, <2>3, <3>1 DEF Memory, OneParent
  <2> QED
    BY <1>21, <1>23, <2>2, <2>3
<1>27. NewestExists'
  <2>1. \A i \in 1 .. n + 1 : base + i <= newest
    BY <1>1, <1>2 DEF newest
  <2>2. \A b \in DOMAIN heap : b <= newest
    BY <1>1, <1>2 DEF newest
  <2>3. \A b \in DOMAIN heap' : b <= newest
    BY <1>8, <2>1, <2>2 DEF News
  <2> QED
    BY <1>8, <1>10, <2>3 DEF NewestExists
<1>28. \A b \in DOMAIN heap' : Children(b)' \subseteq DOMAIN heap'
  <2>1. ASSUME NEW e \in Copies PROVE Children(e)' \subseteq DOMAIN heap'
    <3> PICK f : f = Before(e)
      OBVIOUS
    <3> QED
      BY <1>8, <1>16, <1>18, <1>22, <2>1
  <2> QED
    BY <1>8, <1>20, <1>21, <1>23, <2>1
<1>29. DOMAIN heap' \subseteq Nat /\ Root \in DOMAIN heap'
  BY <1>6, <1>8, <1>24 DEF Memory
<1>30. Memory'
  BY <1>25, <1>26, <1>27, <1>28, <1>29 DEF Memory
<1>31. Last(heap'[a].items) = newest
  BY <1>3, <1>19 DEF Last
<1>32. \A b \in DOMAIN heap \ (Children(a) \union {a}) : Children(b)' = Children(b)
  BY <1>6, <1>12 DEF Children
<1> QED
  BY <1>6, <1>8, <1>10, <1>11, <1>12, <1>19, <1>20, <1>24, <1>30, <1>31, <1>32

\* emplace_back, whether the vector grows or not: only the items of this array may
\* have moved.
LEMMA EmplaceMemory ==
    ASSUME Memory, NEW a \in DOMAIN heap, IsArray(heap[a]), a \notin Children(a),
           Root \notin Children(a), \E grows \in BOOLEAN : heap' = EmplaceBack(a, grows)
    PROVE  /\ Memory'
           /\ \E z : /\ z \in Children(a)' /\ Last(heap'[a].items) = z
                    /\ z \notin DOMAIN heap /\ heap'[z] = Null
           /\ IsArray(heap'[a])
           /\ \A c \in Children(a)' : c \in Children(a) \/ c \notin DOMAIN heap
           /\ DOMAIN heap \ Children(a) \subseteq DOMAIN heap'
           /\ \A b \in DOMAIN heap \ (Children(a) \union {a}) :
                heap'[b] = heap[b] /\ Children(b)' = Children(b)
<1>1. ASSUME NEW grows \in BOOLEAN, ~grows, heap' = EmplaceBack(a, grows)
      PROVE  /\ Memory'
             /\ DOMAIN heap' = DOMAIN heap \union {Fresh}
             /\ heap'[Fresh] = Null
             /\ IsArray(heap'[a]) /\ Last(heap'[a].items) = Fresh
             /\ Children(a)' = Children(a) \union {Fresh}
             /\ \A b \in DOMAIN heap \ {a} :
                  heap'[b] = heap[b] /\ Children(b)' = Children(b)
  BY <1>1, EmplaceInPlace, Zenon
<1>2. ASSUME NEW grows \in BOOLEAN, grows, heap' = EmplaceBack(a, grows)
      PROVE  heap' = Grown(a)
  BY <1>2, GrownFacts, Zenon
<1>3. PICK grows \in BOOLEAN : heap' = EmplaceBack(a, grows)
  OBVIOUS
<1>4. heap' = Grown(a) \/
        /\ Memory'
        /\ DOMAIN heap' = DOMAIN heap \union {Fresh}
        /\ heap'[Fresh] = Null
        /\ IsArray(heap'[a]) /\ Last(heap'[a].items) = Fresh
        /\ Children(a)' = Children(a) \union {Fresh}
        /\ \A b \in DOMAIN heap \ {a} :
             heap'[b] = heap[b] /\ Children(b)' = Children(b)
  BY <1>1, <1>2, <1>3, Zenon
<1>5. CASE heap' = Grown(a)
  BY <1>5, EmplaceGrowing
<1>6. ASSUME Memory', DOMAIN heap' = DOMAIN heap \union {Fresh}, heap'[Fresh] = Null,
             IsArray(heap'[a]), Last(heap'[a].items) = Fresh,
             Children(a)' = Children(a) \union {Fresh},
             \A b \in DOMAIN heap \ {a} :
                  heap'[b] = heap[b] /\ Children(b)' = Children(b)
      PROVE  /\ Memory'
             /\ \E z : /\ z \in Children(a)' /\ Last(heap'[a].items) = z
                      /\ z \notin DOMAIN heap /\ heap'[z] = Null
             /\ IsArray(heap'[a])
             /\ \A c \in Children(a)' : c \in Children(a) \/ c \notin DOMAIN heap
             /\ DOMAIN heap \ Children(a) \subseteq DOMAIN heap'
             /\ \A b \in DOMAIN heap \ (Children(a) \union {a}) :
                  heap'[b] = heap[b] /\ Children(b)' = Children(b)
  <2>1. Fresh \notin DOMAIN heap
    BY FreshFacts DEF Memory
  <2> QED
    BY <1>6, <2>1
<1> QED
  BY <1>4, <1>5, <1>6

-----------------------------------------------------------------------------
(* The stack *)

Entries == [context : Contexts, value : Nat]

\* The entry f is on top of e: a value to be read is part of the one below it.
Enters(e, f) ==
    /\ Follows(e, f)
    /\ f.context = "Value" => f.value \in Children(e.value)

\* A stack s is a path from the root, as in StackIsPath, and none of its values is
\* part of itself or of one above it, so that what moves with the items of the array
\* on top is not on the stack.
Path(s) ==
    /\ s \in Seq(Entries)
    /\ \A i \in DOMAIN s : PointsToItsKind(s[i])
    /\ s # <<>> => s[1] = [context |-> "Value", value |-> Root]
    /\ \A i \in DOMAIN s \ {1} : Enters(s[i - 1], s[i])
    /\ \A i, j \in DOMAIN s : i <= j => s[i].value \notin Children(s[j].value)

\* What is read next is still null.
ToBeRead == stack # <<>> /\ Current.context = "Value" => CurrentValue = Null

\* What Push and Pop do to the entries of a stack.
LEMMA PushFacts ==
    ASSUME NEW S, NEW s \in Seq(S), NEW e \in S
    PROVE  /\ Append(s, e) \in Seq(S) /\ DOMAIN Append(s, e) = 1 .. Len(s) + 1
           /\ DOMAIN s = 1 .. Len(s) /\ Len(s) \in Nat
           /\ Append(s, e)[Len(s) + 1] = e /\ Len(Append(s, e)) = Len(s) + 1
           /\ \A i \in 1 .. Len(s) : Append(s, e)[i] = s[i]
OBVIOUS

\* The last entry of a stack goes.
LEMMA PopFacts ==
    ASSUME NEW S, NEW s \in Seq(S), s # <<>>
    PROVE  /\ Pop(s) \in Seq(S) /\ Len(s) \in Nat /\ Len(s) >= 1
           /\ DOMAIN s = 1 .. Len(s)
           /\ Len(Pop(s)) = Len(s) - 1 /\ DOMAIN Pop(s) = 1 .. Len(s) - 1
           /\ \A i \in 1 .. Len(s) - 1 : Pop(s)[i] = s[i]
           /\ Last(s) = s[Len(s)] /\ Last(s) \in S
<1>1. Len(s) \in Nat /\ Len(s) >= 1 /\ DOMAIN s = 1 .. Len(s) /\ s[Len(s)] \in S
  OBVIOUS
<1>2. /\ SubSeq(s, 1, Len(s) - 1) \in Seq(S)
      /\ Len(SubSeq(s, 1, Len(s) - 1)) = Len(s) - 1
      /\ \A i \in 1 .. Len(s) - 1 : SubSeq(s, 1, Len(s) - 1)[i] = s[i]
  BY <1>1
<1>3. DOMAIN SubSeq(s, 1, Len(s) - 1) = 1 .. Len(s) - 1
  BY <1>2
<1> QED
  BY <1>1, <1>2, <1>3 DEF Pop, Front, Last

\* A path without its last entry is one.
LEMMA PopPath == \A s : Path(s) /\ s # <<>> => Path(Pop(s))
<1> SUFFICES ASSUME NEW s, Path(s), s # <<>> PROVE Path(Pop(s))
  OBVIOUS
<1>1. s \in Seq(Entries)
  BY DEF Path
<1> PICK p : p = Pop(s)
  OBVIOUS
<1> PICK n : n = Len(s)
  OBVIOUS
<1>2. /\ p \in Seq(Entries) /\ DOMAIN s = 1 .. n /\ n \in Nat
      /\ Len(p) = n - 1 /\ DOMAIN p = 1 .. n - 1
      /\ \A i \in 1 .. n - 1 : p[i] = s[i]
  BY <1>1, PopFacts
<1>3. \A i \in DOMAIN p : p[i] = s[i] /\ i \in DOMAIN s
  BY <1>2
<1>4. \A i \in DOMAIN p \ {1} : i - 1 \in DOMAIN p /\ p[i - 1] = s[i - 1] /\ i \in DOMAIN s
  BY <1>2
<1>5. p # <<>> => 1 \in DOMAIN p
  BY <1>2
<1>6. Path(p)
  BY <1>2, <1>3, <1>4, <1>5 DEF Path
<1> QED
  BY <1>6

\* A path with one more entry that follows its last one is a path.
LEMMA PushPath ==
    \A s, e : /\ Path(s) /\ s # <<>> /\ e \in Entries
              /\ PointsToItsKind(e) /\ Enters(Last(s), e)
              /\ \A i \in DOMAIN s : s[i].value \notin Children(e.value)
              /\ e.value \notin Children(e.value)
              => Path(Append(s, e))
<1> SUFFICES ASSUME NEW s, NEW e \in Entries, Path(s), s # <<>>,
                    PointsToItsKind(e), Enters(Last(s), e),
                    \A i \in DOMAIN s : s[i].value \notin Children(e.value),
                    e.value \notin Children(e.value)
             PROVE  Path(Append(s, e))
  OBVIOUS
<1>1. s \in Seq(Entries)
  BY DEF Path
<1> PICK p : p = Append(s, e)
  OBVIOUS
<1> PICK n : n = Len(s)
  OBVIOUS
<1>2. /\ p \in Seq(Entries) /\ DOMAIN s = 1 .. n /\ n \in Nat /\ n >= 1
      /\ DOMAIN p = 1 .. n + 1 /\ p[n + 1] = e
      /\ \A i \in 1 .. n : p[i] = s[i]
      /\ Last(s) = s[n]
  <2>1. /\ p \in Seq(Entries) /\ DOMAIN p = 1 .. n + 1 /\ p[n + 1] = e
        /\ \A i \in 1 .. n : p[i] = s[i]
    BY <1>1, PushFacts
  <2>2. n >= 1 /\ n \in Nat /\ DOMAIN s = 1 .. n /\ Last(s) = s[n]
    BY <1>1, PopFacts
  <2> QED
    BY <2>1, <2>2
<1>3. \A i \in DOMAIN p : (i = n + 1 /\ p[i] = e) \/ (i \in DOMAIN s /\ p[i] = s[i])
  <2>1. \A i \in 1 .. n + 1 : i = n + 1 \/ i \in 1 .. n
    BY <1>2
  <2> QED
    BY <1>2, <2>1
<1>4. \A i \in DOMAIN p : PointsToItsKind(p[i])
  BY <1>3 DEF Path
<1>5. p[1] = [context |-> "Value", value |-> Root]
  BY <1>2 DEF Path
<1>6. \A i \in DOMAIN p \ {1} : Enters(p[i - 1], p[i])
  <2> SUFFICES ASSUME NEW i \in DOMAIN p \ {1} PROVE Enters(p[i - 1], p[i])
    OBVIOUS
  <2>1. CASE i = n + 1
    <3>1. p[i] = e /\ p[i - 1] = Last(s)
      BY <1>2, <2>1
    <3> QED
      BY <3>1
  <2>2. CASE i # n + 1
    <3>1. i \in DOMAIN s \ {1} /\ p[i] = s[i] /\ p[i - 1] = s[i - 1]
      BY <1>2, <2>2
    <3> QED
      BY <3>1 DEF Path
  <2> QED
    BY <2>1, <2>2
<1>7. \A i, j \in DOMAIN p : i <= j => p[i].value \notin Children(p[j].value)
  <2> SUFFICES ASSUME NEW i \in DOMAIN p, NEW j \in DOMAIN p, i <= j
               PROVE  p[i].value \notin Children(p[j].value)
    OBVIOUS
  <2>1. CASE j = n + 1
    BY <1>2, <1>3, <2>1
  <2>2. CASE j # n + 1
    <3>1. i \in DOMAIN s /\ j \in DOMAIN s /\ p[i] = s[i] /\ p[j] = s[j]
      BY <1>2, <2>2
    <3> QED
      BY <3>1 DEF Path
  <2> QED
    BY <2>1, <2>2
<1>8. Path(p)
  BY <1>2, <1>4, <1>5, <1>6, <1>7 DEF Path
<1> QED
  BY <1>8

\* An entry of a path is on a value in memory, and comes after another.
LEMMA PathEntries ==
    ASSUME NEW s, Path(s)
    PROVE  /\ \A i \in DOMAIN s : /\ PointsToItsKind(s[i]) /\ s[i].value \in DOMAIN heap
                                 /\ s[i].context \in Contexts
           /\ \A i \in DOMAIN s \ {1} : i - 1 \in DOMAIN s /\ Enters(s[i - 1], s[i])
<1>1. \A i \in DOMAIN s : s[i] \in Entries /\ (i # 1 => i - 1 \in DOMAIN s)
  BY DEF Path
<1>2. \A i \in DOMAIN s : PointsToItsKind(s[i])
  BY DEF Path
<1> QED
  BY <1>1, <1>2 DEF Path, PointsToItsKind, Entries

\* A path depends on the values on it and nothing else.
LEMMA PathAlone ==
    ASSUME NEW s, Path(s),
           \A i \in DOMAIN s : \A e : e = s[i] => PointsToItsKind(e)',
           \A i \in DOMAIN s \ {1} : \A e, f :
                e = s[i - 1] /\ f = s[i] => Enters(e, f)',
           \A i, j \in DOMAIN s : i <= j =>
                \A c : c = s[j].value => s[i].value \notin Children(c)'
    PROVE  Path(s)'
BY DEF Path, Entries, Contexts, Root

\* A null that becomes a value without children: no entry took it for more.
LEMMA SetPath ==
    ASSUME Memory, NEW a \in DOMAIN heap, heap[a] = Null, NEW v, Childless(v),
           heap' = [heap EXCEPT ![a] = v], NEW s, Path(s)
    PROVE  Path(s)'
<1>1. /\ DOMAIN heap' = DOMAIN heap
      /\ Children(a)' = {}
      /\ \A b \in DOMAIN heap \ {a} :
           heap'[b] = heap[b] /\ Children(b)' = Children(b)
  BY SetMemory
<1>2. \A i \in DOMAIN s : /\ PointsToItsKind(s[i]) /\ s[i].value \in DOMAIN heap
                         /\ s[i].context \in Contexts
  BY PathEntries
<1>3. \A i \in DOMAIN s : s[i].context # "Value" => s[i].value # a
  BY <1>2, Leaves DEF PointsToItsKind, Contexts
<1>4. \A i \in DOMAIN s : \A e : e = s[i] => PointsToItsKind(e)'
  BY <1>1, <1>2, <1>3 DEF PointsToItsKind
<1>5. ASSUME NEW i \in DOMAIN s \ {1}, NEW e, NEW f, e = s[i - 1], f = s[i]
      PROVE  Enters(e, f)'
  <2>1. i - 1 \in DOMAIN s /\ Enters(e, f)
    BY <1>5, PathEntries
  <2>2. e.context # "Value" => /\ heap'[e.value] = heap[e.value]
                              /\ (Children(e.value))' = Children(e.value)
    <3> PICK b : b = e.value
      OBVIOUS
    <3> QED
      BY <1>1, <1>2, <1>3, <1>5, <2>1
  <2> QED
    BY <2>1, <2>2 DEF Enters, Follows
<1>6. ASSUME NEW i \in DOMAIN s, NEW j \in DOMAIN s, i <= j, NEW c, c = s[j].value
      PROVE  s[i].value \notin Children(c)'
  <2>1. s[i].value \notin Children(c)
    BY <1>6 DEF Path
  <2> QED
    BY <1>1, <1>2, <1>6, <2>1
<1> QED
  BY <1>4, <1>5, <1>6, PathAlone

\* A new member of the object on top.
LEMMA AddPath ==
    ASSUME Memory, NEW s, Path(s), s # <<>>, NEW a, a = Last(s).value,
           Last(s).context = "Object",
           NEW key, key \notin DOMAIN heap[a].members, heap' = AddMember(a, key)
    PROVE  Path(s)'
<1>1. \A i \in DOMAIN s : /\ PointsToItsKind(s[i]) /\ s[i].value \in DOMAIN heap
                         /\ s[i].context \in Contexts
  BY PathEntries
<1>2. /\ DOMAIN s = 1 .. Len(s) /\ Len(s) \in Nat /\ Len(s) >= 1
      /\ Last(s) = s[Len(s)]
  BY PopFacts DEF Path
<1>3. a \in DOMAIN heap /\ IsObject(heap[a]) /\ ~IsArray(heap[a])
  BY <1>1, <1>2 DEF PointsToItsKind, Memory, Shapes
<1>4. /\ DOMAIN heap' = DOMAIN heap \union {Fresh}
      /\ IsObject(heap'[a]) /\ Children(a)' = Children(a) \union {Fresh}
      /\ \A b \in DOMAIN heap \ {a} :
           heap'[b] = heap[b] /\ Children(b)' = Children(b)
  BY <1>3, AddMemory
<1>5. Fresh \notin DOMAIN heap
  BY FreshFacts DEF Memory
<1>6. \A i \in DOMAIN s : s[i].value = a => s[i].context # "Array"
  BY <1>1, <1>3 DEF PointsToItsKind
<1>7. \A i \in DOMAIN s : \A e : e = s[i] => PointsToItsKind(e)'
  BY <1>1, <1>4, <1>6 DEF PointsToItsKind
<1>8. ASSUME NEW i \in DOMAIN s \ {1}, NEW e, NEW f, e = s[i - 1], f = s[i]
      PROVE  Enters(e, f)'
  <2>1. i - 1 \in DOMAIN s /\ Enters(e, f)
    BY <1>8, PathEntries
  <2>2. /\ Children(e.value) \subseteq (Children(e.value))'
        /\ e.context = "Array" => heap'[e.value] = heap[e.value]
    <3> PICK b : b = e.value
      OBVIOUS
    <3> QED
      BY <1>1, <1>4, <1>6, <1>8, <2>1
  <2> QED
    BY <2>1, <2>2 DEF Enters, Follows
<1>9. ASSUME NEW i \in DOMAIN s, NEW j \in DOMAIN s, i <= j, NEW c, c = s[j].value
      PROVE  s[i].value \notin Children(c)'
  <2>1. s[i].value \notin Children(c)
    BY <1>9 DEF Path
  <2> QED
    BY <1>1, <1>4, <1>5, <1>9, <2>1
<1> QED
  BY <1>7, <1>8, <1>9, PathAlone

\* A new item of the array on top, which may move the others: none of them is on the
\* stack.
LEMMA EmplacePath ==
    ASSUME Memory, NEW s, Path(s), s # <<>>, NEW a, a = Last(s).value,
           Last(s).context = "Array",
           \E grows \in BOOLEAN : heap' = EmplaceBack(a, grows)
    PROVE  /\ Path(s)'
           /\ Memory'
           /\ \E z : /\ z \in Children(a)' /\ Last(heap'[a].items) = z
                    /\ z \notin DOMAIN heap /\ heap'[z] = Null
<1>1. /\ \A i \in DOMAIN s : /\ PointsToItsKind(s[i]) /\ s[i].value \in DOMAIN heap
                             /\ s[i].context \in Contexts
      /\ \A i \in DOMAIN s \ {1} : i - 1 \in DOMAIN s /\ Enters(s[i - 1], s[i])
  BY PathEntries
<1>2. /\ DOMAIN s = 1 .. Len(s) /\ Len(s) \in Nat /\ Len(s) >= 1
      /\ Last(s) = s[Len(s)]
  BY PopFacts DEF Path
<1>3. a \in DOMAIN heap /\ IsArray(heap[a]) /\ ~IsObject(heap[a])
  BY <1>1, <1>2 DEF PointsToItsKind, Memory, Shapes
<1>4. \A i \in DOMAIN s : s[i].value \notin Children(a)
  BY <1>2 DEF Path
<1>5. a \notin Children(a) /\ Root \notin Children(a)
  BY <1>2, <1>4 DEF Path
<1>6. /\ Memory'
      /\ \E z : /\ z \in Children(a)' /\ Last(heap'[a].items) = z
               /\ z \notin DOMAIN heap /\ heap'[z] = Null
      /\ IsArray(heap'[a])
      /\ \A c \in Children(a)' : c \in Children(a) \/ c \notin DOMAIN heap
      /\ DOMAIN heap \ Children(a) \subseteq DOMAIN heap'
      /\ \A b \in DOMAIN heap \ (Children(a) \union {a}) :
           heap'[b] = heap[b] /\ Children(b)' = Children(b)
  BY <1>3, <1>5, EmplaceMemory
<1>7. \A i \in DOMAIN s : s[i].value = a => s[i].context \notin {"Object", "ObjectKey"}
  BY <1>1, <1>3 DEF PointsToItsKind
<1>8. \A i \in DOMAIN s : \A e : e = s[i] => PointsToItsKind(e)'
  BY <1>1, <1>4, <1>6, <1>7 DEF PointsToItsKind
<1>9. ASSUME NEW i \in DOMAIN s \ {1}, NEW e, NEW f, e = s[i - 1], f = s[i]
      PROVE  Enters(e, f)'
  <2>1. i - 1 \in DOMAIN s /\ Enters(e, f)
    BY <1>1, <1>9
  <2>2. e.context # "Value" =>
          \/ f.context # "Value" /\ e.context # "Array"
          \/ heap'[e.value] = heap[e.value] /\ (Children(e.value))' = Children(e.value)
    <3> PICK b : b = e.value
      OBVIOUS
    <3>1. b \in DOMAIN heap \ Children(a)
      BY <1>1, <1>4, <1>9, <2>1
    <3>2. CASE b = a
      <4>1. f.context # "Value"
        BY <1>4, <1>9, <2>1, <3>2 DEF Enters
      <4>2. e.context = "Value"
        BY <1>7, <1>9, <2>1, <3>2, <4>1 DEF Enters, Follows
      <4> QED
        BY <4>2
    <3>3. CASE b # a
      BY <1>6, <3>1, <3>3
    <3> QED
      BY <3>2, <3>3
  <2> QED
    BY <2>1, <2>2 DEF Enters, Follows
<1>10. ASSUME NEW i \in DOMAIN s, NEW j \in DOMAIN s, i <= j, NEW c, c = s[j].value
       PROVE  s[i].value \notin Children(c)'
  <2>1. s[i].value \notin Children(c)
    BY <1>10 DEF Path
  <2> QED
    BY <1>1, <1>4, <1>6, <1>10, <2>1
<1> QED
  BY <1>6, <1>8, <1>9, <1>10, PathAlone


-----------------------------------------------------------------------------
(* The inductive invariant *)

IInv ==
    /\ text \in Bytes
    /\ pos \in 1 .. Len(text) + 2
    /\ outcome \in Outcomes
    /\ Memory /\ Path(stack) /\ ToBeRead

\* The parts of it that are about the values and the stack.
Kept == Memory /\ Path(stack) /\ ToBeRead

\* PushPath and PopPath after a step, and a stack by another name.
LEMMA PushPathNext ==
    (\A s, e : /\ Path(s) /\ s # <<>> /\ e \in Entries
               /\ PointsToItsKind(e) /\ Enters(Last(s), e)
               /\ \A i \in DOMAIN s : s[i].value \notin Children(e.value)
               /\ e.value \notin Children(e.value)
               => Path(Append(s, e)))'
BY PushPath, PTL

LEMMA PopPathNext == (\A s : Path(s) /\ s # <<>> => Path(Pop(s)))'
BY PopPath, PTL

LEMMA StackNamed == \A s : s = stack => (Path(s) <=> Path(stack))
OBVIOUS

LEMMA StackNamedNext == (\A s : s = stack => (Path(s) <=> Path(stack)))'
BY StackNamed, PTL

\* A stack that is a path after the step, with one more entry.
LEMMA PushStep ==
    ASSUME NEW s, Path(s)', s # <<>>, NEW e, e \in Entries,
           PointsToItsKind(e)', Enters(Last(s), e)',
           \A i \in DOMAIN s : \A c : c = e.value => s[i].value \notin Children(c)',
           \A c : c = e.value => c \notin Children(c)',
           stack' = Append(s, e)
    PROVE  Path(stack)' /\ stack' # <<>> /\ Last(stack') = e
<1> PICK r : r = Append(s, e)
  OBVIOUS
<1>1. Path(r)'
  BY PushPathNext DEF Entries, Contexts
<1>2. s \in Seq(Entries)
  BY DEF Path, Entries, Contexts
<1>3. r \in Seq(Entries) /\ Len(r) = Len(s) + 1 /\ r[Len(r)] = e /\ Len(s) \in Nat
  BY <1>2, PushFacts
<1>4. r # <<>> /\ Last(r) = e
  BY <1>3 DEF Last
<1> QED
  BY StackNamedNext, <1>1, <1>4

\* A stack that is a path after the step, without its last entry.
LEMMA PopStep ==
    ASSUME NEW s, Path(s)', s # <<>>, stack' = Pop(s)
    PROVE  Path(stack)'
<1> PICK r : r = Pop(s)
  OBVIOUS
<1>1. Path(r)'
  BY PopPathNext
<1> QED
  BY StackNamedNext, <1>1

\* The entry on top of the stack.
LEMMA TopFacts ==
    ASSUME Memory, Path(stack), stack # <<>>
    PROVE  /\ Current \in Entries /\ PointsToItsKind(Current)
           /\ Current.value \in DOMAIN heap /\ Current.value \in Nat
           /\ \A i \in DOMAIN stack : stack[i].value \notin Children(Current.value)
           /\ Current.value \notin Children(Current.value)
<1>1. stack \in Seq(Entries)
  BY DEF Path
<1>2. /\ DOMAIN stack = 1 .. Len(stack) /\ Len(stack) \in Nat /\ Len(stack) >= 1
      /\ Current = stack[Len(stack)] /\ Current \in Entries
  BY <1>1, PopFacts DEF Current
<1>3. Len(stack) \in DOMAIN stack /\ \A i \in DOMAIN stack : i <= Len(stack)
  BY <1>2
<1>4. PointsToItsKind(Current)
  BY <1>2, <1>3 DEF Path
<1>5. \A i \in DOMAIN stack : stack[i].value \notin Children(Current.value)
  BY <1>2, <1>3 DEF Path
<1> QED
  BY <1>2, <1>3, <1>4, <1>5 DEF Entries, PointsToItsKind

\* A value that is found to be an object or an array.
LEMMA OpenKeeps ==
    ASSUME Kept, Turn("Value"), NEW v, Childless(v), NEW c,
           (c = "Object" /\ IsObject(v)) \/ (c = "Array" /\ IsArray(v)),
           SetCurrent(v), stack' = Push(stack, c, Current.value)
    PROVE  Kept'
<1> PICK s : s = stack
  OBVIOUS
<1> PICK a : a = Current.value
  OBVIOUS
<1> PICK e : e = [context |-> c, value |-> a]
  OBVIOUS
<1>1. s # <<>> /\ Last(s).context = "Value" /\ Last(s).value = a
  BY DEF Turn, Current
<1>2. a \in DOMAIN heap /\ a \in Nat /\ heap[a] = Null
  BY <1>1, TopFacts DEF Kept, ToBeRead, CurrentValue, Current
<1>3. heap' = [heap EXCEPT ![a] = v]
  BY DEF SetCurrent
<1>4. Path(s)'
  BY <1>2, <1>3, SetPath DEF Kept
<1>5. Memory' /\ DOMAIN heap' = DOMAIN heap /\ Children(a)' = {}
  BY <1>2, <1>3, SetMemory DEF Kept
<1>6. e \in Entries /\ e.value = a /\ e.context = c /\ c \in {"Object", "Array"}
  BY <1>2 DEF Entries, Contexts
<1>7. PointsToItsKind(e)'
  BY <1>2, <1>3, <1>5, <1>6 DEF PointsToItsKind
<1>8. Enters(Last(s), e)'
  BY <1>1, <1>6 DEF Enters, Follows
<1>9. Path(stack)' /\ stack' # <<>> /\ Last(stack') = e
  BY <1>1, <1>4, <1>5, <1>6, <1>7, <1>8, PushStep DEF Push
<1>10. ToBeRead'
  BY <1>6, <1>9 DEF ToBeRead, Current
<1> QED
  BY <1>5, <1>9, <1>10 DEF Kept


\* The entry below the one on top of a path of more than one.
LEMMA BelowFacts ==
    ASSUME NEW s, Path(s), s # <<>>
    PROVE  /\ Pop(s) = <<>> => Last(s).context = "Value"
           /\ Pop(s) # <<>> => Enters(Last(Pop(s)), Last(s))
           /\ Path(Pop(s))
<1>1. s \in Seq(Entries)
  BY DEF Path
<1>2. /\ Pop(s) \in Seq(Entries) /\ Len(s) \in Nat /\ Len(s) >= 1
      /\ DOMAIN s = 1 .. Len(s)
      /\ Len(Pop(s)) = Len(s) - 1 /\ DOMAIN Pop(s) = 1 .. Len(s) - 1
      /\ \A i \in 1 .. Len(s) - 1 : Pop(s)[i] = s[i]
      /\ Last(s) = s[Len(s)]
  BY <1>1, PopFacts
<1>3. Pop(s) = <<>> => Last(s).context = "Value"
  <2>1. Pop(s) = <<>> => Len(s) = 1
    <3>1. Pop(s) = <<>> => Len(Pop(s)) = 0
      OBVIOUS
    <3> PICK m : m = Len(Pop(s))
      OBVIOUS
    <3> PICK n : n = Len(s)
      OBVIOUS
    <3>2. n \in Nat /\ m = n - 1
      BY <1>2
    <3>3. m = 0 => n = 1
      BY <3>2
    <3> QED
      BY <3>1, <3>3
  <2>2. s[1].context = "Value"
    BY DEF Path
  <2> QED
    BY <1>2, <2>1, <2>2
<1>4. Pop(s) # <<>> => Enters(Last(Pop(s)), Last(s))
  <2> SUFFICES ASSUME Pop(s) # <<>> PROVE Enters(Last(Pop(s)), Last(s))
    OBVIOUS
  <2>1. Last(Pop(s)) = Pop(s)[Len(Pop(s))] /\ Len(Pop(s)) >= 1
    BY <1>2, PopFacts
  <2>2. Last(Pop(s)) = s[Len(s) - 1] /\ Len(s) \in DOMAIN s \ {1}
    BY <1>2, <2>1
  <2> QED
    BY <1>2, <2>2 DEF Path
<1> QED
  BY <1>3, <1>4, PopPath

\* A path stays one as long as no value changes.
LEMMA SameHeap ==
    ASSUME NEW s, Path(s), UNCHANGED heap
    PROVE  Path(s)'
<1>1. \A i \in DOMAIN s : \A e : e = s[i] => PointsToItsKind(e)'
  BY DEF Path, PointsToItsKind
<1>2. \A c : Children(c)' = Children(c)
  BY DEF Children
<1>3. \A e, f : Enters(e, f) => Enters(e, f)'
  BY <1>2 DEF Enters, Follows
<1>4. \A i \in DOMAIN s \ {1} : \A e, f : e = s[i - 1] /\ f = s[i] => Enters(e, f)'
  BY <1>3 DEF Path
<1>5. \A i, j \in DOMAIN s : i <= j =>
          \A c : c = s[j].value => s[i].value \notin Children(c)'
  BY <1>2 DEF Path
<1> QED
  BY <1>1, <1>4, <1>5, PathAlone

\* A value that is read as a whole, and done with.
LEMMA SimpleKeeps ==
    ASSUME Kept, Turn("Value"), NEW v, ~IsObject(v), ~IsArray(v),
           SetCurrent(v), stack' = Pop(stack)
    PROVE  Kept'
<1> PICK s : s = stack
  OBVIOUS
<1> PICK a : a = Current.value
  OBVIOUS
<1>1. s # <<>> /\ Last(s).context = "Value" /\ Last(s).value = a
  BY DEF Turn, Current
<1>2. a \in DOMAIN heap /\ heap[a] = Null
  BY <1>1, TopFacts DEF Kept, ToBeRead, CurrentValue, Current
<1>3. heap' = [heap EXCEPT ![a] = v] /\ Childless(v)
  BY DEF SetCurrent, Childless
<1>4. Path(s)' /\ Memory'
  BY <1>2, <1>3, SetPath, SetMemory DEF Kept
<1>5. Path(stack)'
  BY <1>1, <1>4, PopStep
<1>6. Pop(s) # <<>> => Enters(Last(Pop(s)), Last(s))
  BY <1>1, BelowFacts DEF Kept
<1>7. Pop(s) # <<>> => Last(Pop(s)).context # "Value"
  BY <1>1, <1>6 DEF Enters, Follows
<1>8. ToBeRead'
  BY <1>7 DEF ToBeRead, Current
<1> QED
  BY <1>4, <1>5, <1>8 DEF Kept

\* An object or array that ends: its own entry and that of its value go.
LEMMA CloseKeeps ==
    ASSUME Kept, NEW c \in {"Object", "Array"}, Turn(c), stack' = PopBoth, UNCHANGED heap
    PROVE  Kept'
<1> PICK s : s = stack
  OBVIOUS
<1> PICK p : p = Pop(s)
  OBVIOUS
<1>1. s # <<>> /\ Last(s).context \in {"Object", "Array"} /\ Path(s)
  BY DEF Turn, Current, Kept
<1>2. p # <<>> /\ Path(p) /\ Enters(Last(p), Last(s))
  BY <1>1, BelowFacts
<1>3. Last(p).context = "Value"
  BY <1>1, <1>2 DEF Enters, Follows
<1>4. Pop(p) # <<>> => Enters(Last(Pop(p)), Last(p))
  BY <1>2, BelowFacts
<1>5. Pop(p) # <<>> => Last(Pop(p)).context # "Value"
  BY <1>3, <1>4 DEF Enters, Follows
<1>6. stack' = Pop(p)
  BY DEF PopBoth
<1>7. Path(p)'
  BY <1>2, SameHeap
<1>8. Path(stack)'
  BY <1>2, <1>6, <1>7, PopStep
<1>9. ToBeRead'
  BY <1>5, <1>6 DEF ToBeRead, Current
<1>10. Memory'
  BY DEF Kept, Memory, Children, Shapes, OneParent, NewestExists
<1> QED
  BY <1>8, <1>9, <1>10 DEF Kept

\* A member of the object on top is about to be read.
LEMMA MemberKeeps ==
    ASSUME Kept, Turn("Object"), UNCHANGED heap,
           stack' = Push(stack, "ObjectKey", Current.value)
    PROVE  Kept'
<1> PICK s : s = stack
  OBVIOUS
<1> PICK a : a = Current.value
  OBVIOUS
<1> PICK e : e = [context |-> "ObjectKey", value |-> a]
  OBVIOUS
<1>1. s # <<>> /\ Last(s).context = "Object" /\ Last(s).value = a /\ Path(s)
  BY DEF Turn, Current, Kept
<1>2. /\ a \in DOMAIN heap /\ a \in Nat /\ IsObject(heap[a])
      /\ \A i \in DOMAIN s : s[i].value \notin Children(a)
      /\ a \notin Children(a)
  BY <1>1, TopFacts DEF Kept, Current, PointsToItsKind
<1>3. Path(s)'
  BY <1>1, SameHeap
<1>4. \A c : Children(c)' = Children(c)
  BY DEF Children
<1>5. e \in Entries /\ e.value = a /\ e.context = "ObjectKey"
  BY <1>2 DEF Entries, Contexts
<1>6. PointsToItsKind(e)'
  BY <1>2, <1>5 DEF PointsToItsKind
<1>7. Enters(Last(s), e)'
  BY <1>1, <1>5 DEF Enters, Follows
<1>8. Path(stack)' /\ stack' # <<>> /\ Last(stack') = e
  BY <1>1, <1>2, <1>3, <1>4, <1>5, <1>6, <1>7, PushStep DEF Push
<1>9. ToBeRead'
  BY <1>5, <1>8 DEF ToBeRead, Current
<1>10. Memory'
  BY DEF Kept, Memory, Children, Shapes, OneParent, NewestExists
<1> QED
  BY <1>8, <1>9, <1>10 DEF Kept


\* A new member, whose value is to be read.
LEMMA KeyKeeps ==
    ASSUME Kept, Turn("ObjectKey"), NEW key, ~IsDuplicate(key),
           heap' = AddMember(Current.value, key),
           stack' = Push(Pop(stack), "Value", Fresh)
    PROVE  Kept'
<1> PICK s : s = stack
  OBVIOUS
<1> PICK a : a = Current.value
  OBVIOUS
<1> PICK p : p = Pop(s)
  OBVIOUS
<1> PICK b : b = Fresh
  OBVIOUS
<1> PICK e : e = [context |-> "Value", value |-> b]
  OBVIOUS
<1>1. s # <<>> /\ Last(s).context = "ObjectKey" /\ Last(s).value = a /\ Path(s)
  BY DEF Turn, Current, Kept
<1>2. a \in DOMAIN heap /\ IsObject(heap[a]) /\ key \notin DOMAIN heap[a].members
  BY <1>1, TopFacts DEF Kept, Current, PointsToItsKind, IsDuplicate, CurrentValue
<1>3. p # <<>> /\ Path(p) /\ Enters(Last(p), Last(s))
  BY <1>1, BelowFacts
<1>4. Last(p).context = "Object" /\ Last(p).value = a
  <2>1. Last(p).context \in Contexts
    <3>1. p \in Seq(Entries)
      BY <1>3 DEF Path
    <3>2. Last(p) \in Entries
      BY <1>3, <3>1, PopFacts
    <3> QED
      BY <3>2 DEF Entries
  <2> QED
    BY <1>1, <1>3, <2>1 DEF Enters, Follows, Contexts
<1>5. heap' = AddMember(a, key)
  OBVIOUS
<1>6. Path(p)'
  BY <1>2, <1>3, <1>4, <1>5, AddPath DEF Kept
<1>7. /\ Memory'
      /\ b \in DOMAIN heap' /\ heap'[b] = Null
      /\ b \in Children(a)'
  BY <1>2, <1>5, AddMemory DEF Kept
<1>8. b \in Nat
  BY FreshFacts DEF Kept
<1>9. e \in Entries /\ e.value = b /\ e.context = "Value"
  BY <1>8 DEF Entries, Contexts
<1>10. Children(b)' = {}
  BY <1>7, Leaves DEF Children
<1>11. PointsToItsKind(e)'
  BY <1>7, <1>9 DEF PointsToItsKind
<1>12. Enters(Last(p), e)'
  BY <1>4, <1>7, <1>9 DEF Enters, Follows
<1>13. stack' = Append(p, e)
  BY DEF Push
<1>14. Path(stack)' /\ stack' # <<>> /\ Last(stack') = e
  BY <1>3, <1>6, <1>9, <1>10, <1>11, <1>12, <1>13, PushStep
<1>15. ToBeRead'
  BY <1>7, <1>9, <1>14 DEF ToBeRead, Current, CurrentValue
<1> QED
  BY <1>7, <1>14, <1>15 DEF Kept

\* A new item, which is to be read, wherever the items are now.
LEMMA ItemKeeps ==
    ASSUME Kept, Turn("Array"),
           \E grows \in BOOLEAN : heap' = EmplaceBack(Current.value, grows),
           stack' = Push(stack, "Value", Last(heap'[Current.value].items))
    PROVE  Kept'
<1> PICK s : s = stack
  OBVIOUS
<1> PICK a : a = Current.value
  OBVIOUS
<1>1. s # <<>> /\ Last(s).context = "Array" /\ Last(s).value = a /\ Path(s)
  BY DEF Turn, Current, Kept
<1>2. \E grows \in BOOLEAN : heap' = EmplaceBack(a, grows)
  BY Zenon
<1>3. /\ Path(s)' /\ Memory'
      /\ \E z : /\ z \in Children(a)' /\ Last(heap'[a].items) = z
               /\ z \notin DOMAIN heap /\ heap'[z] = Null
  BY <1>1, <1>2, EmplacePath DEF Kept
<1>4. PICK z : /\ z \in Children(a)' /\ Last(heap'[a].items) = z
               /\ z \notin DOMAIN heap /\ heap'[z] = Null
  BY <1>3
<1>5. a \in DOMAIN heap'
  <2>1. a \in DOMAIN heap /\ a \notin Children(a) /\ IsArray(heap[a])
    BY <1>1, TopFacts DEF Kept, Current, PointsToItsKind
  <2>2. Root \notin Children(a)
    <3>1. /\ DOMAIN s = 1 .. Len(s) /\ Len(s) \in Nat /\ Len(s) >= 1
          /\ Last(s) = s[Len(s)]
      BY <1>1, PopFacts DEF Path
    <3>2. s[1].value = Root /\ s[1].value \notin Children(a)
      BY <1>1, <3>1 DEF Path
    <3> QED
      BY <3>2
  <2> QED
    BY <1>2, <2>1, <2>2, EmplaceMemory DEF Kept
<1>6. z \in DOMAIN heap' /\ z \in Nat
  BY <1>3, <1>4, <1>5 DEF Memory
<1>7. Children(z)' = {}
  BY <1>4, Leaves DEF Children
<1> PICK e : e = [context |-> "Value", value |-> z]
  OBVIOUS
<1>8. e \in Entries /\ e.value = z /\ e.context = "Value"
  BY <1>6 DEF Entries, Contexts
<1>9. PointsToItsKind(e)'
  BY <1>6, <1>8 DEF PointsToItsKind
<1>10. Enters(Last(s), e)'
  BY <1>1, <1>4, <1>8 DEF Enters, Follows
<1>11. stack' = Append(s, e)
  BY <1>4 DEF Push
<1>12. Path(stack)' /\ stack' # <<>> /\ Last(stack') = e
  BY <1>1, <1>3, <1>7, <1>8, <1>9, <1>10, <1>11, PushStep
<1>13. ToBeRead'
  BY <1>4, <1>8, <1>12 DEF ToBeRead, Current, CurrentValue
<1> QED
  BY <1>3, <1>12, <1>13 DEF Kept


-----------------------------------------------------------------------------
(* The position *)

\* What is skipped before a turn and after the character it takes.
LEMMA HereFacts ==
    ASSUME text \in Bytes, pos \in 1 .. Len(text) + 2, ~AtEnd(Here)
    PROVE  /\ Len(text) \in Nat /\ Here \in 1 .. Len(text) /\ Here \in pos .. Len(text)
           /\ Beyond \in pos + 1 .. Len(text) + 1
           /\ SkipWhitespace(Beyond) \in Beyond .. Len(text) + 1
<1>1. Len(text) \in Nat
  BY DEF Bytes
<1>2. Here \in pos .. Len(text)
  BY SkipFacts DEF Here
<1>3. Beyond \in pos + 1 .. Len(text) + 1 /\ Beyond \in 1 .. Len(text) + 2
  BY <1>1, <1>2 DEF Beyond
<1>4. /\ SkipWhitespace(Beyond) \in Beyond .. Len(text) + 2
      /\ SkipWhitespace(Beyond) <= Len(text) + 1
  BY <1>3, SkipFacts
<1> QED
  BY <1>1, <1>2, <1>3, <1>4

\* The next member or item starts no earlier than the turn did, or its comma is wrong.
LEMMA NextStartFacts ==
    ASSUME text \in Bytes, pos \in 1 .. Len(text) + 2, ~AtEnd(Here), NEW close, NEW xs
    PROVE  \A next : next = NextStart(xs = <<>>, close) =>
              IF Throws(next) THEN next.exception = "ParseError"
              ELSE next.end \in pos .. Len(text) + 1
<1>1. /\ Len(text) \in Nat /\ Here \in pos .. Len(text)
      /\ Beyond \in pos + 1 .. Len(text) + 1
      /\ SkipWhitespace(Beyond) \in Beyond .. Len(text) + 1
  BY HereFacts
<1>2. Throws(Thrown("ParseError")) /\ Thrown("ParseError").exception = "ParseError"
  BY DEF Throws, Thrown
<1>3. \A end : ~Throws(Parsed(Null, end)) /\ Parsed(Null, end).end = end
  BY DEF Throws, Parsed
<1>4. \/ NextStart(xs = <<>>, close) = Parsed(Null, Here)
      \/ NextStart(xs = <<>>, close) = Parsed(Null, SkipWhitespace(Beyond))
      \/ NextStart(xs = <<>>, close) = Thrown("ParseError")
  BY DEF NextStart
<1>5. Here \in pos .. Len(text) + 1 /\ SkipWhitespace(Beyond) \in pos .. Len(text) + 1
  BY <1>1
<1> QED
  BY <1>2, <1>3, <1>4, <1>5

\* How a turn gets on: past a character, or from an object or array to a value in it.
GetsOn ==
    /\ UNCHANGED <<text, outcome>>
    /\ pos' \in pos .. Len(text) + 2
    /\ \/ pos' # pos
       \/ /\ stack # <<>> /\ Current.context \in {"Object", "Array"}
          /\ stack' # <<>> /\ Last(stack').context \notin {"Object", "Array"}

\* A turn that throws, and the end of the loop.
Stops ==
    /\ UNCHANGED <<text, pos, stack, heap>>
    /\ outcome' \in Outcomes \ {"running"}

\* handleValue, for an object or array.
LEMMA OpenTurn ==
    ASSUME IInv, OpenObject \/ OpenArray
    PROVE  Kept' /\ GetsOn
<1>1. Turn("Value") /\ pos' = Beyond /\ UNCHANGED <<text, outcome>>
  BY DEF OpenObject, OpenArray, Go
<1>2. \E v, c : /\ Childless(v)
                /\ (c = "Object" /\ IsObject(v)) \/ (c = "Array" /\ IsArray(v))
                /\ SetCurrent(v) /\ stack' = Push(stack, c, Current.value)
  <2>1. Childless(Object(<<>>)) /\ Childless(Array(<<>>))
    BY Containers DEF Childless
  <2> QED
    BY <2>1, Containers DEF OpenObject, OpenArray
<1>3. Kept'
  BY <1>1, <1>2, OpenKeeps DEF IInv, Kept
<1>4. Beyond \in pos + 1 .. Len(text) + 1 /\ Len(text) \in Nat /\ pos \in Nat
  BY <1>1, HereFacts DEF IInv, Turn
<1>5. Beyond \in pos .. Len(text) + 2 /\ Beyond # pos
  BY <1>4
<1> QED
  BY <1>1, <1>3, <1>5 DEF GetsOn

\* handleValue, for what is read as a whole.
LEMMA SimpleTurn ==
    ASSUME IInv, SimpleValue
    PROVE  (Kept' /\ GetsOn) \/ Stops
<1> PICK result : result = parseSimpleValue(Here)
  OBVIOUS
<1>1. /\ Turn("Value")
      /\ IF Throws(result) THEN Throw(result.exception)
         ELSE /\ pos' = result.end
              /\ SetCurrent(result.value)
              /\ stack' = Pop(stack)
              /\ Go
  BY DEF SimpleValue
<1>2. /\ Len(text) \in Nat /\ Here \in 1 .. Len(text) /\ Here \in pos .. Len(text)
      /\ pos \in Nat
  BY <1>1, HereFacts DEF IInv, Turn
<1>3. Read(result, Here)
  BY <1>2, SimpleIsRead DEF IInv
<1>4. CASE Throws(result)
  BY <1>1, <1>3, <1>4 DEF Read, Throw, Stops, Outcomes
<1>5. CASE ~Throws(result)
  <2>1. /\ result.end \in Here + 1 .. Len(text) + 1
        /\ ~IsObject(result.value) /\ ~IsArray(result.value)
    BY <1>3, <1>5 DEF Read
  <2>2. result.end \in pos .. Len(text) + 2 /\ result.end # pos
    BY <1>2, <2>1
  <2>3. Kept'
    BY <1>1, <1>5, <2>1, SimpleKeeps DEF IInv, Kept
  <2> QED
    BY <1>1, <1>5, <2>2, <2>3 DEF GetsOn, Go
<1> QED
  BY <1>4, <1>5

\* The end of an object or array.
LEMMA CloseTurn ==
    ASSUME IInv, NEW c \in {"Object", "Array"}, NEW char, Close(c, char)
    PROVE  Kept' /\ GetsOn
<1>1. /\ Turn(c) /\ pos' = Beyond /\ stack' = PopBoth /\ UNCHANGED heap
      /\ UNCHANGED <<text, outcome>>
  BY DEF Close, Go
<1>2. Kept'
  BY <1>1, CloseKeeps DEF IInv, Kept
<1>3. Beyond \in pos + 1 .. Len(text) + 1 /\ Len(text) \in Nat /\ pos \in Nat
  BY <1>1, HereFacts DEF IInv, Turn
<1>4. Beyond \in pos .. Len(text) + 2 /\ Beyond # pos
  BY <1>3
<1> QED
  BY <1>1, <1>2, <1>4 DEF GetsOn


\* What a step that pushes an entry leaves on top.
LEMMA PushedTop ==
    ASSUME Path(stack), NEW c \in Contexts, NEW a \in Nat, stack' = Push(stack, c, a)
    PROVE  stack' # <<>> /\ Last(stack').context = c
<1> PICK e : e = [context |-> c, value |-> a]
  OBVIOUS
<1> PICK r : r = Append(stack, e)
  OBVIOUS
<1>1. e \in Entries /\ e.context = c /\ stack' = r
  BY DEF Entries, Push
<1>2. stack \in Seq(Entries)
  BY DEF Path
<1>3. r \in Seq(Entries) /\ Len(r) = Len(stack) + 1 /\ r[Len(r)] = e /\ Len(stack) \in Nat
  BY <1>1, <1>2, PushFacts
<1>4. r # <<>> /\ Last(r) = e
  BY <1>3 DEF Last
<1> QED
  BY <1>1, <1>4

\* handleObject, up to the key of a member.
LEMMA MemberTurn ==
    ASSUME IInv, NextMember
    PROVE  (Kept' /\ GetsOn) \/ Stops
<1> PICK next : next = NextStart(CurrentValue.members = <<>>, RightBrace)
  OBVIOUS
<1>1. /\ Turn("Object")
      /\ IF Throws(next) THEN Throw(next.exception)
         ELSE /\ pos' = next.end
              /\ stack' = Push(stack, "ObjectKey", Current.value)
              /\ UNCHANGED heap /\ Go
  BY DEF NextMember
<1>2. IF Throws(next) THEN next.exception = "ParseError"
      ELSE next.end \in pos .. Len(text) + 1
  BY <1>1, NextStartFacts DEF IInv, Turn
<1>3. CASE Throws(next)
  BY <1>1, <1>2, <1>3 DEF Throw, Stops, Outcomes
<1>4. CASE ~Throws(next)
  <2>1. Kept'
    BY <1>1, <1>4, MemberKeeps DEF IInv, Kept
  <2>2. Len(text) \in Nat /\ pos \in Nat
    BY <1>1, HereFacts DEF IInv, Turn
  <2>3. next.end \in pos .. Len(text) + 2
    BY <1>2, <1>4, <2>2
  <2>4. Current.value \in Nat
    BY <1>1, TopFacts DEF IInv, Turn
  <2>5. stack' # <<>> /\ Last(stack').context = "ObjectKey"
    BY <1>1, <1>4, <2>4, PushedTop DEF IInv, Contexts
  <2> QED
    BY <1>1, <1>4, <2>1, <2>3, <2>5 DEF GetsOn, Go, Turn
<1> QED
  BY <1>3, <1>4

\* handleArray, up to the next item.
LEMMA ItemTurn ==
    ASSUME IInv, NextItem
    PROVE  (Kept' /\ GetsOn) \/ Stops
<1> PICK next : next = NextStart(CurrentValue.items = <<>>, RightBracket)
  OBVIOUS
<1>1. /\ Turn("Array")
      /\ IF Throws(next) THEN Throw(next.exception)
         ELSE \E grows \in BOOLEAN :
              /\ pos' = next.end
              /\ heap' = EmplaceBack(Current.value, grows)
              /\ stack' = Push(stack, "Value", Last(heap'[Current.value].items))
              /\ Go
  BY Zenon DEF NextItem
<1>2. IF Throws(next) THEN next.exception = "ParseError"
      ELSE next.end \in pos .. Len(text) + 1
  BY <1>1, NextStartFacts DEF IInv, Turn
<1>3. CASE Throws(next)
  BY <1>1, <1>2, <1>3 DEF Throw, Stops, Outcomes
<1>4. CASE ~Throws(next)
  <2>1. /\ \E grows \in BOOLEAN : heap' = EmplaceBack(Current.value, grows)
        /\ pos' = next.end /\ Go
        /\ stack' = Push(stack, "Value", Last(heap'[Current.value].items))
    BY <1>1, <1>4, Zenon
  <2>2. Kept'
    BY <1>1, <2>1, ItemKeeps, Zenon DEF IInv, Kept
  <2>3. Len(text) \in Nat /\ pos \in Nat
    BY <1>1, HereFacts DEF IInv, Turn
  <2>4. next.end \in pos .. Len(text) + 2
    BY <1>2, <1>4, <2>3
  <2>5. stack' # <<>> /\ Last(stack').context = "Value"
    <3> PICK z : z = Last(heap'[Current.value].items)
      OBVIOUS
    <3> PICK e : e = [context |-> "Value", value |-> z]
      OBVIOUS
    <3> PICK r : r = Append(stack, e)
      OBVIOUS
    <3>1. stack' = r /\ e.context = "Value"
      BY <2>1 DEF Push
    <3>2. stack \in Seq(Entries \union {e})
      BY SeqGrows DEF IInv, Path
    <3>3. /\ r \in Seq(Entries \union {e}) /\ Len(r) = Len(stack) + 1
          /\ r[Len(r)] = e /\ Len(stack) \in Nat
      BY <3>2, PushFacts
    <3>4. r # <<>> /\ Last(r) = e
      BY <3>3 DEF Last
    <3> QED
      BY <3>1, <3>4
  <2> QED
    BY <1>1, <2>1, <2>2, <2>4, <2>5 DEF GetsOn, Go, Turn
<1> QED
  BY <1>3, <1>4

\* handleObjectKey.
LEMMA KeyTurn ==
    ASSUME IInv, ObjectKey
    PROVE  (Kept' /\ GetsOn) \/ Stops
<1> PICK key : key = parseString(Here)
  OBVIOUS
<1> PICK colon : colon = SkipWhitespace(key.end)
  OBVIOUS
<1> PICK name : name = key.value.string
  OBVIOUS
<1>1. /\ Turn("ObjectKey")
      /\ IF Throws(key) THEN Throw(key.exception)
         ELSE IF IsDuplicate(name) \/ (~AtEnd(colon) /\ Char(colon) # Colon)
              THEN Throw("ParseError")
              ELSE /\ pos' = colon + 1
                   /\ heap' = AddMember(Current.value, name)
                   /\ stack' = Push(Pop(stack), "Value", Fresh)
                   /\ Go
  BY DEF ObjectKey
<1>2. /\ Len(text) \in Nat /\ Here \in 1 .. Len(text) /\ Here \in pos .. Len(text)
      /\ pos \in Nat
  BY <1>1, HereFacts DEF IInv, Turn
<1>3. Read(key, Here)
  BY <1>2, StringIsRead DEF IInv
<1>4. CASE Throws(key)
  BY <1>1, <1>3, <1>4 DEF Read, Throw, Stops, Outcomes
<1>5. CASE ~Throws(key) /\ (IsDuplicate(name) \/ (~AtEnd(colon) /\ Char(colon) # Colon))
  BY <1>1, <1>5 DEF Throw, Stops, Outcomes
<1>6. CASE ~Throws(key) /\ ~(IsDuplicate(name) \/ (~AtEnd(colon) /\ Char(colon) # Colon))
  <2>1. key.end \in Here + 1 .. Len(text) + 1
    BY <1>3, <1>6 DEF Read
  <2>2. key.end \in 1 .. Len(text) + 2 /\ key.end <= Len(text) + 1
    BY <1>2, <2>1
  <2>3. colon \in key.end .. Len(text) + 2 /\ colon <= Len(text) + 1
    BY <2>2, SkipFacts DEF IInv
  <2>4. colon + 1 \in pos .. Len(text) + 2 /\ colon + 1 # pos
    BY <1>2, <2>1, <2>3
  <2>5. Kept'
    BY <1>1, <1>6, KeyKeeps DEF IInv, Kept
  <2> QED
    BY <1>1, <1>6, <2>4, <2>5 DEF GetsOn, Go
<1> QED
  BY <1>4, <1>5, <1>6

\* Every turn of the loop, and its end.
LEMMA StepFacts ==
    ASSUME IInv, Next
    PROVE  (Kept' /\ GetsOn) \/ Stops \/ (outcome # "running" /\ UNCHANGED vars)
<1>1. CASE OpenObject \/ OpenArray
  BY <1>1, OpenTurn
<1>2. CASE SimpleValue
  BY <1>2, SimpleTurn
<1>3. CASE Close("Object", RightBrace) \/ Close("Array", RightBracket)
  BY <1>3, CloseTurn
<1>4. CASE NextMember
  BY <1>4, MemberTurn
<1>5. CASE ObjectKey
  BY <1>5, KeyTurn
<1>6. CASE NextItem
  BY <1>6, ItemTurn
<1>7. CASE UnexpectedEnd \/ Return
  BY <1>7 DEF UnexpectedEnd, Return, Throw, Stops, Outcomes
<1>8. CASE Done
  BY <1>8 DEF Done
<1> QED
  BY <1>1, <1>2, <1>3, <1>4, <1>5, <1>6, <1>7, <1>8 DEF Next

-----------------------------------------------------------------------------
(* The theorems *)

\* At the start the stack is the root alone, and the root is null.
LEMMA InitIInv == Init => IInv
<1> SUFFICES ASSUME Init PROVE IInv
  OBVIOUS
<1>1. text \in Bytes /\ Len(text) \in Nat
  BY TextsAssumption DEF Init, Bytes
<1>2. pos \in 1 .. Len(text) + 2 /\ outcome \in Outcomes
  BY <1>1 DEF Init, Outcomes
<1>3. DOMAIN heap = {Root} /\ heap[Root] = Null /\ Root \in Nat
  BY DEF Init, Root
<1>4. Children(Root) = {}
  BY <1>3, Leaves DEF Children
<1>5. NewestExists
  BY <1>3 DEF NewestExists
<1>6. Shapes /\ OneParent
  BY <1>3, <1>4, Leaves DEF Shapes, OneParent
<1>7. Memory
  BY <1>3, <1>4, <1>5, <1>6 DEF Memory
<1> PICK e : e = [context |-> "Value", value |-> Root]
  OBVIOUS
<1>8. stack = <<e>> /\ e \in Entries /\ e.context = "Value" /\ e.value = Root
  BY <1>3 DEF Init, Push, Entries, Contexts
<1>9. /\ stack \in Seq(Entries) /\ DOMAIN stack = {1} /\ stack[1] = e
      /\ stack # <<>> /\ Last(stack) = e
  BY <1>8 DEF Last
<1>10. PointsToItsKind(e)
  BY <1>3, <1>8 DEF PointsToItsKind
<1>11. Path(stack)
  BY <1>4, <1>8, <1>9, <1>10 DEF Path
<1>12. ToBeRead
  BY <1>3, <1>8, <1>9 DEF ToBeRead, Current, CurrentValue
<1> QED
  BY <1>1, <1>2, <1>7, <1>11, <1>12 DEF IInv

\* Every step keeps the invariant.
LEMMA NextIInv == IInv /\ [Next]_vars => IInv'
<1> SUFFICES ASSUME IInv, [Next]_vars PROVE IInv'
  OBVIOUS
<1>1. CASE Kept' /\ GetsOn
  <2>1. Len(text) \in Nat /\ pos \in 1 .. Len(text) + 2
    BY DEF IInv, Bytes
  <2>2. pos' \in 1 .. Len(text) + 2
    BY <1>1, <2>1 DEF GetsOn
  <2> QED
    BY <1>1, <2>2 DEF GetsOn, Kept, IInv
<1>2. CASE UNCHANGED <<text, pos, stack, heap>> /\ outcome' \in Outcomes
  <2>1. Memory'
    BY <1>2 DEF IInv, Memory, Children, Shapes, OneParent, NewestExists
  <2>2. Path(stack)'
    <3> PICK s : s = stack
      OBVIOUS
    <3>1. Path(s)'
      BY <1>2, SameHeap DEF IInv
    <3> QED
      BY <1>2, <3>1, StackNamedNext
  <2>3. ToBeRead'
    BY <1>2 DEF IInv, ToBeRead, Current, CurrentValue
  <2> QED
    BY <1>2, <2>1, <2>2, <2>3 DEF IInv
<1>3. CASE UNCHANGED vars
  BY <1>2, <1>3 DEF vars, IInv
<1> QED
  BY <1>1, <1>2, <1>3, StepFacts DEF Stops

\* The invariant holds of every parse of every text.
THEOREM Invariance == Spec => []IInv
BY InitIInv, NextIInv, PTL DEF Spec

\* The parser stays inside the text and in the memory of the value it builds, and its
\* stack holds nothing but contexts (parse() in json.cpp).
THEOREM TypeCorrect == Spec => []TypeOK
<1>1. IInv => TypeOK
  BY DEF IInv, TypeOK, Memory, Path, Entries
<1> QED
  BY Invariance, <1>1, PTL

\* No pointer on the stack is left dangling when a vector grows and moves its items,
\* whatever the text (the m_stateStack of json.cpp and the references in it).
THEOREM StackPointsIntoTheValue == Spec => []StackIsPath
<1>1. IInv => StackIsPath
  BY DEF IInv, StackIsPath, Path, ToBeRead, Enters
<1> QED
  BY Invariance, <1>1, PTL

\* The loop of parse() ends for every text: each turn that goes on decreases a natural
\* number.
THEOREM ParserEnds == Spec => EveryTurnGetsOn
<1>1. ASSUME IInv, [Next]_vars
      PROVE  [outcome' = "running" => TurnsLeft' < TurnsLeft /\ TurnsLeft' >= 0]_vars
  <2> SUFFICES ASSUME GetsOn PROVE TurnsLeft' < TurnsLeft /\ TurnsLeft' >= 0
    BY <1>1, StepFacts DEF Stops
  <2> PICK n : n = Len(text)
    OBVIOUS
  <2> PICK x : x = IF stack # <<>> /\ Current.context \in {"Object", "Array"} THEN 1 ELSE 0
    OBVIOUS
  <2> PICK y : y = (IF stack # <<>> /\ Current.context \in {"Object", "Array"}
                    THEN 1 ELSE 0)'
    OBVIOUS
  <2>1. n \in Nat /\ pos \in 1 .. n + 2 /\ pos' \in pos .. n + 2 /\ text' = text
    BY <1>1 DEF IInv, Bytes, GetsOn
  <2>2. x \in {0, 1} /\ y \in {0, 1}
    OBVIOUS
  <2>3. pos' # pos \/ (x = 1 /\ y = 0)
    BY <1>1 DEF GetsOn, Current
  <2>4. TurnsLeft = 2 * (n + 2 - pos) + x /\ TurnsLeft' = 2 * (n + 2 - pos') + y
    BY <2>1 DEF TurnsLeft
  <2>5. 2 * (n + 2 - pos') + y < 2 * (n + 2 - pos) + x
    BY <2>1, <2>2, <2>3
  <2>6. 2 * (n + 2 - pos') + y >= 0
    BY <2>1, <2>2
  <2> QED
    BY <2>4, <2>5, <2>6
<1>2. IInv /\ [Next]_vars
        => [outcome' = "running" => TurnsLeft' < TurnsLeft /\ TurnsLeft' >= 0]_vars
  BY <1>1
<1> QED
  BY Invariance, <1>2, PTL DEF Spec, EveryTurnGetsOn

=============================================================================
