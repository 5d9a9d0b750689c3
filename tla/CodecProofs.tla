---------------------------- MODULE CodecProofs ----------------------------
(***************************************************************************)
(* Theorems about the texts that are exchanged: URIs (UriText) and         *)
(* JSON-RPC messages (JsonRpc).                                            *)
(***************************************************************************)
EXTENDS UriText, JsonRpc, FiniteSetTheorems, SequenceTheorems, WellFoundedInduction, TLAPS

-----------------------------------------------------------------------------
(* Texts: the parts of a concatenation *)

Text == Seq(Byte)

\* The length and the bytes of a text.
LEMMA TextFacts ==
    ASSUME NEW s \in Text
    PROVE  /\ Len(s) \in Nat /\ DOMAIN s = 1 .. Len(s)
           /\ \A i \in 1 .. Len(s) : s[i] \in Byte
           /\ s = <<>> <=> Len(s) = 0
BY DEF Text

\* Two texts with the same bytes are the same.
LEMMA SameText ==
    ASSUME NEW s \in Text, NEW t \in Text, Len(s) = Len(t), \A i \in 1 .. Len(s) : s[i] = t[i]
    PROVE  s = t
BY SeqEqual DEF Text

\* One text behind another one: an operator of its own, because the provers take
\* equations between concatenations apart.
Cat(a, b) == a \o b

\* The length and the bytes of two texts.
LEMMA ConcatFacts ==
    ASSUME NEW a \in Text, NEW b \in Text
    PROVE  /\ Cat(a, b) \in Text /\ Len(Cat(a, b)) = Len(a) + Len(b)
           /\ \A i \in 1 .. Len(a) : Cat(a, b)[i] = a[i]
           /\ \A i \in 1 .. Len(b) : Cat(a, b)[Len(a) + i] = b[i]
<1>1. /\ Cat(a, b) \in Text /\ Len(Cat(a, b)) = Len(a) + Len(b)
      /\ \A i \in 1 .. Len(a) + Len(b) : Cat(a, b)[i] = IF i <= Len(a) THEN a[i] ELSE b[i - Len(a)]
  BY ConcatProperties DEF Text, Cat
<1>2. Len(a) \in Nat /\ Len(b) \in Nat
  BY TextFacts
<1>3. ASSUME NEW i \in 1 .. Len(b) PROVE Cat(a, b)[Len(a) + i] = b[i]
  <2>1. Len(a) + i \in 1 .. Len(a) + Len(b) /\ ~(Len(a) + i <= Len(a)) /\ (Len(a) + i) - Len(a) = i
    BY <1>2
  <2> QED
    BY <1>1, <2>1
<1> QED
  BY <1>1, <1>2, <1>3

\* Nothing before or behind a text, and three texts.
LEMMA EmptyText ==
    /\ <<>> \in Text /\ Len(<<>>) = 0
    /\ \A a \in Text : Cat(a, <<>>) = a /\ Cat(<<>>, a) = a
BY ConcatEmptySeq DEF Text, Cat

\* Brackets do not matter.
LEMMA ThreeTexts ==
    ASSUME NEW a \in Text, NEW b \in Text, NEW c \in Text
    PROVE  Cat(Cat(a, b), c) = Cat(a, Cat(b, c))
BY ConcatAssociative DEF Text, Cat

\* Four texts.
LEMMA FourTexts ==
    ASSUME NEW a \in Text, NEW b \in Text, NEW c \in Text, NEW d \in Text
    PROVE  Cat(a, Cat(Cat(b, c), d)) = Cat(Cat(a, b), Cat(c, d))
<1>1. Cat(b, c) \in Text /\ Cat(c, d) \in Text
  BY ConcatFacts
<1>2. Cat(Cat(b, c), d) = Cat(b, Cat(c, d))
  BY ThreeTexts
<1>3. Cat(Cat(a, b), Cat(c, d)) = Cat(a, Cat(b, Cat(c, d)))
  BY <1>1, ThreeTexts
<1> QED
  BY <1>2, <1>3, Zenon

\* A part of a text, for the same reason.
Sub(s, m, n) == SubSeq(s, m, n)

\* Its length and its bytes.
LEMMA SubFacts ==
    ASSUME NEW s \in Text, NEW m \in Nat \ {0}, NEW n \in Int, n <= Len(s)
    PROVE  /\ Sub(s, m, n) \in Text
           /\ Len(Sub(s, m, n)) = IF m <= n THEN n - m + 1 ELSE 0
           /\ \A i \in 1 .. n - m + 1 : Sub(s, m, n)[i] = s[m + i - 1]
<1>1. \A i \in m .. n : s[i] \in Byte
  BY TextFacts
<1> QED
  BY <1>1, SubSeqProperties DEF Text, Sub

\* From m on, s has the bytes that t has from i to k.
Agree(s, m, t, i, k) == \A x \in i .. k : s[x + (m - i)] = t[x]

\* Two parts with the same bytes.
LEMMA SameSub ==
    ASSUME NEW s \in Text, NEW m \in Nat \ {0}, NEW n \in Int, n <= Len(s),
           NEW t \in Text, NEW i \in Nat \ {0}, NEW k \in Int, k <= Len(t),
           n - m = k - i, Agree(s, m, t, i, k)
    PROVE  Sub(s, m, n) = Sub(t, i, k)
<1>1. /\ Sub(s, m, n) \in Text
      /\ Len(Sub(s, m, n)) = IF m <= n THEN n - m + 1 ELSE 0
      /\ \A j \in 1 .. n - m + 1 : Sub(s, m, n)[j] = s[m + j - 1]
  BY SubFacts
<1>2. /\ Sub(t, i, k) \in Text
      /\ Len(Sub(t, i, k)) = IF i <= k THEN k - i + 1 ELSE 0
      /\ \A j \in 1 .. k - i + 1 : Sub(t, i, k)[j] = t[i + j - 1]
  BY SubFacts
<1>3. Len(Sub(s, m, n)) = Len(Sub(t, i, k))
  BY <1>1, <1>2
<1>4. ASSUME NEW j \in 1 .. Len(Sub(s, m, n)) PROVE Sub(s, m, n)[j] = Sub(t, i, k)[j]
  <2>1. j \in 1 .. n - m + 1 /\ j \in 1 .. k - i + 1 /\ i + j - 1 \in i .. k
    BY <1>1
  <2>2. (i + j - 1) + (m - i) = m + j - 1
    BY <2>1
  <2>3. s[(i + j - 1) + (m - i)] = t[i + j - 1]
    BY <2>1 DEF Agree
  <2> QED
    BY <1>1, <1>2, <2>1, <2>2, <2>3
<1> QED
  BY <1>1, <1>2, <1>3, <1>4, SameText

\* The rest of a text.
LEMMA FromFacts ==
    ASSUME NEW s \in Text, NEW k \in 0 .. Len(s)
    PROVE  /\ From(s, k) \in Text /\ Len(From(s, k)) = Len(s) - k
           /\ \A i \in 1 .. Len(s) - k : From(s, k)[i] = s[k + i]
<1>1. Len(s) \in Nat /\ k + 1 \in Nat \ {0}
  BY TextFacts
<1>2. /\ Sub(s, k + 1, Len(s)) \in Text
      /\ Len(Sub(s, k + 1, Len(s))) = IF k + 1 <= Len(s) THEN Len(s) - (k + 1) + 1 ELSE 0
      /\ \A i \in 1 .. Len(s) - (k + 1) + 1 : Sub(s, k + 1, Len(s))[i] = s[(k + 1) + i - 1]
  <2>1. \A m \in Nat \ {0} : \A n \in Int : n <= Len(s) =>
            /\ Sub(s, m, n) \in Text /\ Len(Sub(s, m, n)) = IF m <= n THEN n - m + 1 ELSE 0
            /\ \A i \in 1 .. n - m + 1 : Sub(s, m, n)[i] = s[m + i - 1]
    BY SubFacts
  <2>2. Len(s) \in Int /\ Len(s) <= Len(s)
    BY <1>1
  <2> QED
    BY <1>1, <2>1, <2>2, Zenon
<1>3. /\ Len(s) - (k + 1) + 1 = Len(s) - k
      /\ (IF k + 1 <= Len(s) THEN Len(s) - (k + 1) + 1 ELSE 0) = Len(s) - k
  BY <1>1
<1>4. \A i \in 1 .. Len(s) - k : (k + 1) + i - 1 = k + i
  BY <1>1
<1>5. From(s, k) = Sub(s, k + 1, Len(s))
  BY DEF From, Sub
<1>6. Len(From(s, k)) = Len(s) - k
  BY <1>2, <1>3, <1>5
<1>7. \A i \in 1 .. Len(s) - k : From(s, k)[i] = s[k + i]
  BY <1>2, <1>3, <1>4, <1>5
<1> QED
  BY <1>2, <1>5, <1>6, <1>7

\* A text is what is before a place and what is behind it.
LEMMA SplitAt ==
    ASSUME NEW s \in Text, NEW k \in 0 .. Len(s)
    PROVE  /\ Sub(s, 1, k) \in Text /\ Len(Sub(s, 1, k)) = k
           /\ From(s, k) \in Text /\ s = Cat(Sub(s, 1, k), From(s, k))
<1>1. Len(s) \in Nat /\ 1 \in Nat \ {0}
  BY TextFacts
<1>2. Sub(s, 1, k) \in Text /\ Len(Sub(s, 1, k)) = k
  BY <1>1, SubFacts
<1>3. From(s, k) \in Text
  BY FromFacts
<1>4. Cat(Sub(s, 1, k), Sub(s, k + 1, Len(s))) = Sub(s, 1, Len(s))
  <2>1. 1 \in 1 .. Len(s) + 1 /\ k \in 1 - 1 .. Len(s) /\ Len(s) \in k .. Len(s)
    BY <1>1
  <2> QED
    BY <2>1, ConcatAdjacentSubSeq DEF Text, Cat, Sub
<1>5. Sub(s, 1, Len(s)) = s
  BY SubSeqFull DEF Text, Sub
<1> QED
  BY <1>2, <1>3, <1>4, <1>5 DEF From, Sub

\* What is found behind a in Cat(a, b) is what is found in b.
LEMMA BehindAt ==
    ASSUME NEW a \in Text, NEW b \in Text, NEW k \in 0 .. Len(b)
    PROVE  /\ Sub(Cat(a, b), 1, Len(a)) = a
           /\ From(Cat(a, b), Len(a) + k) = From(b, k)
           /\ \A i \in 1 .. Len(b) + 1 : Sub(Cat(a, b), Len(a) + i, Len(a) + k) = Sub(b, i, k)
<1>1. Len(a) \in Nat /\ Len(b) \in Nat /\ Cat(a, b) \in Text /\ Len(Cat(a, b)) = Len(a) + Len(b)
  BY TextFacts, ConcatFacts
<1>2. Sub(Cat(a, b), 1, Len(a)) = a
  <2>1. Len(a) \in 0 .. Len(Cat(a, b))
    BY <1>1
  <2>2. /\ Sub(Cat(a, b), 1, Len(a)) \in Text /\ Len(Sub(Cat(a, b), 1, Len(a))) = Len(a)
        /\ Cat(a, b) = Cat(Sub(Cat(a, b), 1, Len(a)), From(Cat(a, b), Len(a)))
        /\ From(Cat(a, b), Len(a)) \in Text
    BY <1>1, <2>1, SplitAt
  <2>3. \A i \in 1 .. Len(a) : Sub(Cat(a, b), 1, Len(a))[i] = Cat(a, b)[i]
    <3>1. Len(a) \in Int /\ 1 \in Nat \ {0} /\ Len(a) <= Len(Cat(a, b))
      BY <1>1
    <3>2. \A i \in 1 .. Len(a) - 1 + 1 : Sub(Cat(a, b), 1, Len(a))[i] = Cat(a, b)[1 + i - 1]
      <4>1. \A s \in Text : \A m \in Nat \ {0} : \A n \in Int : n <= Len(s) =>
                \A i \in 1 .. n - m + 1 : Sub(s, m, n)[i] = s[m + i - 1]
        BY SubFacts
      <4> QED
        BY <1>1, <3>1, <4>1, Zenon
    <3>3. ASSUME NEW i \in 1 .. Len(a)
          PROVE  i \in 1 .. Len(a) - 1 + 1 /\ 1 + i - 1 = i
      BY <1>1
    <3> QED
      BY <3>2, <3>3
  <2>4. \A i \in 1 .. Len(a) : Cat(a, b)[i] = a[i]
    BY ConcatFacts
  <2> QED
    BY <1>1, <2>2, <2>3, <2>4, SameText
<1>3. From(Cat(a, b), Len(a) + k) = From(b, k)
  <2>1. Len(a) + k \in 0 .. Len(Cat(a, b))
    BY <1>1
  <2>2. /\ From(Cat(a, b), Len(a) + k) \in Text
        /\ Len(From(Cat(a, b), Len(a) + k)) = Len(b) - k
        /\ \A i \in 1 .. Len(b) - k : From(Cat(a, b), Len(a) + k)[i] = Cat(a, b)[Len(a) + k + i]
    <3>1. Len(Cat(a, b)) - (Len(a) + k) = Len(b) - k
      BY <1>1
    <3>2. /\ From(Cat(a, b), Len(a) + k) \in Text
          /\ Len(From(Cat(a, b), Len(a) + k)) = Len(Cat(a, b)) - (Len(a) + k)
          /\ \A i \in 1 .. Len(Cat(a, b)) - (Len(a) + k) :
                From(Cat(a, b), Len(a) + k)[i] = Cat(a, b)[Len(a) + k + i]
      BY <1>1, <2>1, FromFacts
    <3> QED
      BY <3>1, <3>2
  <2>3. /\ From(b, k) \in Text /\ Len(From(b, k)) = Len(b) - k
        /\ \A i \in 1 .. Len(b) - k : From(b, k)[i] = b[k + i]
    BY FromFacts
  <2>4. ASSUME NEW i \in 1 .. Len(b) - k PROVE Cat(a, b)[Len(a) + k + i] = b[k + i]
    <3>1. k + i \in 1 .. Len(b) /\ Len(a) + (k + i) = Len(a) + k + i
      BY <1>1
    <3> QED
      BY <3>1, ConcatFacts
  <2> QED
    BY <2>2, <2>3, <2>4, SameText
<1>4. ASSUME NEW i \in 1 .. Len(b) + 1
      PROVE  Sub(Cat(a, b), Len(a) + i, Len(a) + k) = Sub(b, i, k)
  <2>1. /\ Len(a) + i \in Nat \ {0} /\ Len(a) + k \in Int /\ Len(a) + k <= Len(Cat(a, b))
        /\ i \in Nat \ {0} /\ k \in Int /\ k <= Len(b) /\ (Len(a) + k) - (Len(a) + i) = k - i
        /\ Cat(a, b) \in Text
    BY <1>1
  <2>2. ASSUME NEW x \in i .. k PROVE Cat(a, b)[x + ((Len(a) + i) - i)] = b[x]
    <3>1. x \in 1 .. Len(b) /\ x + ((Len(a) + i) - i) = Len(a) + x
      BY <1>1
    <3>2. Cat(a, b)[Len(a) + x] = b[x]
      BY <3>1, ConcatFacts
    <3> QED
      BY <3>1, <3>2
  <2>3. Agree(Cat(a, b), Len(a) + i, b, i, k)
    BY <2>2 DEF Agree
  <2> QED
    BY <2>1, <2>3, SameSub
<1> QED
  BY <1>2, <1>3, <1>4

\* A byte behind a.
LEMMA ByteBehindAt ==
    ASSUME NEW a \in Text, NEW b \in Text, NEW k \in Nat, NEW c
    PROVE  ByteAt(Cat(a, b), Len(a) + k, c) <=> ByteAt(b, k, c)
<1>1. Len(a) \in Nat /\ Len(b) \in Nat /\ Len(Cat(a, b)) = Len(a) + Len(b)
  BY TextFacts, ConcatFacts
<1>2. k < Len(b) => Cat(a, b)[Len(a) + k + 1] = b[k + 1]
  <2> HAVE k < Len(b)
  <2>1. k + 1 \in 1 .. Len(b) /\ Len(a) + (k + 1) = Len(a) + k + 1
    BY <1>1
  <2> QED
    BY <2>1, ConcatFacts
<1> QED
  BY <1>1, <1>2 DEF ByteAt

\* The same, for a place in the whole.
LEMMA BehindFacts ==
    ASSUME NEW a \in Text, NEW b \in Text
    PROVE  /\ Sub(Cat(a, b), 1, Len(a)) = a
           /\ \A n \in Len(a) .. Len(a) + Len(b) :
                /\ From(Cat(a, b), n) = From(b, n - Len(a))
                /\ \A m \in Len(a) + 1 .. Len(a) + Len(b) + 1 :
                        Sub(Cat(a, b), m, n) = Sub(b, m - Len(a), n - Len(a))
           /\ \A c : \A n \in Nat : n >= Len(a)
                   => (ByteAt(Cat(a, b), n, c) <=> ByteAt(b, n - Len(a), c))
<1>1. Len(a) \in Nat /\ Len(b) \in Nat
  BY TextFacts
<1>2. Sub(Cat(a, b), 1, Len(a)) = a
  <2>1. 0 \in 0 .. Len(b)
    BY <1>1
  <2> QED
    BY <2>1, BehindAt
<1>3. ASSUME NEW n \in Len(a) .. Len(a) + Len(b)
      PROVE  /\ From(Cat(a, b), n) = From(b, n - Len(a))
             /\ \A m \in Len(a) + 1 .. Len(a) + Len(b) + 1 :
                    Sub(Cat(a, b), m, n) = Sub(b, m - Len(a), n - Len(a))
  <2> DEFINE k == n - Len(a)
  <2>1. k \in 0 .. Len(b) /\ Len(a) + k = n
    BY <1>1
  <2> HIDE DEF k
  <2>2. From(Cat(a, b), Len(a) + k) = From(b, k)
    BY <2>1, BehindAt
  <2>3. ASSUME NEW m \in Len(a) + 1 .. Len(a) + Len(b) + 1
        PROVE  Sub(Cat(a, b), m, n) = Sub(b, m - Len(a), k)
    <3> DEFINE i == m - Len(a)
    <3>1. i \in 1 .. Len(b) + 1 /\ Len(a) + i = m
      BY <1>1
    <3> HIDE DEF i
    <3>2. Sub(Cat(a, b), Len(a) + i, Len(a) + k) = Sub(b, i, k)
      BY <2>1, <3>1, BehindAt
    <3>3. Sub(Cat(a, b), m, n) = Sub(b, i, k)
      BY <2>1, <3>1, <3>2
    <3> QED
      BY <3>3 DEF i
  <2>4. From(Cat(a, b), n) = From(b, k)
    BY <2>1, <2>2
  <2> QED
    BY <2>3, <2>4 DEF k
<1>4. ASSUME NEW n \in Nat, NEW c, n >= Len(a)
      PROVE  ByteAt(Cat(a, b), n, c) <=> ByteAt(b, n - Len(a), c)
  <2> DEFINE k == n - Len(a)
  <2>1. k \in Nat /\ Len(a) + k = n
    BY <1>1, <1>4
  <2> HIDE DEF k
  <2>2. ByteAt(Cat(a, b), Len(a) + k, c) <=> ByteAt(b, k, c)
    BY <2>1, ByteBehindAt
  <2>3. ByteAt(Cat(a, b), n, c) <=> ByteAt(b, k, c)
    BY <2>1, <2>2
  <2> QED
    BY <2>3 DEF k
<1> QED
  BY <1>2, <1>3, <1>4

\* std::string::replace puts a text in the place of another one.
LEMMA ReplaceFacts ==
    ASSUME NEW a \in Text, NEW b \in Text, NEW c \in Text, NEW t \in Text
    PROVE  Replace(Cat(a, Cat(b, c)), Len(a), Len(b), t) = Cat(a, Cat(t, c))
<1>1. Len(a) \in Nat /\ Len(b) \in Nat /\ Len(c) \in Nat
  BY TextFacts
<1>2. Cat(b, c) \in Text /\ Len(Cat(b, c)) = Len(b) + Len(c)
  BY ConcatFacts
<1>3. Sub(Cat(a, Cat(b, c)), 1, Len(a)) = a
  BY <1>2, BehindFacts
<1>4. From(Cat(a, Cat(b, c)), Len(a) + Len(b)) = From(Cat(b, c), Len(b))
  <2>1. Len(a) + Len(b) \in Len(a) .. Len(a) + Len(Cat(b, c)) /\ (Len(a) + Len(b)) - Len(a) = Len(b)
    BY <1>1, <1>2
  <2>2. Cat(b, c) \in Text
    BY <1>2
  <2>3. From(Cat(a, Cat(b, c)), Len(a) + Len(b)) = From(Cat(b, c), (Len(a) + Len(b)) - Len(a))
    BY <2>1, <2>2, BehindFacts
  <2> QED
    BY <2>1, <2>3
<1>5. From(Cat(b, c), Len(b)) = From(c, 0)
  <2>1. Len(b) \in Len(b) .. Len(b) + Len(c) /\ Len(b) - Len(b) = 0
    BY <1>1
  <2>2. From(Cat(b, c), Len(b)) = From(c, Len(b) - Len(b))
    BY <2>1, BehindFacts
  <2> QED
    BY <2>1, <2>2
<1>6. From(c, 0) = c
  BY SubSeqFull DEF From, Text
<1>7. Cat(Cat(a, t), c) = Cat(a, Cat(t, c))
  BY ThreeTexts
<1>8. Replace(Cat(a, Cat(b, c)), Len(a), Len(b), t) = Cat(Cat(a, t), c)
  BY <1>3, <1>4, <1>5, <1>6 DEF Replace, Cat, Sub
<1> QED
  BY <1>7, <1>8

-----------------------------------------------------------------------------
(* A URI is made of its parts *)

\* A text in which some bytes are changed to others is one of the same length.
LEMMA CanonicalFacts ==
    ASSUME NEW p \in Parts, NEW s \in Text
    PROVE  Canonical(p, s) \in Text /\ Len(Canonical(p, s)) = Len(s)
<1>1. Len(s) \in Nat /\ DOMAIN s = 1 .. Len(s) /\ \A i \in 1 .. Len(s) : s[i] \in Byte
  BY TextFacts
<1>2. \A c \in Byte : toLower(c) \in Byte /\ toUpper(c) \in Byte
  BY DEF Byte, toLower, toUpper, Upper, Lower
<1>3. [i \in 1 .. Len(s) |-> toLower(s[i])] \in Text
  BY <1>1, <1>2 DEF Text
<1>4. [i \in 1 .. Len(s) |-> IF InEscape(s, i) THEN toUpper(s[i]) ELSE s[i]] \in Text
  BY <1>1, <1>2 DEF Text
<1>5. \A e \in [1 .. Len(s) -> Byte] : Len(e) = Len(s)
  BY <1>1
<1>6. /\ [i \in 1 .. Len(s) |-> toLower(s[i])] \in [1 .. Len(s) -> Byte]
      /\ [i \in 1 .. Len(s) |-> IF InEscape(s, i) THEN toUpper(s[i]) ELSE s[i]]
            \in [1 .. Len(s) -> Byte]
  BY <1>1, <1>2
<1> QED
  BY <1>1, <1>3, <1>4, <1>5, <1>6 DEF Canonical, normalizeEncodedCase

\* The text of a part, if f has it.
TextOf(f, p) == IF p \in DOMAIN f THEN f[p] ELSE <<>>

Joined(f) ==
    Cat(TextOf(f, "scheme"), Cat(TextOf(f, "authority"), Cat(TextOf(f, "path"),
        Cat(TextOf(f, "query"), TextOf(f, "fragment")))))

\* The object for the parts f.
Built(f) ==
    [data |-> Joined(f), len |-> [p \in Parts |-> Len(TextOf(f, p))],
     has |-> DOMAIN f \intersect Optional]

\* Parts that a URI can hold.
Holdable(f) ==
    /\ {"scheme", "path"} \subseteq DOMAIN f /\ DOMAIN f \subseteq Parts
    /\ \A p \in DOMAIN f : f[p] \in Text /\ Len(f[p]) < Width

\* What is before a part, and what is behind it.
Ahead(f, p) ==
    CASE p = "scheme" -> <<>>
      [] p = "authority" -> TextOf(f, "scheme")
      [] p = "path" -> Cat(TextOf(f, "scheme"), TextOf(f, "authority"))
      [] p = "query" -> Cat(Cat(TextOf(f, "scheme"), TextOf(f, "authority")), TextOf(f, "path"))
      [] p = "fragment" -> Cat(Cat(Cat(TextOf(f, "scheme"), TextOf(f, "authority")),
                                   TextOf(f, "path")), TextOf(f, "query"))
Behind(f, p) ==
    CASE p = "scheme" -> Cat(TextOf(f, "authority"), Cat(TextOf(f, "path"),
                             Cat(TextOf(f, "query"), TextOf(f, "fragment"))))
      [] p = "authority" -> Cat(TextOf(f, "path"), Cat(TextOf(f, "query"), TextOf(f, "fragment")))
      [] p = "path" -> Cat(TextOf(f, "query"), TextOf(f, "fragment"))
      [] p = "query" -> TextOf(f, "fragment")
      [] p = "fragment" -> <<>>

\* The texts of five parts, in the order of the string.
AllTexts(a, b, c, d, e) ==
    a \in Text /\ b \in Text /\ c \in Text /\ d \in Text /\ e \in Text

\* What brackets do not change, and the lengths of what is ahead of each part.
Brackets(a, b, c, d, e) ==
    /\ Cat(a, Cat(b, Cat(c, Cat(d, e)))) = Cat(Cat(a, b), Cat(c, Cat(d, e)))
    /\ Cat(a, Cat(b, Cat(c, Cat(d, e)))) = Cat(Cat(Cat(a, b), c), Cat(d, e))
    /\ Cat(a, Cat(b, Cat(c, Cat(d, e)))) = Cat(Cat(Cat(Cat(a, b), c), d), Cat(e, <<>>))
    /\ Len(Cat(a, b)) = Len(a) + Len(b)
    /\ Len(Cat(Cat(a, b), c)) = Len(a) + Len(b) + Len(c)
    /\ Len(Cat(Cat(Cat(a, b), c), d)) = Len(a) + Len(b) + Len(c) + Len(d)
    /\ Cat(a, b) \in Text /\ Cat(Cat(a, b), c) \in Text /\ Cat(Cat(Cat(a, b), c), d) \in Text
    /\ Cat(b, Cat(c, Cat(d, e))) \in Text /\ Cat(c, Cat(d, e)) \in Text /\ Cat(d, e) \in Text
    /\ Len(Cat(a, Cat(b, Cat(c, Cat(d, e))))) = Len(a) + Len(b) + Len(c) + Len(d) + Len(e)

\* Brackets do not matter.
LEMMA FiveTexts ==
    ASSUME NEW a, NEW b, NEW c, NEW d, NEW e, AllTexts(a, b, c, d, e)
    PROVE  Brackets(a, b, c, d, e)
<1> USE DEF AllTexts
<1>1. Cat(d, e) \in Text /\ Len(Cat(d, e)) = Len(d) + Len(e)
  BY ConcatFacts
<1>2. Cat(c, Cat(d, e)) \in Text /\ Len(Cat(c, Cat(d, e))) = Len(c) + Len(Cat(d, e))
  BY <1>1, ConcatFacts
<1>3. Cat(b, Cat(c, Cat(d, e))) \in Text
        /\ Len(Cat(b, Cat(c, Cat(d, e)))) = Len(b) + Len(Cat(c, Cat(d, e)))
  BY <1>2, ConcatFacts
<1>4. Len(Cat(a, Cat(b, Cat(c, Cat(d, e))))) = Len(a) + Len(Cat(b, Cat(c, Cat(d, e))))
  BY <1>3, ConcatFacts
<1>5. Cat(a, b) \in Text /\ Len(Cat(a, b)) = Len(a) + Len(b)
  BY ConcatFacts
<1>6. Cat(Cat(a, b), c) \in Text /\ Len(Cat(Cat(a, b), c)) = Len(Cat(a, b)) + Len(c)
  BY <1>5, ConcatFacts
<1>7. Cat(Cat(Cat(a, b), c), d) \in Text
        /\ Len(Cat(Cat(Cat(a, b), c), d)) = Len(Cat(Cat(a, b), c)) + Len(d)
  BY <1>6, ConcatFacts
<1>8. Cat(a, Cat(b, Cat(c, Cat(d, e)))) = Cat(Cat(a, b), Cat(c, Cat(d, e)))
  <2> PICK r : r = Cat(c, Cat(d, e))
    OBVIOUS
  <2>1. Cat(Cat(a, b), r) = Cat(a, Cat(b, r))
    BY <1>2, ThreeTexts
  <2> QED
    BY <2>1
<1>9. Cat(Cat(a, b), Cat(c, Cat(d, e))) = Cat(Cat(Cat(a, b), c), Cat(d, e))
  BY <1>1, <1>5, ThreeTexts
<1>10. Cat(Cat(Cat(a, b), c), Cat(d, e)) = Cat(Cat(Cat(Cat(a, b), c), d), e)
  BY <1>6, ThreeTexts
<1>11. Cat(e, <<>>) = e
  BY EmptyText
<1>12. Len(a) \in Nat /\ Len(b) \in Nat /\ Len(c) \in Nat /\ Len(d) \in Nat /\ Len(e) \in Nat
  BY TextFacts
<1>13. /\ Len(Cat(Cat(a, b), c)) = Len(a) + Len(b) + Len(c)
       /\ Len(Cat(Cat(Cat(a, b), c), d)) = Len(a) + Len(b) + Len(c) + Len(d)
       /\ Len(Cat(a, Cat(b, Cat(c, Cat(d, e))))) = Len(a) + Len(b) + Len(c) + Len(d) + Len(e)
  BY <1>1, <1>2, <1>3, <1>4, <1>5, <1>6, <1>7, <1>12
<1> QED
  BY <1>1, <1>2, <1>3, <1>5, <1>6, <1>7, <1>8, <1>9, <1>10, <1>11, <1>13 DEF Brackets

\* The index of a part is where it is.
LEMMA BuiltFacts ==
    ASSUME NEW f, Holdable(f), NEW p \in Parts
    PROVE  /\ Ahead(f, p) \in Text /\ Behind(f, p) \in Text /\ TextOf(f, p) \in Text
           /\ Len(TextOf(f, p)) \in 0 .. Width - 1
           /\ Joined(f) = Cat(Ahead(f, p), Cat(TextOf(f, p), Behind(f, p)))
           /\ Joined(f) \in Text
           /\ Idx(Built(f), p) = Len(Ahead(f, p)) /\ Built(f).len[p] = Len(TextOf(f, p))
<1> PICK a : a = TextOf(f, "scheme")
  OBVIOUS
<1> PICK b : b = TextOf(f, "authority")
  OBVIOUS
<1> PICK c : c = TextOf(f, "path")
  OBVIOUS
<1> PICK d : d = TextOf(f, "query")
  OBVIOUS
<1> PICK e : e = TextOf(f, "fragment")
  OBVIOUS
<1>1. ASSUME NEW q \in Parts PROVE TextOf(f, q) \in Text /\ Len(TextOf(f, q)) \in 0 .. Width - 1
  <2>1. Width \in Nat /\ Width > 0
    BY WidthAssumption
  <2>2. CASE q \in DOMAIN f
    <3>1. f[q] \in Text /\ Len(f[q]) < Width /\ TextOf(f, q) = f[q]
      BY <2>2 DEF Holdable, TextOf
    <3> QED
      BY <2>1, <3>1, TextFacts
  <2>3. CASE q \notin DOMAIN f
    BY <2>1, <2>3, EmptyText DEF TextOf
  <2> QED
    BY <2>2, <2>3
<1>2. AllTexts(a, b, c, d, e)
  BY <1>1 DEF Parts, AllTexts
<1>3. /\ Joined(f) = Cat(a, Cat(b, Cat(c, Cat(d, e))))
      /\ Ahead(f, "scheme") = <<>> /\ Ahead(f, "authority") = a /\ Ahead(f, "path") = Cat(a, b)
      /\ Ahead(f, "query") = Cat(Cat(a, b), c) /\ Ahead(f, "fragment") = Cat(Cat(Cat(a, b), c), d)
      /\ Behind(f, "scheme") = Cat(b, Cat(c, Cat(d, e)))
              /\ Behind(f, "authority") = Cat(c, Cat(d, e))
      /\ Behind(f, "path") = Cat(d, e) /\ Behind(f, "query") = e /\ Behind(f, "fragment") = <<>>
  BY DEF Joined, Ahead, Behind
<1>4. /\ Cat(a, Cat(b, Cat(c, Cat(d, e)))) = Cat(Cat(a, b), Cat(c, Cat(d, e)))
      /\ Cat(a, Cat(b, Cat(c, Cat(d, e)))) = Cat(Cat(Cat(a, b), c), Cat(d, e))
      /\ Cat(a, Cat(b, Cat(c, Cat(d, e)))) = Cat(Cat(Cat(Cat(a, b), c), d), Cat(e, <<>>))
      /\ Len(Cat(a, b)) = Len(a) + Len(b)
      /\ Len(Cat(Cat(a, b), c)) = Len(a) + Len(b) + Len(c)
      /\ Len(Cat(Cat(Cat(a, b), c), d)) = Len(a) + Len(b) + Len(c) + Len(d)
      /\ Cat(a, b) \in Text /\ Cat(Cat(a, b), c) \in Text /\ Cat(Cat(Cat(a, b), c), d) \in Text
      /\ Cat(b, Cat(c, Cat(d, e))) \in Text /\ Cat(c, Cat(d, e)) \in Text /\ Cat(d, e) \in Text
  <2>1. Brackets(a, b, c, d, e)
    BY <1>2, FiveTexts
  <2> QED
    BY <2>1, Zenon DEF Brackets
<1>5. \A q \in Parts : Built(f).len[q] = Len(TextOf(f, q))
  BY DEF Built
<1>6. /\ Built(f).len["scheme"] = Len(a) /\ Built(f).len["authority"] = Len(b)
      /\ Built(f).len["path"] = Len(c) /\ Built(f).len["query"] = Len(d)
  BY <1>5 DEF Parts
<1>7. /\ Idx(Built(f), "scheme") = 0 /\ Idx(Built(f), "authority") = Len(a)
      /\ Idx(Built(f), "path") = Len(a) + Len(b)
      /\ Idx(Built(f), "query") = Len(a) + Len(b) + Len(c)
      /\ Idx(Built(f), "fragment") = Len(a) + Len(b) + Len(c) + Len(d)
  BY <1>6 DEF Idx
<1>8. Cat(a, Cat(b, Cat(c, Cat(d, e)))) \in Text
  BY <1>2, <1>4, ConcatFacts DEF AllTexts
<1>9. <<>> \in Text /\ Len(<<>>) = 0
        /\ Cat(<<>>, Cat(a, Cat(b, Cat(c, Cat(d, e))))) = Cat(a, Cat(b, Cat(c, Cat(d, e))))
  BY <1>8, EmptyText
<1>10. CASE p = "scheme"
  BY <1>1, <1>2, <1>3, <1>5, <1>7, <1>8, <1>9, <1>4, <1>10 DEF AllTexts
<1>11. CASE p = "authority"
  BY <1>1, <1>2, <1>3, <1>5, <1>7, <1>8, <1>4, <1>11 DEF AllTexts
<1>12. CASE p = "path"
  BY <1>1, <1>2, <1>3, <1>5, <1>7, <1>8, <1>4, <1>12 DEF AllTexts
<1>13. CASE p = "query"
  BY <1>1, <1>2, <1>3, <1>5, <1>7, <1>8, <1>4, <1>13 DEF AllTexts
<1>14. CASE p = "fragment"
  BY <1>1, <1>2, <1>3, <1>5, <1>7, <1>8, <1>9, <1>4, <1>14 DEF AllTexts
<1> QED
  BY <1>10, <1>11, <1>12, <1>13, <1>14 DEF Parts

\* The parts f, but for the text of p.
LEMMA OnePartChanged ==
    ASSUME NEW f, Holdable(f), NEW g, Holdable(g), NEW p \in Parts,
           \A q \in Parts \ {p} : TextOf(g, q) = TextOf(f, q)
    PROVE  /\ Replace(Built(f).data, Idx(Built(f), p), Built(f).len[p], TextOf(g, p))
                = Built(g).data
           /\ [Built(f).len EXCEPT ![p] = Len(TextOf(g, p))] = Built(g).len
<1>1. Ahead(g, p) = Ahead(f, p) /\ Behind(g, p) = Behind(f, p)
  BY DEF Ahead, Behind, Parts
<1>2. /\ Ahead(f, p) \in Text /\ Behind(f, p) \in Text /\ TextOf(f, p) \in Text
      /\ Joined(f) = Cat(Ahead(f, p), Cat(TextOf(f, p), Behind(f, p)))
      /\ Idx(Built(f), p) = Len(Ahead(f, p)) /\ Built(f).len[p] = Len(TextOf(f, p))
  BY BuiltFacts
<1>3. /\ TextOf(g, p) \in Text
      /\ Joined(g) = Cat(Ahead(g, p), Cat(TextOf(g, p), Behind(g, p)))
  BY BuiltFacts
<1>4. Built(f).data = Joined(f) /\ Built(g).data = Joined(g)
  BY DEF Built
<1>5. Replace(Joined(f), Idx(Built(f), p), Built(f).len[p], TextOf(g, p)) = Joined(g)
  <2> PICK a : a = Ahead(f, p)
    OBVIOUS
  <2> PICK b : b = TextOf(f, p)
    OBVIOUS
  <2> PICK c : c = Behind(f, p)
    OBVIOUS
  <2> PICK t : t = TextOf(g, p)
    OBVIOUS
  <2>0. a \in Text /\ b \in Text /\ c \in Text /\ t \in Text
    BY <1>2, <1>3
  <2>2. Replace(Cat(a, Cat(b, c)), Len(a), Len(b), t) = Cat(a, Cat(t, c))
    BY <2>0, ReplaceFacts
  <2> QED
    BY <1>1, <1>2, <1>3, <2>2
<1>6. [Built(f).len EXCEPT ![p] = Len(TextOf(g, p))] = Built(g).len
  BY DEF Built
<1> QED
  BY <1>4, <1>5, <1>6

\* A length below Width is not reduced.
LEMMA ModFacts ==
    ASSUME NEW n \in Nat
    PROVE  n % Width \in 0 .. Width - 1 /\ n % Width <= n /\ (n < Width <=> n % Width = n)
<1>1. Width \in Nat /\ Width > 0
  BY WidthAssumption
<1> QED
  BY <1>1

\* A text that is not too long goes into its place whole.
LEMMA InsertWhole ==
    ASSUME NEW u, NEW p \in Parts, NEW text \in Text, Len(text) < Width
    PROVE  Insert(u, p, text) =
                [data |-> Replace(u.data, Idx(u, p), u.len[p], Canonical(p, text)),
                 len |-> [u.len EXCEPT ![p] = Len(text)],
                 has |-> u.has \union ({p} \intersect Optional)]
<1>1. Len(text) \in Nat /\ Len(text) \in 0 .. Len(text)
  BY TextFacts
<1>2. Len(text) % Width = Len(text)
  BY <1>1, ModFacts
<1>3. Sub(text, 1, Len(text)) = text
  BY SubSeqFull DEF Text, Sub
<1>4. From(text, Len(text)) = <<>>
  <2>1. From(text, Len(text)) \in Text /\ Len(From(text, Len(text))) = 0
    BY <1>1, FromFacts
  <2> QED
    BY <2>1, TextFacts
<1>5. Cat(Canonical(p, text), <<>>) = Canonical(p, text)
  BY CanonicalFacts, EmptyText
<1> QED
  BY <1>2, <1>3, <1>4, <1>5 DEF Insert, Sub, Cat

\* The text of a part that is set.
LEMMA SetFacts ==
    ASSUME NEW f, Holdable(f), NEW p \in Parts, NEW text \in Text, Len(text) < Width
    PROVE  /\ Holdable(Set(f, p, text)) /\ DOMAIN Set(f, p, text) = DOMAIN f \union {p}
           /\ TextOf(Set(f, p, text), p) = Canonical(p, text)
           /\ \A q \in Parts \ {p} : TextOf(Set(f, p, text), q) = TextOf(f, q)
<1>1. Canonical(p, text) \in Text /\ Len(Canonical(p, text)) = Len(text)
  BY CanonicalFacts
<1>2. /\ DOMAIN Set(f, p, text) = DOMAIN f \union {p}
      /\ Set(f, p, text)[p] = Canonical(p, text)
      /\ \A q \in DOMAIN f \ {p} : Set(f, p, text)[q] = f[q]
  BY DEF Set
<1> QED
  BY <1>1, <1>2 DEF Holdable, TextOf

\* A setter's part is set, and no other one.
LEMMA InsertIsSet ==
    ASSUME NEW f, Holdable(f), NEW p \in Parts, NEW text \in Text, Len(text) < Width
    PROVE  Insert(Built(f), p, text) = Built(Set(f, p, text)) /\ Holdable(Set(f, p, text))
<1>0. /\ Holdable(Set(f, p, text)) /\ DOMAIN Set(f, p, text) = DOMAIN f \union {p}
      /\ TextOf(Set(f, p, text), p) = Canonical(p, text)
      /\ \A q \in Parts \ {p} : TextOf(Set(f, p, text), q) = TextOf(f, q)
  BY SetFacts
<1> PICK g : g = Set(f, p, text)
  OBVIOUS
<1>1. /\ Holdable(g) /\ DOMAIN g = DOMAIN f \union {p} /\ TextOf(g, p) = Canonical(p, text)
      /\ \A q \in Parts \ {p} : TextOf(g, q) = TextOf(f, q)
  BY <1>0, Zenon
<1>2. Len(TextOf(g, p)) = Len(text)
  BY <1>1, CanonicalFacts
<1>3. /\ Replace(Built(f).data, Idx(Built(f), p), Built(f).len[p], Canonical(p, text))
           = Built(g).data
      /\ [Built(f).len EXCEPT ![p] = Len(text)] = Built(g).len
  BY <1>1, <1>2, OnePartChanged
<1>4. Built(f).has \union ({p} \intersect Optional) = Built(g).has
  BY <1>1 DEF Built
<1>5. Built(g) = [data |-> Built(g).data, len |-> Built(g).len, has |-> Built(g).has]
  BY DEF Built
<1>6. Insert(Built(f), p, text) =
        [data |-> Replace(Built(f).data, Idx(Built(f), p), Built(f).len[p], Canonical(p, text)),
         len |-> [Built(f).len EXCEPT ![p] = Len(text)],
         has |-> Built(f).has \union ({p} \intersect Optional)]
  BY InsertWhole
<1>7. Insert(Built(f), p, text)
        = [data |-> Built(g).data, len |-> Built(g).len, has |-> Built(g).has]
  BY <1>3, <1>4, <1>6
<1> QED
  BY <1>1, <1>5, <1>7

\* The parts f without p.
LEMMA WithoutIsRemoved ==
    ASSUME NEW f, Holdable(f), NEW p \in Optional
    PROVE  /\ Without(Built(f), p) = Built([q \in DOMAIN f \ {p} |-> f[q]])
           /\ Holdable([q \in DOMAIN f \ {p} |-> f[q]])
<1> PICK g : g = [q \in DOMAIN f \ {p} |-> f[q]]
  OBVIOUS
<1>1. p \in Parts /\ p \notin {"scheme", "path"}
  BY DEF Optional, Parts
<1>2. Holdable(g) /\ DOMAIN g = DOMAIN f \ {p}
  BY <1>1 DEF Holdable
<1>3. TextOf(g, p) = <<>> /\ \A q \in Parts \ {p} : TextOf(g, q) = TextOf(f, q)
  BY <1>2 DEF TextOf
<1>4. <<>> \in Text /\ Len(<<>>) = 0
  BY EmptyText
<1>5. Canonical(p, <<>>) = <<>>
  BY <1>1, <1>4, CanonicalFacts, TextFacts
<1>6. /\ Replace(Built(f).data, Idx(Built(f), p), Built(f).len[p], <<>>) = Built(g).data
      /\ [Built(f).len EXCEPT ![p] = 0] = Built(g).len
  BY <1>1, <1>2, <1>3, <1>4, OnePartChanged
<1>7. 0 < Width
  BY WidthAssumption
<1>8. Insert(Built(f), p, <<>>) = [data |-> Built(g).data, len |-> Built(g).len,
                                   has |-> Built(f).has \union ({p} \intersect Optional)]
  BY <1>1, <1>4, <1>5, <1>6, <1>7, InsertWhole
<1>9. Built(f).has \ {p} = Built(g).has
  BY <1>2 DEF Built
<1>10. Built(g) = [data |-> Built(g).data, len |-> Built(g).len, has |-> Built(g).has]
  BY DEF Built
<1>11. Without(Built(f), p) = [data |-> Built(g).data, len |-> Built(g).len,
                               has |-> Built(f).has \ {p}]
  <2> PICK i : i = Insert(Built(f), p, <<>>)
    OBVIOUS
  <2>1. Without(Built(f), p) = [data |-> i.data, len |-> i.len, has |-> Built(f).has \ {p}]
    BY DEF Without
  <2>2. i.data = Built(g).data /\ i.len = Built(g).len
    BY <1>8
  <2> QED
    BY <2>1, <2>2, Zenon
<1>12. Without(Built(f), p) = Built(g)
  BY <1>9, <1>10, <1>11
<1> QED
  BY <1>2, <1>12

\* An object without parts.
LEMMA NothingBuilt == Holdable(NoParts) /\ Built(NoParts) = NewUri
<1>1. <<>> \in Text /\ Len(<<>>) = 0 /\ Cat(<<>>, <<>>) = <<>>
  BY EmptyText
<1>2. \A p : TextOf(NoParts, p) = <<>>
  BY DEF TextOf, NoParts
<1>3. Joined(NoParts) = <<>>
  BY <1>1, <1>2 DEF Joined
<1>4. DOMAIN NoParts = {"scheme", "path"} /\ \A p \in {"scheme", "path"} : NoParts[p] = <<>>
  BY DEF NoParts, Parts, Optional
<1>5. Holdable(NoParts)
  BY <1>1, <1>4, WidthAssumption DEF Holdable, Parts
<1>6. DOMAIN NoParts \intersect Optional = {}
  BY <1>4 DEF Optional
<1> QED
  BY <1>1, <1>2, <1>3, <1>5, <1>6 DEF Built, NewUri

\* The getters return the parts.
LEMMA GetIsText ==
    ASSUME NEW f, Holdable(f), NEW p \in Parts
    PROVE  Get(Built(f), p) = TextOf(f, p)
<1>1. /\ Ahead(f, p) \in Text /\ Behind(f, p) \in Text /\ TextOf(f, p) \in Text
      /\ Joined(f) = Cat(Ahead(f, p), Cat(TextOf(f, p), Behind(f, p)))
      /\ Idx(Built(f), p) = Len(Ahead(f, p)) /\ Built(f).len[p] = Len(TextOf(f, p))
  BY BuiltFacts
<1>2. Built(f).data = Joined(f) /\ Built(f).has = DOMAIN f \intersect Optional
  BY DEF Built
<1>3. Sub(Joined(f), Len(Ahead(f, p)) + 1, Len(Ahead(f, p)) + Len(TextOf(f, p))) = TextOf(f, p)
  <2> PICK a : a = Ahead(f, p)
    OBVIOUS
  <2> PICK b : b = TextOf(f, p)
    OBVIOUS
  <2> PICK c : c = Behind(f, p)
    OBVIOUS
  <2>0. a \in Text /\ b \in Text /\ c \in Text
    BY <1>1
  <2>1. Cat(b, c) \in Text /\ Len(Cat(b, c)) = Len(b) + Len(c) /\ Len(b) \in Nat /\ Len(c) \in Nat
    BY <2>0, ConcatFacts, TextFacts
  <2>2. Len(b) \in 0 .. Len(Cat(b, c)) /\ 1 \in 1 .. Len(Cat(b, c)) + 1 /\ 0 \in 0 .. Len(c)
    BY <2>1
  <2>5. Cat(b, c) \in Text
    BY <2>1
  <2>3. Sub(Cat(a, Cat(b, c)), Len(a) + 1, Len(a) + Len(b)) = Sub(Cat(b, c), 1, Len(b))
    <3>1. /\ Len(a) + 1 \in Len(a) + 1 .. Len(a) + Len(Cat(b, c)) + 1
          /\ Len(a) + Len(b) \in Len(a) .. Len(a) + Len(Cat(b, c))
          /\ (Len(a) + 1) - Len(a) = 1 /\ (Len(a) + Len(b)) - Len(a) = Len(b)
      BY <2>0, <2>1, TextFacts
    <3>2. Sub(Cat(a, Cat(b, c)), Len(a) + 1, Len(a) + Len(b))
            = Sub(Cat(b, c), (Len(a) + 1) - Len(a), (Len(a) + Len(b)) - Len(a))
      BY <2>0, <2>5, <3>1, BehindFacts
    <3> QED
      BY <3>1, <3>2
  <2>4. Sub(Cat(b, c), 1, Len(b)) = b
    BY <2>0, <2>2, BehindFacts
  <2> QED
    BY <1>1, <2>3, <2>4
<1>4. CASE p \in Optional \ Built(f).has
  BY <1>2, <1>4 DEF Get, TextOf
<1>5. CASE p \notin Optional \ Built(f).has
  BY <1>1, <1>2, <1>3, <1>5 DEF Get, Sub
<1> QED
  BY <1>4, <1>5

-----------------------------------------------------------------------------
(* Searching a text *)

\* Numbers have a least one.
LEMMA LeastNumber ==
    ASSUME NEW S, S \subseteq Nat, S # {}
    PROVE  Min(S) \in S /\ \A n \in S : Min(S) <= n
<1>1. PICK m \in S : \A n \in S : <<n, m>> \notin OpToRel(<, Nat)
  BY NatLessThanWellFounded, WFMin, Zenon
<1>2. ASSUME NEW k \in Nat, NEW n \in Nat, <<n, k>> \notin OpToRel(<, Nat)
      PROVE  ~(n < k)
  BY <1>2 DEF OpToRel
<1>3. \A n \in S : n \in Nat /\ ~(n < m)
  BY <1>1, <1>2, Zenon
<1>4. \A n \in S : m <= n
  BY <1>3
<1>5. \E k \in S : \A n \in S : k <= n
  BY <1>4
<1> QED
  BY <1>5, Zenon DEF Min

\* How far a span goes.
LEMMA SpanFacts ==
    ASSUME NEW text \in Text, NEW stop
    PROVE  /\ Span(text, stop) \in 0 .. Len(text)
           /\ \A i \in 1 .. Span(text, stop) : text[i] \notin stop
           /\ Span(text, stop) < Len(text) => text[Span(text, stop) + 1] \in stop
<1> PICK S : S = {i \in DOMAIN text : text[i] \in stop}
  OBVIOUS
<1>1. Len(text) \in Nat /\ DOMAIN text = 1 .. Len(text)
  BY TextFacts
<1>2. S \subseteq Nat
  BY <1>1
<1>3. Span(text, stop) = IF S = {} THEN Len(text) ELSE Min(S) - 1
  BY DEF Span
<1>4. CASE S = {}
  <2>1. \A i \in 1 .. Len(text) : text[i] \notin stop
    BY <1>1, <1>4
  <2> QED
    BY <1>1, <1>3, <1>4, <2>1
<1>5. CASE S # {}
  <2>1. Min(S) \in S /\ \A n \in S : Min(S) <= n
    BY <1>2, <1>5, LeastNumber
  <2> PICK m : m = Min(S)
    OBVIOUS
  <2>2. m \in 1 .. Len(text) /\ text[m] \in stop
    BY <1>1, <2>1
  <2>3. Span(text, stop) = m - 1
    BY <1>3, <1>5
  <2>4. ASSUME NEW i \in 1 .. m - 1, text[i] \in stop PROVE FALSE
    <3>1. i \in 1 .. Len(text) /\ ~(m <= i)
      BY <1>1, <2>2
    <3>2. i \in S
      BY <1>1, <2>4, <3>1
    <3> QED
      BY <2>1, <3>1, <3>2
  <2>5. (m - 1) + 1 = m /\ m - 1 \in 0 .. Len(text)
    BY <1>1, <2>2
  <2> QED
    BY <2>2, <2>3, <2>4, <2>5
<1> QED
  BY <1>4, <1>5

\* Nothing else goes as far.
LEMMA SpanIs ==
    ASSUME NEW text \in Text, NEW stop, NEW n \in 0 .. Len(text),
           \A i \in 1 .. n : text[i] \notin stop, n < Len(text) => text[n + 1] \in stop
    PROVE  Span(text, stop) = n
<1>1. Len(text) \in Nat
  BY TextFacts
<1> PICK s : s = Span(text, stop)
  OBVIOUS
<1>2. /\ s \in 0 .. Len(text) /\ \A i \in 1 .. s : text[i] \notin stop
      /\ s < Len(text) => text[s + 1] \in stop
  BY SpanFacts
<1>3. ~(s < n)
  <2> SUFFICES ASSUME s < n PROVE FALSE
    OBVIOUS
  <2>1. s + 1 \in 1 .. n /\ s < Len(text)
    BY <1>1, <1>2
  <2> QED
    BY <1>2, <2>1
<1>4. ~(n < s)
  <2> SUFFICES ASSUME n < s PROVE FALSE
    OBVIOUS
  <2>1. n + 1 \in 1 .. s /\ n < Len(text)
    BY <1>1, <1>2
  <2> QED
    BY <1>2, <2>1
<1> QED
  BY <1>1, <1>2, <1>3, <1>4

\* A span over the whole text.
LEMMA WholeSpan ==
    ASSUME NEW text \in Text, NEW stop
    PROVE  Span(text, stop) = Len(text) <=> \A i \in 1 .. Len(text) : text[i] \notin stop
<1>1. Len(text) \in Nat /\ Len(text) \in 0 .. Len(text) /\ ~(Len(text) < Len(text))
  BY TextFacts
<1>2. /\ Span(text, stop) \in 0 .. Len(text)
      /\ \A i \in 1 .. Span(text, stop) : text[i] \notin stop
  BY SpanFacts
<1>3. ASSUME \A i \in 1 .. Len(text) : text[i] \notin stop PROVE Span(text, stop) = Len(text)
  BY <1>1, <1>3, SpanIs
<1> QED
  BY <1>2, <1>3

\* The bytes a setter stops at.
StopOf(p) ==
    CASE p = "scheme" -> Byte \ SchemeByte
      [] p = "authority" -> {Slash, Question, Hash}
      [] p = "query" -> {Hash}

\* The setters that check the text.
Checking == {"scheme", "authority", "query"}

\* They take the texts without the bytes they stop at.
LEMMA AllowedIs ==
    ASSUME NEW p \in Checking, NEW text \in Text
    PROVE  /\ Allowed(p, text) <=> \A i \in 1 .. Len(text) : text[i] \notin StopOf(p)
           /\ Accepts(p, text) <=> Span(text, StopOf(p)) % Width = Len(text)
<1>1. Len(text) \in Nat /\ DOMAIN text = 1 .. Len(text)
        /\ \A i \in 1 .. Len(text) : text[i] \in Byte
  BY TextFacts
<1>2. Range(text) = {text[i] : i \in 1 .. Len(text)}
  BY <1>1 DEF Range
<1>3. CASE p = "scheme"
  BY <1>1, <1>2, <1>3 DEF Allowed, Accepts, StopOf, parseUriScheme
<1>4. CASE p = "authority"
  BY <1>1, <1>2, <1>4 DEF Allowed, Accepts, StopOf, parseUriAuthority
<1>5. CASE p = "query"
  BY <1>1, <1>2, <1>5 DEF Allowed, Accepts, StopOf, parseUriQuery
<1> QED
  BY <1>3, <1>4, <1>5 DEF Checking

\* A setter takes what is allowed and fits.
LEMMA AcceptsFacts ==
    ASSUME NEW p \in Parts, NEW text \in Text
    PROVE  /\ Len(text) < Width => (Accepts(p, text) <=> Allowed(p, text) /\ Fits(p, text))
           /\ Len(text) >= Width => (Accepts(p, text) <=> Fits(p, text))
<1>1. Len(text) \in Nat /\ Width \in Nat
  BY TextFacts, WidthAssumption
<1>2. CASE p \in {"path", "fragment"}
  BY <1>1, <1>2 DEF Accepts, Allowed, Fits
<1>3. CASE p \in Checking
  <2> PICK s : s = Span(text, StopOf(p))
    OBVIOUS
  <2>1. s \in 0 .. Len(text)
    BY SpanFacts
  <2>2. s \in Nat /\ s <= Len(text)
    BY <1>1, <2>1
  <2>3. s % Width \in 0 .. Width - 1 /\ (s < Width <=> s % Width = s)
    BY <2>2, ModFacts
  <2>4. s = Len(text) <=> Allowed(p, text)
    BY <1>3, AllowedIs, WholeSpan
  <2>5. Accepts(p, text) <=> s % Width = Len(text)
    BY <1>3, AllowedIs
  <2>6. Fits(p, text) <=> Len(text) < Width
    BY <1>3 DEF Fits, Checking
  <2>7. Len(text) < Width => s % Width = s
    BY <1>1, <2>2, <2>3
  <2>8. Len(text) >= Width => s % Width # Len(text)
    BY <1>1, <2>2, <2>3
  <2> QED
    BY <1>1, <2>4, <2>5, <2>6, <2>7, <2>8
<1> QED
  BY <1>2, <1>3 DEF Parts, Checking

-----------------------------------------------------------------------------
(* The place of a text in a text *)

\* What is found behind a place is what is found from there on.
LEMMA RestFacts ==
    ASSUME NEW s \in Text, NEW k \in 0 .. Len(s)
    PROVE  /\ \A n \in k .. Len(s) :
                /\ From(s, n) = From(From(s, k), n - k)
                /\ \A m \in k + 1 .. Len(s) + 1 : Sub(s, m, n) = Sub(From(s, k), m - k, n - k)
           /\ \A c : \A n \in Nat : n >= k => (ByteAt(s, n, c) <=> ByteAt(From(s, k), n - k, c))
<1> PICK a : a = Sub(s, 1, k)
  OBVIOUS
<1> PICK b : b = From(s, k)
  OBVIOUS
<1>1. a \in Text /\ Len(a) = k /\ b \in Text /\ s = Cat(a, b)
  BY SplitAt
<1>2. Len(b) = Len(s) - k /\ Len(s) \in Nat
  BY FromFacts, TextFacts
<1>3. /\ \A n \in Len(a) .. Len(a) + Len(b) :
                /\ From(Cat(a, b), n) = From(b, n - Len(a))
                /\ \A m \in Len(a) + 1 .. Len(a) + Len(b) + 1 :
                        Sub(Cat(a, b), m, n) = Sub(b, m - Len(a), n - Len(a))
      /\ \A c : \A n \in Nat : n >= Len(a) => (ByteAt(Cat(a, b), n, c) <=> ByteAt(b, n - Len(a), c))
  BY <1>1, BehindFacts
<1>4. Len(a) + Len(b) = Len(s) /\ Len(a) = k /\ Cat(a, b) = s
  BY <1>1, <1>2
<1>5. ASSUME NEW n \in k .. Len(s)
      PROVE  /\ From(s, n) = From(b, n - k)
             /\ \A m \in k + 1 .. Len(s) + 1 : Sub(s, m, n) = Sub(b, m - k, n - k)
  <2>1. n \in Len(a) .. Len(a) + Len(b)
    BY <1>4
  <2>2. /\ From(Cat(a, b), n) = From(b, n - Len(a))
        /\ \A m \in Len(a) + 1 .. Len(a) + Len(b) + 1 :
                Sub(Cat(a, b), m, n) = Sub(b, m - Len(a), n - Len(a))
    BY <1>3, <2>1, Zenon
  <2> QED
    BY <1>4, <2>2
<1>6. ASSUME NEW c, NEW n \in Nat, n >= k
      PROVE  ByteAt(s, n, c) <=> ByteAt(b, n - k, c)
  <2>1. n >= Len(a)
    BY <1>4, <1>6
  <2>2. ByteAt(Cat(a, b), n, c) <=> ByteAt(b, n - Len(a), c)
    BY <1>3, <2>1, Zenon
  <2> QED
    BY <1>4, <2>2
<1> QED
  BY <1>5, <1>6

\* A byte of a text is one of its bytes.
LEMMA ByteAtFacts ==
    ASSUME NEW s \in Text, NEW n \in Nat, NEW c, ByteAt(s, n, c)
    PROVE  n < Len(s) /\ n + 1 \in 1 .. Len(s) /\ s[n + 1] = c
BY TextFacts DEF ByteAt

\* A byte before a text.
LEMMA ByteBefore ==
    ASSUME NEW c \in Byte, NEW s \in Text
    PROVE  /\ <<c>> \in Text /\ Len(<<c>>) = 1 /\ <<c>>[1] = c
           /\ Cat(<<c>>, s) \in Text /\ Len(Cat(<<c>>, s)) = 1 + Len(s) /\ Cat(<<c>>, s)[1] = c
           /\ \A i \in 1 .. Len(s) : Cat(<<c>>, s)[1 + i] = s[i]
<1>1. <<c>> \in Text /\ Len(<<c>>) = 1 /\ <<c>>[1] = c
  BY DEF Text
<1>2. ASSUME NEW a \in Text, Len(a) = 1, a[1] = c
      PROVE  /\ Cat(a, s) \in Text /\ Len(Cat(a, s)) = 1 + Len(s) /\ Cat(a, s)[1] = c
             /\ \A i \in 1 .. Len(s) : Cat(a, s)[1 + i] = s[i]
  <2>1. /\ Cat(a, s) \in Text /\ Len(Cat(a, s)) = Len(a) + Len(s)
        /\ \A i \in 1 .. Len(a) : Cat(a, s)[i] = a[i]
        /\ \A i \in 1 .. Len(s) : Cat(a, s)[Len(a) + i] = s[i]
    BY ConcatFacts
  <2>2. 1 \in 1 .. Len(a)
    BY <1>2
  <2> QED
    BY <1>2, <2>1, <2>2
<1> QED
  BY <1>1, <1>2, Zenon

\* One byte, and a text that begins with it.
LEMMA OneByte ==
    ASSUME NEW c \in Byte, NEW s \in Text
    PROVE  /\ <<c>> \in Text /\ Len(<<c>>) = 1
           /\ Cat(<<c>>, s) \in Text /\ Len(Cat(<<c>>, s)) = Len(s) + 1
           /\ From(Cat(<<c>>, s), 1) = s /\ Cat(<<c>>, s)[1] = c
           /\ \A d : ByteAt(Cat(<<c>>, s), 0, d) <=> d = c
<1>1. <<c>> \in Text /\ Len(<<c>>) = 1 /\ <<c>>[1] = c
  BY DEF Text
<1>2. Cat(<<c>>, s) \in Text /\ Len(Cat(<<c>>, s)) = 1 + Len(s) /\ Len(s) \in Nat
  BY <1>1, ConcatFacts, TextFacts
<1>3. Cat(<<c>>, s)[1] = c
  BY ByteBefore
<1>4. From(Cat(<<c>>, s), 1) = s
  <2> PICK a : a = <<c>>
    OBVIOUS
  <2>1. a \in Text /\ 1 \in Len(a) .. Len(a) + Len(s) /\ 1 - Len(a) = 0
    BY <1>1, <1>2
  <2>2. From(Cat(a, s), 1) = From(s, 1 - Len(a))
    BY <2>1, BehindFacts
  <2>3. From(s, 0) = s
    BY SubSeqFull DEF From, Text
  <2> QED
    BY <2>1, <2>2, <2>3
<1>5. \A d : ByteAt(Cat(<<c>>, s), 0, d) <=> d = c
  BY <1>2, <1>3 DEF ByteAt
<1> QED
  BY <1>1, <1>2, <1>3, <1>4, <1>5

\* The span of a text that ends where another one begins.
LEMMA SpanOfCat ==
    ASSUME NEW a \in Text, NEW b \in Text, NEW stop,
           \A i \in 1 .. Len(a) : a[i] \notin stop, b = <<>> \/ b[1] \in stop
    PROVE  Span(Cat(a, b), stop) = Len(a)
<1>1. Len(a) \in Nat /\ Len(b) \in Nat /\ (b = <<>> <=> Len(b) = 0)
  BY TextFacts
<1>2. /\ Cat(a, b) \in Text /\ Len(Cat(a, b)) = Len(a) + Len(b)
      /\ \A i \in 1 .. Len(a) : Cat(a, b)[i] = a[i]
      /\ \A i \in 1 .. Len(b) : Cat(a, b)[Len(a) + i] = b[i]
  BY ConcatFacts
<1>3. Len(a) \in 0 .. Len(Cat(a, b))
  BY <1>1, <1>2
<1>4. \A i \in 1 .. Len(a) : Cat(a, b)[i] \notin stop
  BY <1>2
<1>5. Len(a) < Len(Cat(a, b)) => Cat(a, b)[Len(a) + 1] \in stop
  BY <1>1, <1>2
<1>6. Cat(a, b) \in Text
  BY <1>2
<1> QED
  BY <1>3, <1>4, <1>5, <1>6, SpanIs

\* A text is cut at the end of a span.
LEMMA CutFacts ==
    ASSUME NEW text \in Text, NEW c
    PROVE  LET n == Span(text, {c})
           IN  IF n = Len(text)
                   THEN Cut(text, c) = <<text>> /\ \A i \in 1 .. Len(text) : text[i] # c
               ELSE /\ n \in 0 .. Len(text) - 1 /\ text[n + 1] = c
                    /\ Cut(text, c) = <<Sub(text, 1, n), From(text, n + 1)>>
<1> PICK S : S = {i \in DOMAIN text : text[i] = c}
  OBVIOUS
<1> PICK n : n = Span(text, {c})
  OBVIOUS
<1>1. Len(text) \in Nat /\ DOMAIN text = 1 .. Len(text)
  BY TextFacts
<1>2. S = {i \in DOMAIN text : text[i] \in {c}}
  OBVIOUS
<1>3. n = IF S = {} THEN Len(text) ELSE Min(S) - 1
  BY <1>2 DEF Span
<1>4. Cut(text, c) = IF S = {} THEN <<text>> ELSE <<Sub(text, 1, Min(S) - 1), From(text, Min(S))>>
  BY DEF Cut, Sub
<1>5. n \in 0 .. Len(text) /\ (n < Len(text) => text[n + 1] \in {c})
      /\ \A i \in 1 .. n : text[i] \notin {c}
  BY SpanFacts
<1>6. CASE S = {}
  <2>1. n = Len(text) /\ Cut(text, c) = <<text>>
    BY <1>3, <1>4, <1>6
  <2> QED
    BY <1>5, <2>1
<1>7. CASE S # {}
  <2>1. Min(S) \in S
    BY <1>1, <1>7, LeastNumber
  <2> PICK m : m = Min(S)
    OBVIOUS
  <2>2. m \in 1 .. Len(text) /\ n = m - 1 /\ n + 1 = m
    BY <1>1, <1>3, <1>7, <2>1
  <2>3. n \in 0 .. Len(text) - 1 /\ n # Len(text)
    BY <1>1, <2>2
  <2>4. Cut(text, c) = <<Sub(text, 1, n), From(text, n + 1)>>
    BY <1>4, <1>7, <2>2
  <2> QED
    BY <1>5, <2>3, <2>4
<1> QED
  BY <1>6, <1>7

-----------------------------------------------------------------------------
(* The steps of parse() look at the rest of the text *)

\* How far the functions count that look for the end of a part.
LEMMA CountFacts ==
    ASSUME NEW s \in Text, NEW stop
    PROVE  Span(s, stop) % Width \in 0 .. Len(s)
<1>1. Span(s, stop) \in Nat /\ Span(s, stop) <= Len(s) /\ Len(s) \in Nat
  BY SpanFacts, TextFacts
<1>2. Span(s, stop) % Width \in 0 .. Width - 1 /\ Span(s, stop) % Width <= Span(s, stop)
  BY <1>1, ModFacts
<1>3. Width \in Nat
  BY WidthAssumption
<1> QED
  BY <1>1, <1>2, <1>3

\* The rest of a rest.
LEMMA RestOfRest ==
    ASSUME NEW s \in Text, NEW k \in 0 .. Len(s), NEW j \in 0 .. Len(s) - k
    PROVE  From(s, k + j) = From(From(s, k), j)
<1>1. k + j \in k .. Len(s) /\ (k + j) - k = j
  BY TextFacts
<1>2. From(s, k + j) = From(From(s, k), (k + j) - k)
  BY <1>1, RestFacts
<1> QED
  BY <1>1, <1>2

\* A byte of it.
LEMMA ByteOfRest ==
    ASSUME NEW s \in Text, NEW k \in 0 .. Len(s), NEW j \in Nat, NEW c
    PROVE  ByteAt(s, k + j, c) <=> ByteAt(From(s, k), j, c)
<1>1. k + j \in Nat /\ k + j >= k /\ (k + j) - k = j
  BY TextFacts
<1>2. ByteAt(s, k + j, c) <=> ByteAt(From(s, k), (k + j) - k, c)
  BY <1>1, RestFacts
<1> QED
  BY <1>1, <1>2

\* A part of it.
LEMMA SubOfRest ==
    ASSUME NEW s \in Text, NEW k \in 0 .. Len(s), NEW j \in 0 .. Len(s) - k,
           NEW i \in 1 .. Len(s) - k + 1
    PROVE  Sub(s, k + i, k + j) = Sub(From(s, k), i, j)
<1>1. /\ k + j \in k .. Len(s) /\ (k + j) - k = j
      /\ k + i \in k + 1 .. Len(s) + 1 /\ (k + i) - k = i
  BY TextFacts
<1>2. Sub(s, k + i, k + j) = Sub(From(s, k), (k + i) - k, (k + j) - k)
  BY <1>1, RestFacts
<1> QED
  BY <1>1, <1>2

\* The fragment.
LEMMA FragmentRest ==
    ASSUME NEW u, NEW s \in Text, NEW k \in 0 .. Len(s)
    PROVE  ParsedFragment(u, s, k) = ParsedFragment(u, From(s, k), 0)
<1>1. Len(s) \in Nat /\ k \in Nat /\ k + 0 = k /\ 0 + 1 = 1
  BY TextFacts
<1>2. ByteAt(s, k, Hash) <=> ByteAt(From(s, k), 0, Hash)
  <2>1. ByteAt(s, k + 0, Hash) <=> ByteAt(From(s, k), 0, Hash)
    BY ByteOfRest
  <2> QED
    BY <1>1, <2>1
<1>3. ByteAt(s, k, Hash) => From(s, k + 1) = From(From(s, k), 1)
  <2> HAVE ByteAt(s, k, Hash)
  <2>1. 1 \in 0 .. Len(s) - k
    BY <1>1 DEF ByteAt
  <2> QED
    BY <2>1, RestOfRest
<1> QED
  BY <1>1, <1>2, <1>3 DEF ParsedFragment

\* The query, and the fragment behind it.
LEMMA QueryRest ==
    ASSUME NEW u, NEW s \in Text, NEW k \in 0 .. Len(s)
    PROVE  ParsedQuery(u, s, k) = ParsedQuery(u, From(s, k), 0)
<1> PICK r : r = From(s, k)
  OBVIOUS
<1>1. Len(s) \in Nat /\ k \in Nat /\ k + 0 = k /\ r \in Text /\ Len(r) = Len(s) - k
  BY TextFacts, FromFacts
<1>2. ByteAt(s, k, Question) <=> ByteAt(r, 0, Question)
  <2>1. ByteAt(s, k + 0, Question) <=> ByteAt(From(s, k), 0, Question)
    BY ByteOfRest
  <2> QED
    BY <1>1, <2>1
<1>3. CASE ~ByteAt(s, k, Question)
  <2>1. ParsedFragment(u, s, k) = ParsedFragment(u, r, 0)
    BY FragmentRest
  <2> QED
    BY <1>2, <1>3, <2>1 DEF ParsedQuery
<1>4. CASE ByteAt(s, k, Question)
  <2>1. 1 \in 0 .. Len(s) - k /\ 1 \in 0 .. Len(r) /\ k + 1 \in 0 .. Len(s)
    BY <1>1, <1>4 DEF ByteAt
  <2>2. From(s, k + 1) = From(r, 1)
    BY <2>1, RestOfRest
  <2> PICK n : n = parseUriQuery(From(r, 1))
    OBVIOUS
  <2>3. From(r, 1) \in Text /\ Len(From(r, 1)) = Len(r) - 1
    BY <1>1, <2>1, FromFacts
  <2>4. n \in 0 .. Len(From(r, 1))
    BY <2>3, CountFacts DEF parseUriQuery
  <2>5. /\ 1 + n \in 0 .. Len(s) - k /\ 1 + n \in 0 .. Len(r) /\ 2 \in 1 .. Len(s) - k + 1
        /\ k + 1 + n \in 0 .. Len(s) /\ k + (1 + n) = k + 1 + n
    BY <1>1, <2>1, <2>3, <2>4
  <2>6. Sub(s, k + 2, k + 1 + n) = Sub(r, 2, 1 + n)
    <3>1. Sub(s, k + 2, k + (1 + n)) = Sub(From(s, k), 2, 1 + n)
      BY <2>5, SubOfRest
    <3> QED
      BY <2>5, <3>1
  <2>7. From(s, k + 1 + n) = From(r, 1 + n)
    <3>1. From(s, k + (1 + n)) = From(From(s, k), 1 + n)
      BY <2>5, RestOfRest
    <3> QED
      BY <2>5, <3>1
  <2> PICK v : v = Insert(u, "query", Sub(r, 2, 1 + n))
    OBVIOUS
  <2>8. ParsedFragment(v, s, k + 1 + n) = ParsedFragment(v, From(s, k + 1 + n), 0)
    BY <2>5, FragmentRest
  <2>9. ParsedFragment(v, r, 1 + n) = ParsedFragment(v, From(r, 1 + n), 0)
    BY <1>1, <2>5, FragmentRest
  <2>10. ParsedQuery(u, s, k) = ParsedFragment(v, s, k + 1 + n)
    BY <1>4, <2>2, <2>6 DEF ParsedQuery, Sub
  <2>11. ParsedQuery(u, r, 0) = ParsedFragment(v, r, 1 + n)
    <3>1. 0 + 1 = 1 /\ 0 + 2 = 2 /\ 0 + 1 + n = 1 + n
      BY <2>5
    <3> QED
      BY <1>2, <1>4, <3>1 DEF ParsedQuery, Sub
  <2> QED
    BY <2>7, <2>8, <2>9, <2>10, <2>11
<1> QED
  BY <1>3, <1>4

\* The path, and what is behind it.
LEMMA PathRest ==
    ASSUME NEW u, NEW s \in Text, NEW k \in 0 .. Len(s)
    PROVE  ParsedPath(u, s, k) = ParsedPath(u, From(s, k), 0)
<1> PICK r : r = From(s, k)
  OBVIOUS
<1>1. Len(s) \in Nat /\ k \in Nat /\ k + 0 = k /\ r \in Text /\ Len(r) = Len(s) - k
  BY TextFacts, FromFacts
<1>2. ByteAt(s, k, Slash) <=> ByteAt(r, 0, Slash)
  <2>1. ByteAt(s, k + 0, Slash) <=> ByteAt(From(s, k), 0, Slash)
    BY ByteOfRest
  <2> QED
    BY <1>1, <2>1
<1>3. k >= Len(s) <=> 0 >= Len(r)
  BY <1>1
<1>4. 0 \in 0 .. Len(r) /\ From(r, 0) = r
  BY <1>1, SubSeqFull DEF From, Text
<1> PICK n : n = parseUriPath(r)
  OBVIOUS
<1>5. n \in 0 .. Len(r)
  BY <1>1, CountFacts DEF parseUriPath
<1>6. n \in 0 .. Len(s) - k /\ 1 \in 1 .. Len(s) - k + 1 /\ k + n \in 0 .. Len(s)
  BY <1>1, <1>5
<1>7. Sub(s, k + 1, k + n) = Sub(r, 1, n)
  BY <1>6, SubOfRest
<1>8. From(s, k + n) = From(r, n)
  BY <1>6, RestOfRest
<1> PICK v : v = Insert(u, "path", decode(Sub(r, 1, n)))
  OBVIOUS
<1>9. ParsedQuery(v, s, k + n) = ParsedQuery(v, From(s, k + n), 0)
  BY <1>6, QueryRest
<1>10. ParsedQuery(v, r, n) = ParsedQuery(v, From(r, n), 0)
  BY <1>1, <1>5, QueryRest
<1>11. ParsedPath(u, s, k) =
            IF k >= Len(s) THEN u ELSE IF "authority" \in u.has /\ ~ByteAt(s, k, Slash) THEN NewUri
            ELSE ParsedQuery(v, s, k + n)
  BY <1>7 DEF ParsedPath, Sub
<1>12. ParsedPath(u, r, 0) =
            IF 0 >= Len(r) THEN u ELSE IF "authority" \in u.has /\ ~ByteAt(r, 0, Slash) THEN NewUri
            ELSE ParsedQuery(v, r, n)
  <2>1. 0 + 1 = 1 /\ 0 + n = n
    BY <1>5
  <2> QED
    BY <1>4, <2>1 DEF ParsedPath, Sub
<1> QED
  BY <1>2, <1>3, <1>8, <1>9, <1>10, <1>11, <1>12

\* The authority, and what is behind it.
LEMMA AuthorityRest ==
    ASSUME NEW u, NEW s \in Text, NEW k \in 0 .. Len(s)
    PROVE  ParsedAuthority(u, s, k) = ParsedAuthority(u, From(s, k), 0)
<1> PICK r : r = From(s, k)
  OBVIOUS
<1>1. Len(s) \in Nat /\ k \in Nat /\ k + 0 = k /\ r \in Text /\ Len(r) = Len(s) - k
  BY TextFacts, FromFacts
<1> DEFINE Marked(t, i) == ByteAt(t, i, Slash) /\ ByteAt(t, i + 1, Slash)
<1>2. Marked(s, k) <=> Marked(r, 0)
  <2>1. ByteAt(s, k + 0, Slash) <=> ByteAt(From(s, k), 0, Slash)
    BY ByteOfRest
  <2>2. ByteAt(s, k + 1, Slash) <=> ByteAt(From(s, k), 1, Slash)
    BY ByteOfRest
  <2> QED
    BY <1>1, <2>1, <2>2
<1>3. CASE ~Marked(s, k)
  <2>1. ParsedPath(u, s, k) = ParsedPath(u, r, 0)
    BY PathRest
  <2> QED
    BY <1>2, <1>3, <2>1 DEF ParsedAuthority
<1>4. CASE Marked(s, k)
  <2>1. 2 \in 0 .. Len(s) - k /\ 2 \in 0 .. Len(r) /\ k + 2 \in 0 .. Len(s)
    BY <1>1, <1>4 DEF ByteAt
  <2>2. From(s, k + 2) = From(r, 2)
    BY <2>1, RestOfRest
  <2> PICK n : n = parseUriAuthority(From(r, 2))
    OBVIOUS
  <2>3. From(r, 2) \in Text /\ Len(From(r, 2)) = Len(r) - 2
    BY <1>1, <2>1, FromFacts
  <2>4. n \in 0 .. Len(From(r, 2))
    BY <2>3, CountFacts DEF parseUriAuthority
  <2>5. /\ 2 + n \in 0 .. Len(s) - k /\ 2 + n \in 0 .. Len(r) /\ 3 \in 1 .. Len(s) - k + 1
        /\ k + 2 + n \in 0 .. Len(s) /\ k + (2 + n) = k + 2 + n
    <3>1. n \in 0 .. Len(r) - 2
      BY <2>3, <2>4, Zenon
    <3> QED
      BY <1>1, <2>1, <3>1
  <2>6. Sub(s, k + 3, k + 2 + n) = Sub(r, 3, 2 + n)
    <3>1. Sub(s, k + 3, k + (2 + n)) = Sub(From(s, k), 3, 2 + n)
      BY <2>5, SubOfRest
    <3> QED
      BY <2>5, <3>1
  <2>7. From(s, k + 2 + n) = From(r, 2 + n)
    <3>1. From(s, k + (2 + n)) = From(From(s, k), 2 + n)
      BY <2>5, RestOfRest
    <3> QED
      BY <2>5, <3>1
  <2> PICK v : v = Insert(u, "authority", Sub(r, 3, 2 + n))
    OBVIOUS
  <2>8. ParsedPath(v, s, k + 2 + n) = ParsedPath(v, From(s, k + 2 + n), 0)
    BY <2>5, PathRest
  <2>9. ParsedPath(v, r, 2 + n) = ParsedPath(v, From(r, 2 + n), 0)
    BY <1>1, <2>5, PathRest
  <2>10. ParsedAuthority(u, s, k) = ParsedPath(v, s, k + 2 + n)
    BY <1>4, <2>2, <2>6 DEF ParsedAuthority, Sub
  <2>11. ParsedAuthority(u, r, 0) = ParsedPath(v, r, 2 + n)
    <3>1. 0 + 2 = 2 /\ 0 + 3 = 3 /\ 0 + 2 + n = 2 + n
      BY <2>5
    <3> QED
      BY <1>2, <1>4, <3>1 DEF ParsedAuthority, Sub
  <2> QED
    BY <2>7, <2>8, <2>9, <2>10, <2>11
<1> QED
  BY <1>3, <1>4

-----------------------------------------------------------------------------
(* parse() on a text that is put together from parts *)

\* t is empty or begins with one of these bytes.
Opens(t, bytes) == t = <<>> \/ t[1] \in bytes

\* No byte of t is one of these.
Free(t, bytes) == \A i \in 1 .. Len(t) : t[i] \notin bytes

\* The first byte of a text.
LEMMA FirstByte ==
    ASSUME NEW t \in Text, NEW c
    PROVE  /\ ByteAt(t, 0, c) <=> t # <<>> /\ t[1] = c
           /\ t # <<>> => Len(t) \in Nat \ {0}
BY TextFacts DEF ByteAt

\* From the beginning.
LEMMA FromZero ==
    ASSUME NEW t \in Text
    PROVE  From(t, 0) = t /\ From(t, Len(t)) = <<>>
<1>1. From(t, 0) = t
  BY SubSeqFull DEF From, Text
<1>2. Len(t) \in 0 .. Len(t) /\ Len(t) - Len(t) = 0
  BY TextFacts
<1>3. From(t, Len(t)) \in Text /\ Len(From(t, Len(t))) = Len(t) - Len(t)
  BY <1>2, FromFacts
<1>4. From(t, Len(t)) = <<>>
  BY <1>2, <1>3, TextFacts
<1> QED
  BY <1>1, <1>4

\* The beginning and the rest of two texts.
LEMMA CatParts ==
    ASSUME NEW a \in Text, NEW b \in Text
    PROVE  Sub(Cat(a, b), 1, Len(a)) = a /\ From(Cat(a, b), Len(a)) = b
<1>1. Len(a) \in Len(a) .. Len(a) + Len(b) /\ Len(a) - Len(a) = 0
  BY TextFacts
<1>2. Sub(Cat(a, b), 1, Len(a)) = a /\ From(Cat(a, b), Len(a)) = From(b, Len(a) - Len(a))
  BY <1>1, BehindFacts
<1> QED
  BY <1>1, <1>2, FromZero

\* The end of a part that its length can count is found.
LEMMA CountOfPart ==
    ASSUME NEW a \in Text, NEW b \in Text, NEW stop, Free(a, stop), Opens(b, stop), Len(a) < Width
    PROVE  Span(Cat(a, b), stop) % Width = Len(a)
<1>1. Span(Cat(a, b), stop) = Len(a)
  BY SpanOfCat DEF Free, Opens
<1>2. Len(a) \in Nat
  BY TextFacts
<1> QED
  BY <1>1, <1>2, ModFacts

\* That of a longer part is found inside it.
LEMMA CountOfLongPart ==
    ASSUME NEW a \in Text, NEW b \in Text, NEW stop, Free(a, stop), Opens(b, stop), Len(a) >= Width
    PROVE  LET n == Span(Cat(a, b), stop) % Width
           IN  n \in 0 .. Len(a) - 1 /\ Cat(a, b)[n + 1] = a[n + 1]
<1> PICK n : n = Span(Cat(a, b), stop) % Width
  OBVIOUS
<1>1. Span(Cat(a, b), stop) = Len(a)
  BY SpanOfCat DEF Free, Opens
<1>2. Len(a) \in Nat /\ Width \in Nat
  BY TextFacts, WidthAssumption
<1>3. n \in 0 .. Width - 1
  BY <1>1, <1>2, ModFacts
<1>4. n \in 0 .. Len(a) - 1 /\ n + 1 \in 1 .. Len(a)
  BY <1>2, <1>3
<1>5. Cat(a, b)[n + 1] = a[n + 1]
  BY <1>4, ConcatFacts
<1> QED
  BY <1>4, <1>5

\* The fragment is behind its mark.
LEMMA FragmentIs ==
    ASSUME NEW u, NEW t \in Text
    PROVE  /\ ParsedFragment(u, Cat(<<Hash>>, t), 0) = Insert(u, "fragment", t)
           /\ ParsedFragment(u, <<>>, 0) = u
<1>1. Hash \in Byte
  BY DEF Hash, Byte
<1>2. ByteAt(Cat(<<Hash>>, t), 0, Hash) /\ From(Cat(<<Hash>>, t), 1) = t
  BY <1>1, OneByte
<1>3. ~ByteAt(<<>>, 0, Hash)
  BY EmptyText DEF ByteAt
<1>4. 0 + 1 = 1
  OBVIOUS
<1> QED
  BY <1>2, <1>3, <1>4 DEF ParsedFragment

\* The query is between its mark and the fragment.
LEMMA QueryIs ==
    ASSUME NEW u, NEW q \in Text, NEW r \in Text,
           Free(q, {Hash}), Opens(r, {Hash}), Len(q) < Width
    PROVE  ParsedQuery(u, Cat(<<Question>>, Cat(q, r)), 0)
                = ParsedFragment(Insert(u, "query", q), r, 0)
<1> PICK t : t = Cat(q, r)
  OBVIOUS
<1> PICK s : s = Cat(<<Question>>, t)
  OBVIOUS
<1>1. t \in Text /\ Len(t) = Len(q) + Len(r) /\ Len(q) \in Nat /\ Len(r) \in Nat
  BY ConcatFacts, TextFacts
<1>2. Question \in Byte
  BY DEF Question, Byte
<1>3. s \in Text /\ Len(s) = Len(t) + 1 /\ From(s, 1) = t /\ ByteAt(s, 0, Question)
  BY <1>1, <1>2, OneByte
<1>4. parseUriQuery(t) = Len(q)
  BY CountOfPart DEF parseUriQuery
<1>5. Sub(s, 2, 1 + Len(q)) = q
  <2>1. /\ 1 \in 0 .. Len(s) /\ Len(q) \in 0 .. Len(s) - 1 /\ 1 \in 1 .. Len(s) - 1 + 1 /\ 1 + 1 = 2
    BY <1>1, <1>3
  <2>2. Sub(s, 1 + 1, 1 + Len(q)) = Sub(From(s, 1), 1, Len(q))
    BY <1>3, <2>1, SubOfRest
  <2>3. Sub(t, 1, Len(q)) = q
    BY CatParts
  <2> QED
    BY <1>3, <2>1, <2>2, <2>3
<1>6. From(s, 1 + Len(q)) = r
  <2>1. 1 \in 0 .. Len(s) /\ Len(q) \in 0 .. Len(s) - 1
    BY <1>1, <1>3
  <2>2. From(s, 1 + Len(q)) = From(From(s, 1), Len(q))
    BY <1>3, <2>1, RestOfRest
  <2>3. From(t, Len(q)) = r
    BY CatParts
  <2> QED
    BY <1>3, <2>2, <2>3
<1> PICK v : v = Insert(u, "query", q)
  OBVIOUS
<1>7. ParsedQuery(u, s, 0) = ParsedFragment(v, s, 1 + Len(q))
  <2>1. 0 + 1 = 1 /\ 0 + 2 = 2 /\ 0 + 1 + Len(q) = 1 + Len(q)
    BY <1>1
  <2> QED
    BY <1>3, <1>4, <1>5, <2>1 DEF ParsedQuery, Sub
<1>8. ParsedFragment(v, s, 1 + Len(q)) = ParsedFragment(v, From(s, 1 + Len(q)), 0)
  <2>1. 1 + Len(q) \in 0 .. Len(s)
    BY <1>1, <1>3
  <2> QED
    BY <1>3, <2>1, FragmentRest
<1> QED
  BY <1>6, <1>7, <1>8

\* No query.
LEMMA NoQuery ==
    ASSUME NEW u, NEW r \in Text, Opens(r, {Hash})
    PROVE  ParsedQuery(u, r, 0) = ParsedFragment(u, r, 0)
<1>1. ~ByteAt(r, 0, Question)
  BY FirstByte DEF Opens, Hash, Question
<1> QED
  BY <1>1 DEF ParsedQuery

\* The path is ahead of the query and the fragment.
LEMMA PathIs ==
    ASSUME NEW u, NEW p \in Text, NEW r \in Text,
           Free(p, {Question, Hash}), Opens(r, {Question, Hash}), Len(p) < Width
    PROVE  ParsedPath(u, Cat(p, r), 0) =
                IF Cat(p, r) = <<>> THEN u
                ELSE IF "authority" \in u.has /\ ~ByteAt(Cat(p, r), 0, Slash) THEN NewUri
                ELSE ParsedQuery(Insert(u, "path", decode(p)), r, 0)
<1> PICK s : s = Cat(p, r)
  OBVIOUS
<1>1. s \in Text /\ Len(s) = Len(p) + Len(r) /\ Len(p) \in Nat /\ Len(r) \in Nat
  BY ConcatFacts, TextFacts
<1>2. From(s, 0) = s
  BY <1>1, FromZero
<1>3. parseUriPath(s) = Len(p)
  BY CountOfPart DEF parseUriPath
<1>4. Sub(s, 1, Len(p)) = p /\ From(s, Len(p)) = r
  BY CatParts
<1>5. 0 >= Len(s) <=> s = <<>>
  BY <1>1, TextFacts
<1> PICK v : v = Insert(u, "path", decode(p))
  OBVIOUS
<1>6. ParsedPath(u, s, 0) =
            IF 0 >= Len(s) THEN u ELSE IF "authority" \in u.has /\ ~ByteAt(s, 0, Slash) THEN NewUri
            ELSE ParsedQuery(v, s, Len(p))
  <2>1. 0 + 1 = 1 /\ 0 + Len(p) = Len(p)
    BY <1>1
  <2> QED
    BY <1>2, <1>3, <1>4, <2>1 DEF ParsedPath, Sub
<1>7. ParsedQuery(v, s, Len(p)) = ParsedQuery(v, From(s, Len(p)), 0)
  <2>1. Len(p) \in 0 .. Len(s)
    BY <1>1
  <2> QED
    BY <1>1, <2>1, QueryRest
<1> QED
  BY <1>4, <1>5, <1>6, <1>7

\* Two slashes.
Slashes(t) == Cat(<<Slash>>, Cat(<<Slash>>, t))

\* A text behind them.
LEMMA SlashesFacts ==
    ASSUME NEW t \in Text
    PROVE  /\ Slashes(t) \in Text /\ Len(Slashes(t)) = Len(t) + 2 /\ From(Slashes(t), 2) = t
           /\ ByteAt(Slashes(t), 0, Slash) /\ ByteAt(Slashes(t), 1, Slash)
<1> PICK s : s = Cat(<<Slash>>, t)
  OBVIOUS
<1>1. Slash \in Byte
  BY DEF Slash, Byte
<1>2. s \in Text /\ Len(s) = Len(t) + 1 /\ From(s, 1) = t /\ ByteAt(s, 0, Slash)
  BY <1>1, OneByte
<1>3. /\ Cat(<<Slash>>, s) \in Text /\ Len(Cat(<<Slash>>, s)) = Len(s) + 1
      /\ From(Cat(<<Slash>>, s), 1) = s /\ ByteAt(Cat(<<Slash>>, s), 0, Slash)
  BY <1>1, <1>2, OneByte
<1> PICK w : w = Cat(<<Slash>>, s)
  OBVIOUS
<1>4. Len(t) \in Nat /\ Len(w) = Len(t) + 2
  BY <1>2, <1>3, TextFacts
<1>5. 1 \in 0 .. Len(w) /\ 1 \in 0 .. Len(w) - 1 /\ 0 \in Nat /\ 1 + 1 = 2 /\ 1 + 0 = 1
  BY <1>4
<1>6. From(w, 1 + 1) = From(From(w, 1), 1)
  BY <1>3, <1>5, RestOfRest
<1>7. ByteAt(w, 1 + 0, Slash) <=> ByteAt(From(w, 1), 0, Slash)
  BY <1>3, <1>5, ByteOfRest
<1> QED
  BY <1>2, <1>3, <1>4, <1>5, <1>6, <1>7 DEF Slashes

\* The authority is between two slashes and the path, the query or the fragment.
LEMMA AuthorityIs ==
    ASSUME NEW u, NEW a \in Text, NEW r \in Text,
           Free(a, {Slash, Question, Hash}), Opens(r, {Slash, Question, Hash})
    PROVE  ParsedAuthority(u, Slashes(Cat(a, r)), 0) =
                IF Len(a) < Width THEN ParsedPath(Insert(u, "authority", a), r, 0) ELSE NewUri
<1> PICK t : t = Cat(a, r)
  OBVIOUS
<1> PICK s : s = Slashes(t)
  OBVIOUS
<1>1. t \in Text /\ Len(t) = Len(a) + Len(r) /\ Len(a) \in Nat /\ Len(r) \in Nat
  BY ConcatFacts, TextFacts
<1>2. /\ s \in Text /\ Len(s) = Len(t) + 2 /\ From(s, 2) = t
      /\ ByteAt(s, 0, Slash) /\ ByteAt(s, 1, Slash)
  BY <1>1, SlashesFacts
<1> PICK n : n = parseUriAuthority(t)
  OBVIOUS
<1>3. n = Span(t, {Slash, Question, Hash}) % Width
  BY DEF parseUriAuthority
<1>4. n \in 0 .. Len(t)
  BY <1>1, <1>3, CountFacts
<1> PICK v : v = Insert(u, "authority", Sub(s, 3, 2 + n))
  OBVIOUS
<1>5. ParsedAuthority(u, s, 0) = ParsedPath(v, s, 2 + n)
  <2>1. 0 + 1 = 1 /\ 0 + 2 = 2 /\ 0 + 3 = 3 /\ 0 + 2 + n = 2 + n
    BY <1>4
  <2> QED
    BY <1>2, <2>1 DEF ParsedAuthority, Sub
<1>6. /\ 2 \in 0 .. Len(s) /\ n \in 0 .. Len(s) - 2 /\ 1 \in 1 .. Len(s) - 2 + 1
      /\ 2 + n \in 0 .. Len(s) /\ 2 + 1 = 3
  BY <1>1, <1>2, <1>4
<1>7. From(s, 2 + n) = From(t, n)
  BY <1>2, <1>6, RestOfRest
<1>8. Sub(s, 3, 2 + n) = Sub(t, 1, n)
  <2>1. Sub(s, 2 + 1, 2 + n) = Sub(From(s, 2), 1, n)
    BY <1>2, <1>6, SubOfRest
  <2> QED
    BY <1>2, <1>6, <2>1
<1>9. ParsedPath(v, s, 2 + n) = ParsedPath(v, From(t, n), 0)
  BY <1>2, <1>6, <1>7, PathRest
<1>10. CASE Len(a) < Width
  <2>1. n = Len(a)
    BY <1>3, <1>10, CountOfPart
  <2>2. Sub(t, 1, n) = a /\ From(t, n) = r
    BY <2>1, CatParts
  <2> QED
    BY <1>5, <1>8, <1>9, <1>10, <2>2
<1>11. CASE ~(Len(a) < Width)
  <2>1. Len(a) >= Width
    BY <1>1, <1>11, WidthAssumption
  <2>2. n \in 0 .. Len(a) - 1 /\ t[n + 1] = a[n + 1]
    BY <1>3, <2>1, CountOfLongPart
  <2>3. n + 1 \in 1 .. Len(a) /\ n < Len(t)
    BY <1>1, <2>2
  <2>4. t[n + 1] # Slash
    BY <2>2, <2>3 DEF Free
  <2>5. ~ByteAt(t, n, Slash)
    BY <2>4 DEF ByteAt
  <2>6. ~ByteAt(From(t, n), 0, Slash) /\ ~(0 >= Len(From(t, n)))
    <3>1. n \in Nat /\ n + 0 = n
      BY <1>4
    <3>2. ByteAt(t, n + 0, Slash) <=> ByteAt(From(t, n), 0, Slash)
      BY <1>1, <1>4, ByteOfRest
    <3>3. Len(From(t, n)) = Len(t) - n
      BY <1>1, <1>4, FromFacts
    <3> QED
      BY <1>1, <2>3, <2>5, <3>1, <3>2, <3>3
  <2>7. "authority" \in v.has
    BY DEF Insert, Optional
  <2>8. ParsedPath(v, From(t, n), 0) = NewUri
    BY <2>6, <2>7 DEF ParsedPath
  <2> QED
    BY <1>5, <1>9, <1>11, <2>8
<1> QED
  BY <1>10, <1>11

\* No authority.
LEMMA NoAuthority ==
    ASSUME NEW u, NEW r \in Text, ~(ByteAt(r, 0, Slash) /\ ByteAt(r, 1, Slash))
    PROVE  ParsedAuthority(u, r, 0) = ParsedPath(u, r, 0)
<1>1. 0 + 1 = 1
  OBVIOUS
<1> QED
  BY <1>1 DEF ParsedAuthority

\* The scheme is ahead of the colon.
LEMMA SchemeIs ==
    ASSUME NEW c \in Text, c # <<>>, Free(c, Byte \ SchemeByte), NEW r \in Text
    PROVE  parse(Cat(c, Cat(<<Colon>>, r))) =
                IF Len(c) < Width THEN ParsedAuthority(Insert(NewUri, "scheme", c), r, 0)
                        ELSE NewUri
<1> PICK t : t = Cat(<<Colon>>, r)
  OBVIOUS
<1> PICK s : s = Cat(c, t)
  OBVIOUS
<1>1. Colon \in Byte /\ Colon \in Byte \ SchemeByte
  BY DEF Colon, Byte, SchemeByte, Alnum, Digit, Upper, Lower
<1>2. t \in Text /\ Len(t) = Len(r) + 1 /\ From(t, 1) = r /\ t[1] = Colon /\ ByteAt(t, 0, Colon)
  BY <1>1, OneByte
<1>3. s \in Text /\ Len(s) = Len(c) + Len(t) /\ Len(c) \in Nat /\ Len(t) \in Nat /\ Len(r) \in Nat
  BY <1>2, ConcatFacts, TextFacts
<1>4. Len(c) # 0
  BY TextFacts
<1> PICK n : n = parseUriScheme(s)
  OBVIOUS
<1>5. n = Span(s, Byte \ SchemeByte) % Width
  BY DEF parseUriScheme
<1>6. Opens(t, Byte \ SchemeByte) /\ t \in Text
  BY <1>1, <1>2 DEF Opens
<1>7. parse(s) = IF n = 0 \/ ~ByteAt(s, n, Colon) THEN NewUri
                 ELSE ParsedAuthority(Insert(NewUri, "scheme", Sub(s, 1, n)), s, n + 1)
  BY DEF parse, Sub
<1>8. CASE Len(c) < Width
  <2>1. n = Len(c)
    BY <1>5, <1>6, <1>8, CountOfPart
  <2>2. Sub(s, 1, n) = c /\ From(s, n) = t
    BY <1>6, <2>1, CatParts
  <2>3. n \in 0 .. Len(s) /\ n \in Nat /\ n + 0 = n /\ n # 0 /\ 1 \in 0 .. Len(s) - n
          /\ n + 1 \in 0 .. Len(s)
    BY <1>2, <1>3, <1>4, <2>1
  <2>4. ByteAt(s, n, Colon)
    <3>1. ByteAt(s, n + 0, Colon) <=> ByteAt(From(s, n), 0, Colon)
      BY <1>3, <2>3, ByteOfRest
    <3> QED
      BY <1>2, <2>2, <2>3, <3>1
  <2>5. From(s, n + 1) = r
    <3>1. From(s, n + 1) = From(From(s, n), 1)
      BY <1>3, <2>3, RestOfRest
    <3> QED
      BY <1>2, <2>2, <3>1
  <2> PICK v : v = Insert(NewUri, "scheme", c)
    OBVIOUS
  <2>6. ParsedAuthority(v, s, n + 1) = ParsedAuthority(v, From(s, n + 1), 0)
    BY <1>3, <2>3, AuthorityRest
  <2> QED
    BY <1>7, <1>8, <2>2, <2>3, <2>4, <2>5, <2>6
<1>9. CASE ~(Len(c) < Width)
  <2>1. Len(c) >= Width
    BY <1>3, <1>9, WidthAssumption
  <2>2. n \in 0 .. Len(c) - 1 /\ s[n + 1] = c[n + 1]
    BY <1>5, <1>6, <2>1, CountOfLongPart
  <2>3. n + 1 \in 1 .. Len(c)
    BY <1>3, <2>2
  <2>4. s[n + 1] # Colon
    BY <1>1, <2>2, <2>3 DEF Free
  <2>5. ~ByteAt(s, n, Colon)
    BY <2>4 DEF ByteAt
  <2> QED
    BY <1>7, <1>9, <2>5
<1> QED
  BY <1>8, <1>9

-----------------------------------------------------------------------------
(* Texts put together *)

\* Induction, for a set: its smallest exception would not be one.
LEMMA SetInduction ==
    ASSUME NEW T, 0 \in T, \A n \in Nat : n \in T => n + 1 \in T
    PROVE  Nat \subseteq T
<1> SUFFICES ASSUME Nat \ T # {} PROVE FALSE
  OBVIOUS
<1> PICK X : X = Nat \ T
  OBVIOUS
<1>1. X \subseteq Nat /\ X # {}
  OBVIOUS
<1>2. PICK m \in X : \A n \in X : <<n, m>> \notin OpToRel(<, Nat)
  BY <1>1, NatLessThanWellFounded, WFMin, Zenon
<1>3. ASSUME NEW k \in Nat, NEW n \in Nat, <<n, k>> \notin OpToRel(<, Nat)
      PROVE  ~(n < k)
  BY <1>3 DEF OpToRel
<1>4. m \in Nat /\ m \notin T /\ \A n \in Nat : n \notin T => ~(n < m)
  <2>1. \A n \in X : n \in Nat /\ ~(n < m)
    BY <1>1, <1>2, <1>3, Zenon
  <2> QED
    BY <2>1
<1>5. m # 0 /\ m - 1 \in Nat /\ m - 1 < m /\ (m - 1) + 1 = m
  BY <1>4
<1> QED
  BY <1>4, <1>5

\* The length and the elements of a sequence.
LEMMA SeqFacts ==
    ASSUME NEW Q, NEW s \in Seq(Q)
    PROVE  /\ Len(s) \in Nat /\ DOMAIN s = 1 .. Len(s)
           /\ \A i \in 1 .. Len(s) : s[i] \in Q
           /\ s # <<>> <=> Len(s) # 0
OBVIOUS

\* And with one more.
LEMMA AppendFacts ==
    ASSUME NEW Q, NEW s \in Seq(Q), NEW x \in Q
    PROVE  /\ Append(s, x) \in Seq(Q) /\ Len(Append(s, x)) = Len(s) + 1
           /\ Append(s, x)[Len(s) + 1] = x /\ Append(s, x) # <<>>
           /\ \A i \in 1 .. Len(s) : Append(s, x)[i] = s[i]
OBVIOUS

\* f is the concatenation of the first n of the sequences, for each n.
Joins(s, f) ==
    /\ DOMAIN f = 1 .. Len(s)
    /\ \A i \in 1 .. Len(s) : f[i] = IF i = 1 THEN s[i] ELSE f[i - 1] \o s[i]

\* The same for the first k of them.
JoinsUpto(s, k, f) ==
    \A i \in 1 .. k : f[i] = IF i = 1 THEN s[i] ELSE f[i - 1] \o s[i]
HasJoins(S, s, k) == \E f \in [1 .. k -> Seq(S)] : JoinsUpto(s, k, f)

\* There is one concatenation of them all.
LEMMA JoinsExists ==
    ASSUME NEW S, NEW s \in Seq(Seq(S))
    PROVE  \E f \in [1 .. Len(s) -> Seq(S)] : Joins(s, f)
<1> PICK n : n = Len(s)
  OBVIOUS
<1>1. n \in Nat /\ \A i \in 1 .. n : s[i] \in Seq(S)
  BY SeqFacts
<1> DEFINE T == {k \in Nat : k <= n => HasJoins(S, s, k)}
<1>2. 0 \in T
  <2>1. \E f : f \in [1 .. 0 -> Seq(S)]
    <3>1. [i \in 1 .. 0 |-> <<>>] \in [1 .. 0 -> Seq(S)]
      OBVIOUS
    <3> QED
      BY <3>1
  <2>2. \A f : JoinsUpto(s, 0, f)
    BY DEF JoinsUpto
  <2>3. HasJoins(S, s, 0)
    BY <2>1, <2>2 DEF HasJoins
  <2> QED
    BY <2>3
<1>3. ASSUME NEW k \in Nat, k <= n => HasJoins(S, s, k), k + 1 <= n
      PROVE  HasJoins(S, s, k + 1)
  <2>1. k <= n
    BY <1>1, <1>3
  <2>2. PICK f \in [1 .. k -> Seq(S)] : JoinsUpto(s, k, f)
    BY <1>3, <2>1 DEF HasJoins
  <2> PICK last : last = IF k = 0 THEN s[1] ELSE f[k] \o s[k + 1]
    OBVIOUS
  <2> PICK g : g = [i \in 1 .. k + 1 |-> IF i = k + 1 THEN last ELSE f[i]]
    OBVIOUS
  <2>3. last \in Seq(S)
    <3>1. k # 0 => f[k] \in Seq(S) /\ s[k + 1] \in Seq(S)
      BY <1>1, <1>3
    <3>2. k # 0 => f[k] \o s[k + 1] \in Seq(S)
      BY <3>1
    <3>3. k = 0 => s[1] \in Seq(S)
      BY <1>1, <1>3
    <3> QED
      BY <3>2, <3>3
  <2>4. \A i \in 1 .. k : i \in 1 .. k + 1 /\ i # k + 1 /\ (i # 1 => i - 1 \in 1 .. k)
    OBVIOUS
  <2>5. \A i \in 1 .. k : g[i] = f[i]
    BY <2>4
  <2>6. \A i \in 1 .. k : i # 1 => g[i - 1] = f[i - 1]
    BY <2>4, <2>5
  <2>7. g[k + 1] = last /\ k + 1 \in 1 .. k + 1
    OBVIOUS
  <2>8. k # 0 => g[k] = f[k]
    BY <2>5
  <2>9. \A i \in 1 .. k : g[i] = IF i = 1 THEN s[i] ELSE g[i - 1] \o s[i]
    BY <2>2, <2>5, <2>6 DEF JoinsUpto
  <2>10. (k + 1) - 1 = k /\ (k + 1 = 1 <=> k = 0)
    OBVIOUS
  <2>11. g[k + 1] = IF k + 1 = 1 THEN s[k + 1] ELSE g[(k + 1) - 1] \o s[k + 1]
    BY <2>7, <2>8, <2>10
  <2>12. \A i \in 1 .. k + 1 : i \in 1 .. k \/ i = k + 1
    OBVIOUS
  <2>13. JoinsUpto(s, k + 1, g)
    BY <2>9, <2>11, <2>12, Zenon DEF JoinsUpto
  <2>14. g \in [1 .. k + 1 -> Seq(S)]
    <3>1. \A i \in 1 .. k + 1 : g[i] \in Seq(S)
      BY <2>3, <2>5, <2>7, <2>12
    <3> QED
      BY <3>1
  <2> QED
    BY <2>13, <2>14 DEF HasJoins
<1>4. Nat \subseteq T
  <2>1. \A k \in Nat : k \in T => k + 1 \in T
    BY <1>3
  <2> HIDE DEF T
  <2> QED
    BY <1>2, <2>1, SetInduction
<1>5. HasJoins(S, s, n)
  BY <1>1, <1>4
<1> QED
  BY <1>5 DEF HasJoins, JoinsUpto, Joins

\* The sequences s are the first of the sequences t.
Begins(s, t) ==
    /\ Len(s) \in Nat /\ Len(t) \in Nat /\ Len(s) <= Len(t)
    /\ \A i \in 1 .. Len(s) : s[i] = t[i]

Same(s, f, g) == \A i \in 1 .. Len(s) : f[i] = g[i]

\* And no other: of sequences that begin alike the concatenations begin alike.
LEMMA JoinsAgree ==
    \A s, t, f, g : Begins(s, t) /\ Joins(s, f) /\ Joins(t, g) => Same(s, f, g)
<1> SUFFICES ASSUME NEW s, NEW t, NEW f, NEW g, Begins(s, t), Joins(s, f), Joins(t, g)
             PROVE  \A i \in 1 .. Len(s) : f[i] = g[i]
  BY DEF Same
<1> USE DEF Begins
<1> PICK n : n = Len(s)
  OBVIOUS
<1> DEFINE T == {k \in Nat : k \in 1 .. n => f[k] = g[k]}
<1>1. 0 \in T
  OBVIOUS
<1>2. ASSUME NEW k \in Nat, k \in T PROVE k + 1 \in T
  <2> SUFFICES ASSUME k + 1 \in 1 .. n PROVE f[k + 1] = g[k + 1]
    OBVIOUS
  <2>1. k # 0 => f[k] = g[k]
    BY <1>2
  <2>2. k + 1 \in 1 .. Len(s) /\ k + 1 \in 1 .. Len(t) /\ s[k + 1] = t[k + 1]
    OBVIOUS
  <2>3. /\ f[k + 1] = IF k + 1 = 1 THEN s[k + 1] ELSE f[(k + 1) - 1] \o s[k + 1]
        /\ g[k + 1] = IF k + 1 = 1 THEN t[k + 1] ELSE g[(k + 1) - 1] \o t[k + 1]
    BY <2>2 DEF Joins
  <2>4. (k + 1) - 1 = k
    OBVIOUS
  <2> QED
    BY <2>1, <2>2, <2>3, <2>4
<1>3. Nat \subseteq T
  <2> HIDE DEF T
  <2> QED
    BY <1>1, <1>2, SetInduction
<1> QED
  BY <1>3

\* FlattenSeq is the last of them.
LEMMA FlattenIsJoin ==
    ASSUME NEW S, NEW s \in Seq(Seq(S)), s # <<>>, NEW f, Joins(s, f)
    PROVE  FlattenSeq(s) = f[Len(s)]
<1> DEFINE flatten == CHOOSE g : g = [i \in 1 .. Len(s) |->
                            IF i = 1 THEN s[i] ELSE g[i - 1] \o s[i]]
<1>1. Len(s) \in Nat /\ Len(s) # 0
  OBVIOUS
<1>2. FlattenSeq(s) = flatten[Len(s)]
  BY <1>1 DEF FlattenSeq
<1>3. PICK h \in [1 .. Len(s) -> Seq(S)] : Joins(s, h)
  BY JoinsExists
<1>4. h = [i \in 1 .. Len(s) |-> IF i = 1 THEN s[i] ELSE h[i - 1] \o s[i]]
  BY <1>3 DEF Joins
<1>5. flatten = [i \in 1 .. Len(s) |-> IF i = 1 THEN s[i] ELSE flatten[i - 1] \o s[i]]
  BY <1>4
<1> HIDE DEF flatten
<1>6. Joins(s, flatten)
  BY <1>5 DEF Joins
<1>7. \A i \in 1 .. Len(s) : flatten[i] = f[i]
  <2>1. Begins(s, s)
    BY <1>1 DEF Begins
  <2> QED
    BY <1>6, <2>1, JoinsAgree DEF Same
<1> QED
  BY <1>1, <1>2, <1>7

\* What is put together from sequences is one.
LEMMA FlattenType ==
    ASSUME NEW S, NEW s \in Seq(Seq(S))
    PROVE  FlattenSeq(s) \in Seq(S)
<1>1. CASE s = <<>>
  BY <1>1 DEF FlattenSeq
<1>2. CASE s # <<>>
  <2>1. PICK f \in [1 .. Len(s) -> Seq(S)] : Joins(s, f)
    BY JoinsExists
  <2>2. FlattenSeq(s) = f[Len(s)]
    BY <1>2, <2>1, FlattenIsJoin
  <2>3. Len(s) \in 1 .. Len(s)
    BY <1>2, SeqFacts
  <2> QED
    BY <2>1, <2>2, <2>3
<1> QED
  BY <1>1, <1>2

\* One more sequence at the end of the sequences.
LEMMA FlattenFacts ==
    ASSUME NEW S, NEW s \in Seq(Seq(S)), NEW x \in Seq(S)
    PROVE  /\ FlattenSeq(s) \in Seq(S)
           /\ FlattenSeq(Append(s, x)) = FlattenSeq(s) \o x
<1> PICK n : n = Len(s)
  OBVIOUS
<1> PICK t : t = Append(s, x)
  OBVIOUS
<1>1. /\ n \in Nat /\ t \in Seq(Seq(S)) /\ Len(t) = n + 1 /\ t[n + 1] = x /\ t # <<>>
      /\ \A i \in 1 .. n : t[i] = s[i]
  BY SeqFacts, AppendFacts
<1>2. PICK g \in [1 .. n + 1 -> Seq(S)] : Joins(t, g)
  BY <1>1, JoinsExists
<1>3. FlattenSeq(t) = g[n + 1]
  BY <1>1, <1>2, FlattenIsJoin
<1>4. CASE s = <<>>
  <2>1. n = 0 /\ FlattenSeq(s) = <<>>
    BY <1>4 DEF FlattenSeq
  <2>2. g[n + 1] = x
    BY <1>1, <1>2, <2>1 DEF Joins
  <2> QED
    BY <1>3, <2>1, <2>2
<1>5. CASE s # <<>>
  <2>1. PICK f \in [1 .. n -> Seq(S)] : Joins(s, f)
    BY JoinsExists
  <2>2. FlattenSeq(s) = f[n] /\ n \in 1 .. n
    BY <1>1, <1>5, <2>1, FlattenIsJoin
  <2>3. \A i \in 1 .. n : f[i] = g[i]
    <3>1. Begins(s, t)
      BY <1>1 DEF Begins
    <3>2. Same(s, f, g)
      BY <1>2, <2>1, <3>1, JoinsAgree
    <3> QED
      BY <3>2, Zenon DEF Same
  <2>4. g[n + 1] = g[n] \o x
    <3>1. n + 1 \in 1 .. Len(t) /\ n + 1 # 1 /\ (n + 1) - 1 = n
      BY <1>1, <2>2
    <3>2. g[n + 1] = g[(n + 1) - 1] \o t[n + 1]
      BY <1>2, <3>1 DEF Joins
    <3> QED
      BY <1>1, <3>1, <3>2
  <2> QED
    BY <1>3, <2>1, <2>2, <2>3, <2>4
<1> QED
  BY <1>4, <1>5

\* Texts of no more than one byte are together no longer than they are many.
LEMMA FlattenShort ==
    ASSUME NEW s \in Seq(Text), \A i \in 1 .. Len(s) : Len(s[i]) <= 1
    PROVE  FlattenSeq(s) \in Text /\ Len(FlattenSeq(s)) <= Len(s)
<1>1. FlattenSeq(s) \in Text
  BY FlattenType DEF Text
<1>2. CASE s = <<>>
  <2>1. FlattenSeq(s) = <<>> /\ Len(<<>>) = 0
    BY <1>2 DEF FlattenSeq
  <2> QED
    BY <1>1, <1>2, <2>1
<1>3. CASE s # <<>>
  <2>1. PICK f \in [1 .. Len(s) -> Text] : Joins(s, f)
    BY JoinsExists DEF Text
  <2>2. FlattenSeq(s) = f[Len(s)]
    BY <1>3, <2>1, FlattenIsJoin DEF Text
  <2>3. Len(s) \in Nat \ {0} /\ \A i \in 1 .. Len(s) : s[i] \in Text
    BY <1>3, SeqFacts
  <2> PICK n : n = Len(s)
    OBVIOUS
  <2> DEFINE T == {k \in Nat : k \in 1 .. n => Len(f[k]) <= k}
  <2>4. 0 \in T
    OBVIOUS
  <2>5. ASSUME NEW k \in Nat, k \in T PROVE k + 1 \in T
    <3> SUFFICES ASSUME k + 1 \in 1 .. n PROVE Len(f[k + 1]) <= k + 1
      OBVIOUS
    <3>1. s[k + 1] \in Text /\ Len(s[k + 1]) <= 1 /\ Len(s[k + 1]) \in Nat
      BY <2>3, TextFacts
    <3>2. CASE k = 0
      <4>1. 1 \in 1 .. Len(s) /\ k + 1 = 1
        BY <2>3, <3>2
      <4>2. f[1] = s[1]
        BY <2>1, <4>1 DEF Joins
      <4> QED
        BY <3>1, <4>1, <4>2
    <3>3. CASE k # 0
      <4>0. \A x, y \in Nat : x <= k /\ y <= 1 => x + y <= k + 1
        OBVIOUS
      <4>1. k \in 1 .. n /\ k + 1 # 1 /\ (k + 1) - 1 = k
        BY <2>3, <3>3
      <4>2. f[k] \in Text /\ Len(f[k]) <= k
        BY <2>1, <2>5, <4>1
      <4>3. f[k + 1] = Cat(f[k], s[k + 1])
        BY <2>1, <4>1 DEF Joins, Cat
      <4>4. Len(Cat(f[k], s[k + 1])) = Len(f[k]) + Len(s[k + 1]) /\ Len(f[k]) \in Nat
        BY <3>1, <4>2, ConcatFacts, TextFacts
      <4> PICK a : a = Len(f[k])
        OBVIOUS
      <4> PICK b : b = Len(s[k + 1])
        OBVIOUS
      <4>5. Len(f[k + 1]) = a + b
        <5>1. Len(f[k + 1]) = Len(Cat(f[k], s[k + 1]))
          BY <4>3
        <5> QED
          BY <4>4, <5>1, Zenon
      <4>6. a \in Nat /\ b \in Nat /\ a <= k /\ b <= 1
        BY <3>1, <4>2, <4>4
      <4>7. a + b <= k + 1
        BY <4>0, <4>6
      <4> QED
        BY <4>5, <4>7, Zenon
    <3> QED
      BY <3>2, <3>3
  <2>6. Nat \subseteq T
    <3> HIDE DEF T
    <3> QED
      BY <2>4, <2>5, SetInduction
  <2>7. n \in 1 .. n
    BY <2>3
  <2> QED
    BY <1>1, <2>2, <2>3, <2>6, <2>7
<1> QED
  BY <1>2, <1>3

-----------------------------------------------------------------------------
(* Escapes *)

\* E are the escapes of the first n bytes of a text: the marks in M that are not
\* in one that began before.
Skips(n, M, E) ==
    /\ E \subseteq 1 .. n
    /\ \A i \in 1 .. n : i \in E <=> i \in M /\ i - 1 \notin E /\ i - 2 \notin E

\* There are such escapes.
LEMMA SkipsExist ==
    ASSUME NEW n \in Nat, NEW M
    PROVE  \E E : Skips(n, M, E)
<1> DEFINE T == {k \in Nat : \E E : Skips(k, M, E)}
<1>1. 0 \in T
  <2>1. Skips(0, M, {})
    BY DEF Skips
  <2> QED
    BY <2>1
<1>2. ASSUME NEW k \in Nat, k \in T PROVE k + 1 \in T
  <2>1. PICK E : Skips(k, M, E)
    BY <1>2
  <2> PICK more : more <=> k + 1 \in M /\ (k + 1) - 1 \notin E /\ (k + 1) - 2 \notin E
    OBVIOUS
  <2> PICK D : D = IF more THEN E \union {k + 1} ELSE E
    OBVIOUS
  <2>2. E \subseteq 1 .. k
    BY <2>1 DEF Skips
  <2>3. D \subseteq 1 .. k + 1 /\ k + 1 \notin E /\ \A j : j # k + 1 => (j \in D <=> j \in E)
    BY <2>2
  <2>4. k + 1 \in D <=> more
    BY <2>3
  <2>5. (k + 1) - 1 # k + 1 /\ (k + 1) - 2 # k + 1
    OBVIOUS
  <2>6. ASSUME NEW i \in 1 .. k + 1
        PROVE  i \in D <=> i \in M /\ i - 1 \notin D /\ i - 2 \notin D
    <3>1. CASE i = k + 1
      <4>1. (i - 1 \in D <=> (k + 1) - 1 \in E) /\ (i - 2 \in D <=> (k + 1) - 2 \in E)
        BY <2>3, <2>5, <3>1
      <4> QED
        BY <2>4, <3>1, <4>1
    <3>2. CASE i # k + 1
      <4>1. i \in 1 .. k /\ i - 1 # k + 1 /\ i - 2 # k + 1
        BY <3>2
      <4>2. i \in E <=> i \in M /\ i - 1 \notin E /\ i - 2 \notin E
        BY <2>1, <4>1 DEF Skips
      <4> QED
        BY <2>3, <3>2, <4>1, <4>2
    <3> QED
      BY <3>1, <3>2
  <2>7. Skips(k + 1, M, D)
    BY <2>3, <2>6 DEF Skips
  <2> QED
    BY <2>7
<1>3. Nat \subseteq T
  <2> HIDE DEF T
  <2> QED
    BY <1>1, <1>2, SetInduction
<1> QED
  BY <1>3

\* And no others.
LEMMA SkipsAgree ==
    ASSUME NEW n \in Nat, NEW M, NEW D, Skips(n, M, D), NEW E, Skips(n, M, E)
    PROVE  D = E
<1> PICK X : X = {i \in 1 .. n : ~(i \in D <=> i \in E)}
  OBVIOUS
<1>1. X = {}
  <2> SUFFICES ASSUME X # {} PROVE FALSE
    OBVIOUS
  <2>1. Min(X) \in X /\ \A i \in X : Min(X) <= i
    BY LeastNumber
  <2> PICK m : m = Min(X)
    OBVIOUS
  <2>2. m \in 1 .. n /\ ~(m \in D <=> m \in E) /\ \A i \in 1 .. n : i < m => (i \in D <=> i \in E)
    BY <2>1
  <2>3. D \subseteq 1 .. n /\ E \subseteq 1 .. n
    BY DEF Skips
  <2>4. (m - 1 \in D <=> m - 1 \in E) /\ (m - 2 \in D <=> m - 2 \in E)
    <3>1. m - 1 < m /\ m - 2 < m
      BY <2>2
    <3> QED
      BY <2>2, <2>3, <3>1
  <2>5. /\ m \in D <=> m \in M /\ m - 1 \notin D /\ m - 2 \notin D
        /\ m \in E <=> m \in M /\ m - 1 \notin E /\ m - 2 \notin E
    BY <2>2 DEF Skips
  <2> QED
    BY <2>2, <2>4, <2>5
<1>2. D \subseteq 1 .. n /\ E \subseteq 1 .. n
  BY DEF Skips
<1> QED
  BY <1>1, <1>2

\* The marks of a text.
Marks(text) == {i \in 1 .. Len(text) : IsEscape(text, i)}

\* A set, as a table, is what a loop makes of it.
LEMMA SetAsTable ==
    ASSUME NEW text, NEW n \in Nat, NEW E, NEW h, h = [i \in 1 .. n |-> i \in E],
           \A i \in 1 .. n :
                i \in E <=> IsEscape(text, i) /\ (i > 1 => ~h[i - 1]) /\ (i > 2 => ~h[i - 2])
    PROVE  h = [i \in 1 .. n |->
                  IsEscape(text, i) /\ (i > 1 => ~h[i - 1]) /\ (i > 2 => ~h[i - 2])]
  BY SMT

\* So the loops over a text have a result.
LEMMA EscapesTable ==
    ASSUME NEW text \in Text
    PROVE  \E h : h = [i \in 1 .. Len(text) |->
                IsEscape(text, i) /\ (i > 1 => ~h[i - 1]) /\ (i > 2 => ~h[i - 2])]
<1> PICK n : n = Len(text)
  OBVIOUS
<1>0. n \in Nat
  BY TextFacts
<1> PICK E : Skips(n, Marks(text), E)
  BY <1>0, SkipsExist
<1> PICK h : h = [i \in 1 .. n |-> i \in E]
  OBVIOUS
<1>1. E \subseteq 1 .. n
  BY DEF Skips
<1>2. ASSUME NEW i \in 1 .. n
      PROVE  i \in E <=> (IsEscape(text, i) /\ (i > 1 => ~h[i - 1]) /\ (i > 2 => ~h[i - 2]))
  <2>1. i \in E <=> IsEscape(text, i) /\ i - 1 \notin E /\ i - 2 \notin E
    BY DEF Skips, Marks
  <2>2. i > 1 => i - 1 \in 1 .. n
    OBVIOUS
  <2>3. i > 2 => i - 2 \in 1 .. n
    OBVIOUS
  <2>4. ~(i > 1) => i - 1 \notin E
    BY <1>1
  <2>5. ~(i > 2) => i - 2 \notin E
    BY <1>1
  <2>6. (i > 1 => ~h[i - 1]) <=> i - 1 \notin E
    BY <2>2, <2>4
  <2>7. (i > 2 => ~h[i - 2]) <=> i - 2 \notin E
    BY <2>3, <2>5
  <2> QED
    BY <2>1, <2>6, <2>7, Zenon
<1>3. h = [i \in 1 .. n |->
                IsEscape(text, i) /\ (i > 1 => ~h[i - 1]) /\ (i > 2 => ~h[i - 2])]
  BY <1>0, <1>2, SetAsTable
<1> QED
  BY <1>3, Zenon

\* The loops over a text find exactly these.
LEMMA EscapesFacts ==
    ASSUME NEW text \in Text
    PROVE  /\ Skips(Len(text), Marks(text), Escapes(text))
           /\ Escapes(text) \subseteq Marks(text)
<1> PICK n : n = Len(text)
  OBVIOUS
<1>1. n \in Nat /\ DOMAIN text = 1 .. n
  BY TextFacts
<1> DEFINE starts == CHOOSE g : g = [i \in 1 .. Len(text) |->
                IsEscape(text, i) /\ (i > 1 => ~g[i - 1]) /\ (i > 2 => ~g[i - 2])]
<1>2. Escapes(text) = {i \in DOMAIN text : starts[i]}
  BY DEF Escapes
<1>4. \E h : h = [i \in 1 .. Len(text) |->
                IsEscape(text, i) /\ (i > 1 => ~h[i - 1]) /\ (i > 2 => ~h[i - 2])]
  BY EscapesTable, Zenon
<1>5. starts = [i \in 1 .. Len(text) |->
                IsEscape(text, i) /\ (i > 1 => ~starts[i - 1]) /\ (i > 2 => ~starts[i - 2])]
  BY <1>4
<1> HIDE DEF starts
<1>6. Skips(n, Marks(text), Escapes(text))
  <2> PICK D : D = Escapes(text)
    OBVIOUS
  <2>1. D \subseteq 1 .. n /\ \A i \in 1 .. n : i \in D <=> starts[i]
    BY <1>1, <1>2
  <2>2. ASSUME NEW i \in 1 .. n
        PROVE  i \in D <=> i \in Marks(text) /\ i - 1 \notin D /\ i - 2 \notin D
    <3>1. starts[i] = (IsEscape(text, i) /\ (i > 1 => ~starts[i - 1]) /\ (i > 2 => ~starts[i - 2]))
      BY <1>5, Zenon
    <3>2. i \in Marks(text) <=> IsEscape(text, i)
      BY DEF Marks
    <3>3. i > 1 => i - 1 \in 1 .. n
      BY <1>1
    <3>4. i > 2 => i - 2 \in 1 .. n
      BY <1>1
    <3>5. ~(i > 1) => i - 1 \notin D
      BY <2>1
    <3>6. ~(i > 2) => i - 2 \notin D
      BY <2>1
    <3>7. (i > 1 => ~starts[i - 1]) <=> i - 1 \notin D
      BY <2>1, <3>3, <3>5
    <3>8. (i > 2 => ~starts[i - 2]) <=> i - 2 \notin D
      BY <2>1, <3>4, <3>6
    <3> QED
      BY <2>1, <3>1, <3>2, <3>7, <3>8, Zenon
  <2> QED
    BY <2>1, <2>2 DEF Skips
<1>7. Escapes(text) \subseteq Marks(text)
  BY <1>6 DEF Skips
<1> QED
  BY <1>6, <1>7

-----------------------------------------------------------------------------
(* Decoding *)

\* Two hexadecimal digits are a byte.
LEMMA HexFacts ==
    ASSUME NEW c \in HexDigit, NEW d \in HexDigit
    PROVE  16 * HexValue(c) + HexValue(d) \in Byte
<1>1. \A e \in HexDigit : HexValue(e) \in 0 .. 15
  BY DEF HexDigit, HexValue, toUpper, Digit, Lower
<1>2. \A x, y \in 0 .. 15 : 16 * x + y \in Byte
  BY DEF Byte
<1> HIDE DEF Byte
<1> QED
  BY <1>1, <1>2

\* What decode() returns is a text, and no longer than what it was given.
LEMMA DecodeFacts ==
    ASSUME NEW text \in Text
    PROVE  decode(text) \in Text /\ Len(decode(text)) <= Len(text)
<1>1. Len(text) \in Nat /\ DOMAIN text = 1 .. Len(text)
        /\ \A i \in 1 .. Len(text) : text[i] \in Byte
  BY TextFacts
<1>2. CASE \E i \in Escapes(text) : {text[i + 1], text[i + 2]} \ HexDigit # {}
  <2>1. decode(text) = <<>> /\ <<>> \in Text /\ Len(<<>>) = 0
    BY <1>2 DEF decode, Text
  <2> QED
    BY <1>1, <2>1
<1>3. CASE ~\E i \in Escapes(text) : {text[i + 1], text[i + 2]} \ HexDigit # {}
  <2> DEFINE Piece(i) ==
        CASE i \in Escapes(text) -> <<16 * HexValue(text[i + 1]) + HexValue(text[i + 2])>>
          [] InEscape(text, i) -> <<>>
          [] OTHER -> <<text[i]>>
  <2>1. ASSUME NEW i \in 1 .. Len(text)
        PROVE  Piece(i) \in Text /\ Len(Piece(i)) <= 1
    <3>1. CASE i \in Escapes(text)
      <4>0. ~InEscape(text, i)
        BY <3>1, EscapesFacts DEF Skips, InEscape
      <4>1. text[i + 1] \in HexDigit /\ text[i + 2] \in HexDigit
        BY <1>3, <3>1
      <4>2. 16 * HexValue(text[i + 1]) + HexValue(text[i + 2]) \in Byte
        BY <4>1, HexFacts
      <4>3. Piece(i) = <<16 * HexValue(text[i + 1]) + HexValue(text[i + 2])>>
        BY <3>1, <4>0
      <4> QED
        BY <4>2, <4>3 DEF Text
    <3>2. CASE i \notin Escapes(text) /\ InEscape(text, i)
      <4>1. Piece(i) = <<>>
        BY <3>2
      <4> QED
        BY <4>1 DEF Text
    <3>3. CASE i \notin Escapes(text) /\ ~InEscape(text, i)
      <4>1. Piece(i) = <<text[i]>> /\ text[i] \in Byte
        BY <1>1, <3>3
      <4> QED
        BY <4>1 DEF Text
    <3> QED
      BY <3>1, <3>2, <3>3
  <2> DEFINE each == [i \in DOMAIN text |-> Piece(i)]
  <2>2. decode(text) = FlattenSeq(each)
    <3> DEFINE Bad == \E i \in Escapes(text) : {text[i + 1], text[i + 2]} \ HexDigit # {}
    <3>1. decode(text) = IF Bad THEN <<>> ELSE FlattenSeq(each)
      BY DEF decode
    <3>2. ~Bad
      BY <1>3
    <3> HIDE DEF Bad, each
    <3> QED
      BY <3>1, <3>2
  <2> HIDE DEF Piece
  <2>3. each \in Seq(Text) /\ Len(each) = Len(text) /\ \A i \in 1 .. Len(text) : each[i] = Piece(i)
    BY <1>1, <2>1
  <2>4. \A i \in 1 .. Len(each) : Len(each[i]) <= 1
    BY <2>1, <2>3
  <2> HIDE DEF each
  <2>5. FlattenSeq(each) \in Text /\ Len(FlattenSeq(each)) <= Len(each)
    BY <2>3, <2>4, FlattenShort
  <2> QED
    BY <2>2, <2>3, <2>5
<1> QED
  BY <1>2, <1>3

-----------------------------------------------------------------------------
(* The parts never reach over the end of the string *)

\* The bytes that the lengths count.
Counted(u) ==
    u.len["scheme"] + u.len["authority"] + u.len["path"] + u.len["query"] + u.len["fragment"]

\* An object whose parts are in its string.
Shape(u) ==
    /\ u.data \in Text /\ u.has \subseteq Optional
    /\ \A p \in Parts : u.len[p] \in Nat
    /\ DOMAIN u.len = Parts
    /\ Counted(u) <= Len(u.data)

\* Where a part is.
LEMMA PlaceFacts ==
    ASSUME NEW u, Shape(u), NEW p \in Parts
    PROVE  Idx(u, p) \in Nat /\ u.len[p] \in Nat /\ Idx(u, p) + u.len[p] <= Counted(u)
<1>1. /\ u.len["scheme"] \in Nat /\ u.len["authority"] \in Nat /\ u.len["path"] \in Nat
      /\ u.len["query"] \in Nat /\ u.len["fragment"] \in Nat
  BY DEF Shape, Parts
<1>2. CASE p = "scheme"
  BY <1>1, <1>2 DEF Idx, Counted
<1>3. CASE p = "authority"
  BY <1>1, <1>3 DEF Idx, Counted
<1>4. CASE p = "path"
  BY <1>1, <1>4 DEF Idx, Counted
<1>5. CASE p = "query"
  BY <1>1, <1>5 DEF Idx, Counted
<1>6. CASE p = "fragment"
  BY <1>1, <1>6 DEF Idx, Counted
<1> QED
  BY <1>2, <1>3, <1>4, <1>5, <1>6 DEF Parts

\* One length changed.
LEMMA CountedChanged ==
    ASSUME NEW u, Shape(u), NEW p \in Parts, NEW n \in Nat,
           NEW v, v.len = [u.len EXCEPT ![p] = n]
    PROVE  /\ Counted(v) = Counted(u) - u.len[p] + n
           /\ DOMAIN v.len = Parts /\ \A q \in Parts : v.len[q] \in Nat
<1> PICK l : l = v.len
  OBVIOUS
<1>1. /\ u.len["scheme"] \in Nat /\ u.len["authority"] \in Nat /\ u.len["path"] \in Nat
      /\ u.len["query"] \in Nat /\ u.len["fragment"] \in Nat
  BY DEF Shape, Parts
<1>2. DOMAIN l = Parts /\ \A q \in Parts : l[q] = IF q = p THEN n ELSE u.len[q]
  BY DEF Shape
<1>3. /\ l["scheme"] = IF "scheme" = p THEN n ELSE u.len["scheme"]
      /\ l["authority"] = IF "authority" = p THEN n ELSE u.len["authority"]
      /\ l["path"] = IF "path" = p THEN n ELSE u.len["path"]
      /\ l["query"] = IF "query" = p THEN n ELSE u.len["query"]
      /\ l["fragment"] = IF "fragment" = p THEN n ELSE u.len["fragment"]
  BY <1>2 DEF Parts
<1>4. Counted(v) = l["scheme"] + l["authority"] + l["path"] + l["query"] + l["fragment"]
  BY DEF Counted
<1>5. Counted(v) = Counted(u) - u.len[p] + n
  <2>1. CASE p = "scheme"
    BY <1>1, <1>3, <1>4, <2>1 DEF Counted
  <2>2. CASE p = "authority"
    BY <1>1, <1>3, <1>4, <2>2 DEF Counted
  <2>3. CASE p = "path"
    BY <1>1, <1>3, <1>4, <2>3 DEF Counted
  <2>4. CASE p = "query"
    BY <1>1, <1>3, <1>4, <2>4 DEF Counted
  <2>5. CASE p = "fragment"
    BY <1>1, <1>3, <1>4, <2>5 DEF Counted
  <2> QED
    BY <2>1, <2>2, <2>3, <2>4, <2>5 DEF Parts
<1>6. DOMAIN v.len = Parts /\ \A q \in Parts : v.len[q] \in Nat
  BY <1>2 DEF Shape
<1> QED
  BY <1>5, <1>6

\* The length of a string with a text in the place of another one.
LEMMA ReplacedLength ==
    ASSUME NEW s \in Text, NEW k \in Nat, NEW n \in Nat, k + n <= Len(s), NEW t \in Text
    PROVE  Replace(s, k, n, t) \in Text /\ Len(Replace(s, k, n, t)) = Len(s) - n + Len(t)
<1>1. Len(s) \in Nat /\ Len(t) \in Nat
  BY TextFacts
<1>2. k \in 0 .. Len(s) /\ k + n \in 0 .. Len(s)
  BY <1>1
<1>3. Sub(s, 1, k) \in Text /\ Len(Sub(s, 1, k)) = k
  BY <1>2, SplitAt
<1>4. From(s, k + n) \in Text /\ Len(From(s, k + n)) = Len(s) - (k + n)
  BY <1>2, FromFacts
<1>5. Replace(s, k, n, t) = Cat(Cat(Sub(s, 1, k), t), From(s, k + n))
  BY DEF Replace, Cat, Sub
<1>6. Cat(Sub(s, 1, k), t) \in Text /\ Len(Cat(Sub(s, 1, k), t)) = k + Len(t)
  BY <1>3, ConcatFacts
<1>7. /\ Cat(Cat(Sub(s, 1, k), t), From(s, k + n)) \in Text
      /\ Len(Cat(Cat(Sub(s, 1, k), t), From(s, k + n))) = (k + Len(t)) + (Len(s) - (k + n))
  BY <1>4, <1>6, ConcatFacts
<1>8. (k + Len(t)) + (Len(s) - (k + n)) = Len(s) - n + Len(t)
  BY <1>1
<1> QED
  BY <1>5, <1>7, <1>8

\* The text that is put into the string.
LEMMA WrittenText ==
    ASSUME NEW p \in Parts, NEW text \in Text, NEW n \in 0 .. Len(text)
    PROVE  /\ Canonical(p, SubSeq(text, 1, n)) \o From(text, n) \in Text
           /\ Len(Canonical(p, SubSeq(text, 1, n)) \o From(text, n)) = Len(text)
<1>1. Sub(text, 1, n) \in Text /\ Len(Sub(text, 1, n)) = n
  BY SplitAt
<1>2. Canonical(p, Sub(text, 1, n)) \in Text /\ Len(Canonical(p, Sub(text, 1, n))) = n
  BY <1>1, CanonicalFacts
<1>3. From(text, n) \in Text /\ Len(From(text, n)) = Len(text) - n
  BY FromFacts
<1>4. /\ Cat(Canonical(p, Sub(text, 1, n)), From(text, n)) \in Text
      /\ Len(Cat(Canonical(p, Sub(text, 1, n)), From(text, n))) = n + (Len(text) - n)
  BY <1>2, <1>3, ConcatFacts
<1>5. Len(text) \in Nat
  BY TextFacts
<1>6. n + (Len(text) - n) = Len(text)
  BY <1>5
<1>7. /\ Cat(Canonical(p, Sub(text, 1, n)), From(text, n)) \in Text
      /\ Len(Cat(Canonical(p, Sub(text, 1, n)), From(text, n))) = Len(text)
  BY <1>4, <1>6
<1> QED
  BY <1>7, Zenon DEF Cat, Sub

\* The fields of an object.
LEMMA Fields ==
    ASSUME NEW d, NEW l, NEW h, NEW u, u = [data |-> d, len |-> l, has |-> h]
    PROVE  u.data = d /\ u.len = l /\ u.has = h
<1>1. u.data = d
  OBVIOUS
<1>2. u.len = l
  OBVIOUS
<1>3. u.has = h
  OBVIOUS
<1> QED
  BY <1>1, <1>2, <1>3

\* The length of the parts is in the string.
LEMMA CountedFacts ==
    ASSUME NEW u, Shape(u)
    PROVE  u.data \in Text /\ Counted(u) <= Len(u.data) /\ Counted(u) \in Nat
<1>1. \A q \in Parts : u.len[q] \in Nat
  BY Zenon DEF Shape
<1>2. /\ u.len["scheme"] \in Nat /\ u.len["authority"] \in Nat /\ u.len["path"] \in Nat
      /\ u.len["query"] \in Nat /\ u.len["fragment"] \in Nat
  BY <1>1 DEF Parts
<1>3. Counted(u) \in Nat
  BY <1>2 DEF Counted
<1> QED
  BY <1>3, Zenon DEF Shape

\* A string that has grown by more than the length of a part.
LEMMA GrownShape ==
    ASSUME NEW u, Shape(u), NEW p \in Parts, NEW n \in Nat, NEW v, v.data \in Text,
           Len(v.data) >= Len(u.data) - u.len[p] + n,
           v.len = [u.len EXCEPT ![p] = n], v.has \subseteq Optional
    PROVE  Shape(v)
<1>1. u.len[p] \in Nat
  BY PlaceFacts
<1>2. u.data \in Text /\ Counted(u) <= Len(u.data) /\ Counted(u) \in Nat
  BY CountedFacts, Zenon
<1>3. Len(u.data) \in Nat /\ Len(v.data) \in Nat
  BY <1>2, TextFacts
<1>4. Counted(v) = Counted(u) - u.len[p] + n /\ DOMAIN v.len = Parts
        /\ \A q \in Parts : v.len[q] \in Nat
  BY CountedChanged
<1>5. Counted(v) <= Len(v.data)
  BY <1>1, <1>2, <1>3, <1>4
<1> QED
  BY <1>4, <1>5 DEF Shape

\* A setter keeps the parts in the string, however long its text is.
LEMMA InsertKeepsShape ==
    ASSUME NEW u, Shape(u), NEW p \in Parts, NEW text \in Text
    PROVE  Shape(Insert(u, p, text))
<1> DEFINE n == Len(text) % Width
           new == Canonical(p, SubSeq(text, 1, n)) \o From(text, n)
           d == Replace(u.data, Idx(u, p), u.len[p], new)
           l == [u.len EXCEPT ![p] = n]
           h == u.has \union ({p} \intersect Optional)
           v == Insert(u, p, text)
<1>1. v = [data |-> d, len |-> l, has |-> h]
  BY Zenon DEF Insert
<1>2. Len(text) \in Nat /\ n \in 0 .. Len(text) /\ n \in Nat /\ n <= Len(text)
  BY TextFacts, ModFacts
<1>3. new \in Text /\ Len(new) = Len(text)
  BY <1>2, WrittenText
<1>4. h \subseteq Optional
  BY DEF Shape
<1> HIDE DEF new
<1>5. d \in Text /\ Len(d) = Len(u.data) - u.len[p] + Len(new)
  <2>1. Idx(u, p) \in Nat /\ u.len[p] \in Nat /\ Idx(u, p) + u.len[p] <= Counted(u)
    BY PlaceFacts
  <2>2. u.data \in Text /\ Counted(u) <= Len(u.data) /\ Counted(u) \in Nat
    BY DEF Shape, Parts, Counted
  <2>3. Len(u.data) \in Nat
    BY <2>2, TextFacts
  <2>4. Idx(u, p) + u.len[p] <= Len(u.data)
    BY <2>1, <2>2, <2>3
  <2> QED
    BY <1>3, <2>1, <2>2, <2>4, ReplacedLength
<1> HIDE DEF v, d, l, h
<1>6. v.data = d /\ v.len = l /\ v.has = h
  BY <1>1, Fields
<1> HIDE DEF n
<1>7. u.len[p] \in Nat /\ Len(u.data) \in Nat
  BY PlaceFacts, TextFacts DEF Shape
<1>8. Len(d) >= Len(u.data) - u.len[p] + n
  BY <1>2, <1>3, <1>5, <1>7
<1>9. v.data \in Text /\ v.has \subseteq Optional /\ Len(v.data) >= Len(u.data) - u.len[p] + n
  BY <1>4, <1>5, <1>6, <1>8
<1>10. v.len = [u.len EXCEPT ![p] = n]
  BY <1>6, Zenon DEF l
<1>11. Shape(v)
  BY <1>2, <1>9, <1>10, GrownShape
<1> QED
  BY <1>11, Zenon DEF v

\* So does a removal.
LEMMA WithoutKeepsShape ==
    ASSUME NEW u, Shape(u), NEW p \in Optional
    PROVE  Shape(Without(u, p))
<1> PICK v : v = Insert(u, p, <<>>)
  OBVIOUS
<1>1. Shape(v)
  BY InsertKeepsShape, EmptyText DEF Optional, Parts
<1>2. Without(u, p).data = v.data /\ Without(u, p).len = v.len /\ Without(u, p).has = u.has \ {p}
  BY DEF Without
<1>3. Counted(Without(u, p)) = Counted(v)
  BY <1>2 DEF Counted
<1> QED
  BY <1>1, <1>2, <1>3 DEF Shape

\* An object without parts.
LEMMA NewShape == Shape(NewUri)
<1>1. NewUri.data = <<>> /\ NewUri.has = {} /\ NewUri.len = [p \in Parts |-> 0]
  BY DEF NewUri
<1>2. Counted(NewUri) = 0
  BY <1>1 DEF Counted, Parts
<1> QED
  BY <1>1, <1>2, EmptyText DEF Shape

\* What parse() makes has its parts in the string.
LEMMA FragmentShape ==
    ASSUME NEW u, Shape(u), NEW s \in Text, NEW k \in Nat
    PROVE  Shape(ParsedFragment(u, s, k))
<1>1. CASE ByteAt(s, k, Hash)
  <2>1. k < Len(s) /\ k + 1 \in 0 .. Len(s)
    BY <1>1, ByteAtFacts, TextFacts
  <2>2. From(s, k + 1) \in Text
    BY <2>1, FromFacts
  <2>3. Shape(Insert(u, "fragment", From(s, k + 1)))
    BY <2>2, InsertKeepsShape DEF Parts
  <2> QED
    BY <1>1, <2>3 DEF ParsedFragment
<1>2. CASE ~ByteAt(s, k, Hash)
  BY <1>2 DEF ParsedFragment
<1> QED
  BY <1>1, <1>2

\* So does the step of the query, ...
LEMMA QueryShape ==
    ASSUME NEW u, Shape(u), NEW s \in Text, NEW k \in Nat
    PROVE  Shape(ParsedQuery(u, s, k))
<1>1. CASE ByteAt(s, k, Question)
  <2> PICK n : n = parseUriQuery(From(s, k + 1))
    OBVIOUS
  <2>1. Len(s) \in Nat /\ k < Len(s)
    BY <1>1, ByteAtFacts, TextFacts
  <2>2. k + 1 \in 0 .. Len(s)
    BY <2>1
  <2>3. From(s, k + 1) \in Text /\ Len(From(s, k + 1)) = Len(s) - (k + 1)
    BY <2>2, FromFacts
  <2>4. n \in 0 .. Len(From(s, k + 1))
    BY <2>3, CountFacts DEF parseUriQuery
  <2>5. n \in Nat /\ k + 1 + n <= Len(s)
    BY <2>1, <2>3, <2>4
  <2>6. Sub(s, k + 2, k + 1 + n) \in Text
    BY <2>5, SubFacts
  <2>7. SubSeq(s, k + 2, k + 1 + n) \in Text
    BY <2>6, Zenon DEF Sub
  <2>8. Shape(Insert(u, "query", SubSeq(s, k + 2, k + 1 + n)))
    BY <2>7, InsertKeepsShape DEF Parts
  <2>9. Shape(ParsedFragment(Insert(u, "query", SubSeq(s, k + 2, k + 1 + n)), s, k + 1 + n))
    BY <2>5, <2>8, FragmentShape
  <2> QED
    BY <1>1, <2>9, Zenon DEF ParsedQuery
<1>2. CASE ~ByteAt(s, k, Question)
  <2>1. ParsedQuery(u, s, k) = ParsedFragment(u, s, k)
    BY <1>2, Zenon DEF ParsedQuery
  <2> QED
    BY <2>1, FragmentShape
<1> QED
  BY <1>1, <1>2

\* ... that of the path, ...
LEMMA PathShape ==
    ASSUME NEW u, Shape(u), NEW s \in Text, NEW k \in Nat
    PROVE  Shape(ParsedPath(u, s, k))
<1> PICK n : n = parseUriPath(From(s, k))
  OBVIOUS
<1>1. CASE k >= Len(s)
  <2>1. ParsedPath(u, s, k) = u
    BY <1>1, Zenon DEF ParsedPath
  <2> QED
    BY <2>1
<1>2. CASE "authority" \in u.has /\ ~ByteAt(s, k, Slash)
  <2>1. ParsedPath(u, s, k) \in {u, NewUri}
    BY <1>2 DEF ParsedPath
  <2> QED
    BY <2>1, NewShape
<1>3. CASE ~(k >= Len(s)) /\ ~("authority" \in u.has /\ ~ByteAt(s, k, Slash))
  <2>1. Len(s) \in Nat
    BY TextFacts
  <2>2. k \in 0 .. Len(s)
    BY <1>3, <2>1
  <2>3. From(s, k) \in Text /\ Len(From(s, k)) = Len(s) - k
    BY <2>2, FromFacts
  <2>4. n \in 0 .. Len(From(s, k))
    BY <2>3, CountFacts DEF parseUriPath
  <2>5. n \in Nat /\ k + n <= Len(s)
    BY <2>1, <2>3, <2>4
  <2>6. Sub(s, k + 1, k + n) \in Text
    BY <2>5, SubFacts
  <2>7. decode(SubSeq(s, k + 1, k + n)) \in Text
    <3>1. decode(Sub(s, k + 1, k + n)) \in Text
      BY <2>6, DecodeFacts
    <3> QED
      BY <3>1, Zenon DEF Sub
  <2>8. Shape(Insert(u, "path", decode(SubSeq(s, k + 1, k + n))))
    BY <2>7, InsertKeepsShape DEF Parts
  <2>9. Shape(ParsedQuery(Insert(u, "path", decode(SubSeq(s, k + 1, k + n))), s, k + n))
    BY <2>5, <2>8, QueryShape
  <2>10. ParsedPath(u, s, k)
           = ParsedQuery(Insert(u, "path", decode(SubSeq(s, k + 1, k + n))), s, k + n)
    BY <1>3, Zenon DEF ParsedPath
  <2> QED
    BY <2>9, <2>10, Zenon
<1> QED
  BY <1>1, <1>2, <1>3

\* ... that of the authority, ...
LEMMA AuthorityShape ==
    ASSUME NEW u, Shape(u), NEW s \in Text, NEW k \in Nat
    PROVE  Shape(ParsedAuthority(u, s, k))
<1> PICK n : n = parseUriAuthority(From(s, k + 2))
  OBVIOUS
<1>1. CASE ByteAt(s, k, Slash) /\ ByteAt(s, k + 1, Slash)
  <2>1. Len(s) \in Nat /\ k + 1 < Len(s)
    BY <1>1, ByteAtFacts, TextFacts
  <2>2. k + 2 \in 0 .. Len(s)
    BY <2>1
  <2>3. From(s, k + 2) \in Text /\ Len(From(s, k + 2)) = Len(s) - (k + 2)
    BY <2>2, FromFacts
  <2>4. n \in 0 .. Len(From(s, k + 2))
    BY <2>3, CountFacts DEF parseUriAuthority
  <2>5. n \in Nat /\ k + 2 + n <= Len(s)
    BY <2>1, <2>3, <2>4
  <2>6. Sub(s, k + 3, k + 2 + n) \in Text
    BY <2>5, SubFacts
  <2>7. SubSeq(s, k + 3, k + 2 + n) \in Text
    BY <2>6, Zenon DEF Sub
  <2>8. Shape(Insert(u, "authority", SubSeq(s, k + 3, k + 2 + n)))
    BY <2>7, InsertKeepsShape DEF Parts
  <2>9. Shape(ParsedPath(Insert(u, "authority", SubSeq(s, k + 3, k + 2 + n)), s, k + 2 + n))
    BY <2>5, <2>8, PathShape
  <2> QED
    BY <1>1, <2>9, Zenon DEF ParsedAuthority
<1>2. CASE ~(ByteAt(s, k, Slash) /\ ByteAt(s, k + 1, Slash))
  <2>1. ParsedAuthority(u, s, k) = ParsedPath(u, s, k)
    BY <1>2, Zenon DEF ParsedAuthority
  <2> QED
    BY <2>1, PathShape
<1> QED
  BY <1>1, <1>2

\* ... and all of parse().
LEMMA ParseShape ==
    ASSUME NEW s \in Text
    PROVE  Shape(parse(s))
<1> PICK n : n = parseUriScheme(s)
  OBVIOUS
<1>1. CASE n = 0 \/ ~ByteAt(s, n, Colon)
  <2>1. parse(s) = NewUri
    BY <1>1, Zenon DEF parse
  <2> QED
    BY <2>1, NewShape
<1>2. CASE ~(n = 0 \/ ~ByteAt(s, n, Colon))
  <2>1. n \in 0 .. Len(s) /\ Len(s) \in Nat
    BY CountFacts, TextFacts DEF parseUriScheme
  <2>2. Sub(s, 1, n) \in Text
    BY <2>1, SplitAt
  <2>3. SubSeq(s, 1, n) \in Text
    BY <2>2, Zenon DEF Sub
  <2>4. Shape(Insert(NewUri, "scheme", SubSeq(s, 1, n)))
    BY <2>3, NewShape, InsertKeepsShape DEF Parts
  <2>5. Shape(ParsedAuthority(Insert(NewUri, "scheme", SubSeq(s, 1, n)), s, n + 1))
    BY <2>1, <2>4, AuthorityShape
  <2>6. parse(s) = ParsedAuthority(Insert(NewUri, "scheme", SubSeq(s, 1, n)), s, n + 1)
    BY <1>2, Zenon DEF parse
  <2> QED
    BY <2>5, <2>6, Zenon
<1> QED
  BY <1>1, <1>2

-----------------------------------------------------------------------------
(* parse() on the text of parts *)

\* The text of the parts f, from each part on.
FragmentText(f) == IF "fragment" \in DOMAIN f THEN Cat(<<Hash>>, f["fragment"]) ELSE <<>>
QueryText(f) ==
    IF "query" \in DOMAIN f THEN Cat(<<Question>>, Cat(f["query"], FragmentText(f)))
    ELSE FragmentText(f)
PathText(f) == Cat(f["path"], QueryText(f))
AuthorityText(f) ==
    IF "authority" \in DOMAIN f THEN Slashes(Cat(f["authority"], PathText(f))) ELSE PathText(f)
Written(f) == Cat(f["scheme"], Cat(<<Colon>>, AuthorityText(f)))

\* Parts that can be told apart in their text.
WellFormed(f) ==
    /\ {"scheme", "path"} \subseteq DOMAIN f /\ DOMAIN f \subseteq Parts
    /\ \A p \in DOMAIN f : f[p] \in Text
    /\ f["scheme"] # <<>> /\ Free(f["scheme"], Byte \ SchemeByte)
    /\ Free(f["path"], {Question, Hash})
    /\ "query" \in DOMAIN f => Free(f["query"], {Hash})
    /\ IF "authority" \in DOMAIN f
       THEN Free(f["authority"], {Slash, Question, Hash}) /\ Opens(f["path"], {Slash})
       ELSE ~(ByteAt(PathText(f), 0, Slash) /\ ByteAt(PathText(f), 1, Slash))

\* An authority with nothing behind it but a query or a fragment.
Misplaced(f) ==
    /\ "authority" \in DOMAIN f /\ f["path"] = <<>>
    /\ DOMAIN f \intersect {"query", "fragment"} # {}

\* No part is longer than its length can count.
Short(f) == \A p \in DOMAIN f : Len(f[p]) < Width

\* What the parts mean.
Meant(f, p) == IF p = "path" THEN decode(f[p]) ELSE Canonical(p, f[p])
Meaning(f) == [p \in DOMAIN f |-> Meant(f, p)]

\* What is known when the parts in S have been parsed.
Upto(f, S) ==
    [p \in {"scheme", "path"} \union (DOMAIN f \intersect S) |->
        IF p \in S THEN Meant(f, p) ELSE <<>>]

\* An empty text has nothing to decode.
LEMMA DecodeNothing == decode(<<>>) = <<>>
<1>1. decode(<<>>) \in Text /\ Len(decode(<<>>)) <= Len(<<>>) /\ Len(<<>>) = 0
  BY DecodeFacts, EmptyText
<1>2. Len(decode(<<>>)) \in Nat /\ (decode(<<>>) = <<>> <=> Len(decode(<<>>)) = 0)
  BY <1>1, TextFacts
<1> QED
  BY <1>1, <1>2

\* A part that fits is one that the object can hold.
LEMMA MeantFacts ==
    ASSUME NEW f, WellFormed(f), NEW p \in DOMAIN f
    PROVE  /\ f[p] \in Text /\ p \in Parts /\ Meant(f, p) \in Text
           /\ Len(f[p]) < Width => Len(Meant(f, p)) < Width
<1>1. f[p] \in Text /\ p \in Parts
  BY DEF WellFormed
<1>2. Len(f[p]) \in Nat /\ Width \in Nat
  BY <1>1, TextFacts, WidthAssumption
<1>3. CASE p = "path"
  <2>1. decode(f[p]) \in Text /\ Len(decode(f[p])) <= Len(f[p])
    BY <1>1, DecodeFacts
  <2>2. Len(decode(f[p])) \in Nat
    BY <2>1, TextFacts
  <2>3. Meant(f, p) = decode(f[p])
    BY <1>3 DEF Meant
  <2> QED
    BY <1>1, <1>2, <2>1, <2>2, <2>3
<1>4. CASE p # "path"
  <2>1. Canonical(p, f[p]) \in Text /\ Len(Canonical(p, f[p])) = Len(f[p])
    BY <1>1, CanonicalFacts
  <2>2. Meant(f, p) = Canonical(p, f[p])
    BY <1>4 DEF Meant
  <2> QED
    BY <1>1, <2>1, <2>2
<1> QED
  BY <1>3, <1>4

\* What has been parsed is what an object can hold.
LEMMA UptoFacts ==
    ASSUME NEW f, WellFormed(f), Short(f), NEW S, S \subseteq Parts
    PROVE  Holdable(Upto(f, S))
             /\ DOMAIN Upto(f, S) = {"scheme", "path"} \union (DOMAIN f \intersect S)
<1>1. {"scheme", "path"} \subseteq DOMAIN f /\ DOMAIN f \subseteq Parts
  BY DEF WellFormed
<1>2. DOMAIN Upto(f, S) = {"scheme", "path"} \union (DOMAIN f \intersect S)
  BY DEF Upto
<1>3. ASSUME NEW p \in DOMAIN Upto(f, S)
      PROVE  Upto(f, S)[p] \in Text /\ Len(Upto(f, S)[p]) < Width
  <2>1. Upto(f, S)[p] = IF p \in S THEN Meant(f, p) ELSE <<>>
    BY <1>2 DEF Upto
  <2>2. p \in DOMAIN f
    BY <1>1, <1>2
  <2>3. Meant(f, p) \in Text /\ Len(Meant(f, p)) < Width
    BY <2>2, MeantFacts DEF Short
  <2>4. <<>> \in Text /\ Len(<<>>) < Width
    BY EmptyText, WidthAssumption
  <2> QED
    BY <2>1, <2>3, <2>4
<1> QED
  BY <1>1, <1>2, <1>3 DEF Holdable

\* Nothing, and all.
LEMMA UptoEnds ==
    ASSUME NEW f, WellFormed(f)
    PROVE  Upto(f, {}) = NoParts /\ Upto(f, Parts) = Meaning(f)
<1>1. {"scheme", "path"} \subseteq DOMAIN f /\ DOMAIN f \subseteq Parts
  BY DEF WellFormed
<1>2. Parts \ Optional = {"scheme", "path"}
  BY DEF Parts, Optional
<1>3. Upto(f, {}) = NoParts
  BY <1>2 DEF Upto, NoParts
<1>4. {"scheme", "path"} \union (DOMAIN f \intersect Parts) = DOMAIN f
  BY <1>1
<1>5. Upto(f, Parts) = Meaning(f)
  BY <1>1, <1>4 DEF Upto, Meaning
<1> QED
  BY <1>3, <1>5

\* What parse gives insert of a part: the path decoded, the others as they are.
Passed(f, p) == IF p = "path" THEN decode(f[p]) ELSE f[p]

\* A part more.
LEMMA UptoSet ==
    ASSUME NEW f, WellFormed(f), Short(f), NEW S, S \subseteq Parts, NEW p \in DOMAIN f
    PROVE  Set(Upto(f, S), p, Passed(f, p)) = Upto(f, S \union {p})
<1> PICK t : t = Passed(f, p)
  OBVIOUS
<1> PICK g : g = Upto(f, S)
  OBVIOUS
<1> PICK h : h = Upto(f, S \union {p})
  OBVIOUS
<1> DEFINE D == {"scheme", "path"} \union (DOMAIN f \intersect S)
           E == {"scheme", "path"} \union (DOMAIN f \intersect (S \union {p}))
<1>1. D \union {p} = E
  OBVIOUS
<1>2. Canonical(p, t) = Meant(f, p)
  <2>1. CASE p = "path"
    <3>1. t = decode(f[p]) /\ Meant(f, p) = decode(f[p])
      BY <2>1 DEF Meant, Passed
    <3>2. Canonical(p, t) = t
      BY <2>1 DEF Canonical
    <3> QED
      BY <3>1, <3>2
  <2>2. CASE p # "path"
    <3>1. t = f[p] /\ Meant(f, p) = Canonical(p, f[p])
      BY <2>2 DEF Meant, Passed
    <3> QED
      BY <3>1
  <2> QED
    BY <2>1, <2>2
<1>3. DOMAIN g = D /\ \A q \in D : g[q] = IF q \in S THEN Meant(f, q) ELSE <<>>
  BY DEF Upto
<1>4. h = [q \in E |-> IF q \in S \union {p} THEN Meant(f, q) ELSE <<>>]
  BY DEF Upto
<1>5. Set(g, p, t) = [q \in D \union {p} |-> IF q = p THEN Canonical(p, t) ELSE g[q]]
  BY <1>3 DEF Set
<1> HIDE DEF D, E
<1>6. ASSUME NEW q \in E
      PROVE  (IF q = p THEN Canonical(p, t) ELSE g[q])
                = IF q \in S \union {p} THEN Meant(f, q) ELSE <<>>
  <2>1. CASE q = p
    BY <1>2, <2>1
  <2>2. CASE q # p
    <3>1. q \in D
      BY <1>1, <2>2
    <3> QED
      BY <1>3, <2>2, <3>1
  <2> QED
    BY <2>1, <2>2
<1>7. Set(g, p, t) = h
  <2> DEFINE A(q) == IF q = p THEN Canonical(p, t) ELSE g[q]
             B(q) == IF q \in S \union {p} THEN Meant(f, q) ELSE <<>>
  <2>1. \A q \in E : A(q) = B(q)
    BY <1>6, Zenon
  <2>2. Set(g, p, t) = [q \in E |-> A(q)] /\ h = [q \in E |-> B(q)]
    BY <1>1, <1>4, <1>5, Zenon
  <2> HIDE DEF A, B
  <2>3. [q \in E |-> A(q)] = [q \in E |-> B(q)]
    BY <2>1, Zenon
  <2> QED
    BY <2>2, <2>3, Zenon
<1> QED
  BY <1>7

\* A part that is not there.
LEMMA UptoAbsent ==
    ASSUME NEW f, NEW S, NEW p \in Optional, p \notin DOMAIN f
    PROVE  Upto(f, S \union {p}) = Upto(f, S)
<1>1. p \notin {"scheme", "path"}
  BY DEF Optional
<1>2. {"scheme", "path"} \union (DOMAIN f \intersect (S \union {p}))
            = {"scheme", "path"} \union (DOMAIN f \intersect S)
  OBVIOUS
<1>3. \A q \in {"scheme", "path"} \union (DOMAIN f \intersect S) : q \in S \union {p} <=> q \in S
  BY <1>1
<1> QED
  BY <1>2, <1>3 DEF Upto

\* A path that is empty.
LEMMA UptoEmptyPath ==
    ASSUME NEW f, WellFormed(f), f["path"] = <<>>, NEW S
    PROVE  Upto(f, S \union {"path"}) = Upto(f, S)
<1>1. Meant(f, "path") = <<>>
  BY DecodeNothing DEF Meant
<1>2. {"scheme", "path"} \union (DOMAIN f \intersect (S \union {"path"}))
            = {"scheme", "path"} \union (DOMAIN f \intersect S)
  BY DEF WellFormed
<1>3. \A q \in {"scheme", "path"} \union (DOMAIN f \intersect S) :
            (IF q \in S \union {"path"} THEN Meant(f, q) ELSE <<>>)
                = (IF q \in S THEN Meant(f, q) ELSE <<>>)
  BY <1>1
<1> QED
  BY <1>2, <1>3 DEF Upto

\* A part that is inserted is one that has been parsed.
LEMMA InsertIsUpto ==
    ASSUME NEW f, WellFormed(f), Short(f), NEW S, S \subseteq Parts, NEW p \in DOMAIN f
    PROVE  Insert(Built(Upto(f, S)), p, Passed(f, p)) = Built(Upto(f, S \union {p}))
<1> DEFINE t == Passed(f, p)
<1>1. Holdable(Upto(f, S))
  BY UptoFacts
<1>2. p \in Parts /\ f[p] \in Text /\ Len(f[p]) < Width /\ Width \in Nat
  BY MeantFacts, WidthAssumption DEF Short
<1>3. t \in Text /\ Len(t) < Width
  <2>1. decode(f[p]) \in Text /\ Len(decode(f[p])) <= Len(f[p])
    BY <1>2, DecodeFacts
  <2>2. Len(decode(f[p])) \in Nat /\ Len(f[p]) \in Nat
    BY <1>2, <2>1, TextFacts
  <2> QED
    BY <1>2, <2>1, <2>2 DEF Passed
<1>4. Set(Upto(f, S), p, t) = Upto(f, S \union {p})
  BY UptoSet, Zenon
<1> HIDE DEF t
<1>5. Insert(Built(Upto(f, S)), p, t) = Built(Set(Upto(f, S), p, t))
  BY <1>1, <1>2, <1>3, InsertIsSet
<1>6. Insert(Built(Upto(f, S)), p, t) = Built(Upto(f, S \union {p}))
  BY <1>4, <1>5, Zenon
<1> QED
  BY <1>6, Zenon DEF t

\* The path is inserted decoded, the others as they are.
LEMMA InsertPart ==
    ASSUME NEW f, WellFormed(f), Short(f), NEW S, S \subseteq Parts, NEW p \in DOMAIN f, p # "path"
    PROVE  Insert(Built(Upto(f, S)), p, f[p]) = Built(Upto(f, S \union {p}))
<1>1. Insert(Built(Upto(f, S)), p, Passed(f, p)) = Built(Upto(f, S \union {p}))
  BY InsertIsUpto, Zenon
<1>2. Passed(f, p) = f[p]
  BY DEF Passed
<1> QED
  BY <1>1, <1>2, Zenon

\* And the path.
LEMMA InsertPath ==
    ASSUME NEW f, WellFormed(f), Short(f), NEW S, S \subseteq Parts
    PROVE  Insert(Built(Upto(f, S)), "path", decode(f["path"])) = Built(Upto(f, S \union {"path"}))
<1> PICK p : p = "path"
  OBVIOUS
<1>1. p \in DOMAIN f
  BY DEF WellFormed
<1>2. Insert(Built(Upto(f, S)), p, Passed(f, p)) = Built(Upto(f, S \union {p}))
  BY <1>1, InsertIsUpto, Zenon
<1>3. Passed(f, p) = decode(f["path"])
  BY DEF Passed
<1> QED
  BY <1>2, <1>3, Zenon

\* The delimiters are bytes.
LEMMA Delimiters == Hash \in Byte /\ Question \in Byte /\ Colon \in Byte /\ Slash \in Byte
BY DEF Hash, Question, Colon, Slash, Byte

\* The first byte of two texts, and when there is none.
LEMMA CatFirst ==
    ASSUME NEW a \in Text, NEW b \in Text
    PROVE  /\ Cat(a, b) = <<>> <=> a = <<>> /\ b = <<>>
           /\ a # <<>> => Cat(a, b)[1] = a[1]
<1>1. Cat(a, b) \in Text /\ Len(a) \in Nat /\ Len(b) \in Nat
  BY ConcatFacts, TextFacts
<1>2. (a = <<>> <=> Len(a) = 0) /\ (b = <<>> <=> Len(b) = 0)
  BY TextFacts
<1>3. Cat(a, b) = <<>> <=> Len(Cat(a, b)) = 0
  BY <1>1, TextFacts
<1>4. Len(Cat(a, b)) = Len(a) + Len(b)
  BY ConcatFacts
<1>5. \A x, y \in Nat : x + y = 0 <=> x = 0 /\ y = 0
  OBVIOUS
<1>6. Cat(a, b) = <<>> <=> a = <<>> /\ b = <<>>
  BY <1>1, <1>2, <1>3, <1>4, <1>5
<1>7. a # <<>> => Cat(a, b)[1] = a[1]
  <2> HAVE a # <<>>
  <2>1. 1 \in 1 .. Len(a)
    BY <1>1, <1>2
  <2> QED
    BY <2>1, ConcatFacts
<1> QED
  BY <1>6, <1>7

\* A text that begins with a byte is not empty.
LEMMA MarkFirst ==
    ASSUME NEW c \in Byte, NEW s \in Text
    PROVE  Cat(<<c>>, s) # <<>>
<1>1. <<c>> \in Text /\ <<c>> # <<>>
  BY OneByte
<1> QED
  BY <1>1, CatFirst

\* The texts of the parts, and how they begin.
LEMMA WrittenFacts ==
    ASSUME NEW f, WellFormed(f)
    PROVE  /\ FragmentText(f) \in Text /\ QueryText(f) \in Text /\ PathText(f) \in Text
           /\ AuthorityText(f) \in Text
           /\ Opens(FragmentText(f), {Hash}) /\ Opens(QueryText(f), {Question, Hash})
<1>1. \A p \in DOMAIN f : f[p] \in Text
  BY DEF WellFormed
<1>2. Hash \in Byte /\ Question \in Byte
  BY DEF Hash, Question, Byte
<1>3. FragmentText(f) \in Text /\ Opens(FragmentText(f), {Hash})
  <2>1. CASE "fragment" \in DOMAIN f
    <3>1. f["fragment"] \in Text
      BY <1>1, <2>1
    <3>2. Cat(<<Hash>>, f["fragment"]) \in Text /\ Cat(<<Hash>>, f["fragment"])[1] = Hash
      BY <1>2, <3>1, OneByte
    <3>3. FragmentText(f) = Cat(<<Hash>>, f["fragment"])
      BY <2>1, Zenon DEF FragmentText
    <3> QED
      BY <3>2, <3>3 DEF Opens
  <2>2. CASE "fragment" \notin DOMAIN f
    <3>1. FragmentText(f) = <<>>
      BY <2>2, Zenon DEF FragmentText
    <3> QED
      BY <3>1, EmptyText DEF Opens
  <2> QED
    BY <2>1, <2>2
<1>4. QueryText(f) \in Text /\ Opens(QueryText(f), {Question, Hash})
  <2>1. CASE "query" \in DOMAIN f
    <3>1. f["query"] \in Text
      BY <1>1, <2>1
    <3>2. Cat(f["query"], FragmentText(f)) \in Text
      BY <1>3, <3>1, ConcatFacts
    <3>3. /\ Cat(<<Question>>, Cat(f["query"], FragmentText(f))) \in Text
          /\ Cat(<<Question>>, Cat(f["query"], FragmentText(f)))[1] = Question
      BY <1>2, <3>2, OneByte
    <3>4. QueryText(f) = Cat(<<Question>>, Cat(f["query"], FragmentText(f)))
      BY <2>1, Zenon DEF QueryText
    <3> QED
      BY <3>3, <3>4 DEF Opens
  <2>2. CASE "query" \notin DOMAIN f
    <3>1. QueryText(f) = FragmentText(f)
      BY <2>2, Zenon DEF QueryText
    <3> QED
      BY <1>3, <3>1 DEF Opens
  <2> QED
    BY <2>1, <2>2
<1>5. PathText(f) \in Text
  BY <1>1, <1>4, ConcatFacts DEF PathText, WellFormed
<1>6. AuthorityText(f) \in Text
  <2>1. CASE "authority" \in DOMAIN f
    <3>1. f["authority"] \in Text
      BY <1>1, <2>1
    <3>2. Cat(f["authority"], PathText(f)) \in Text
      BY <1>5, <3>1, ConcatFacts
    <3>3. Slashes(Cat(f["authority"], PathText(f))) \in Text
      BY <3>2, SlashesFacts
    <3> QED
      BY <2>1, <3>3, Zenon DEF AuthorityText
  <2>2. CASE "authority" \notin DOMAIN f
    <3>1. AuthorityText(f) = PathText(f)
      BY <2>2, Zenon DEF AuthorityText
    <3> QED
      BY <1>5, <3>1
  <2> QED
    BY <2>1, <2>2
<1> QED
  BY <1>3, <1>4, <1>5, <1>6

\* The path is empty or begins with a slash, if it must: so does what comes with it.
LEMMA PathOpens ==
    ASSUME NEW f, WellFormed(f), Opens(f["path"], {Slash})
    PROVE  /\ Opens(PathText(f), {Slash, Question, Hash})
           /\ ByteAt(PathText(f), 0, Slash) <=> f["path"] # <<>>
<1> PICK p : p = f["path"]
  OBVIOUS
<1> PICK q : q = QueryText(f)
  OBVIOUS
<1> PICK r : r = PathText(f)
  OBVIOUS
<1>1. p \in Text /\ q \in Text /\ r \in Text /\ Opens(q, {Question, Hash})
  BY WrittenFacts DEF WellFormed
<1>2. r = Cat(p, q)
  BY DEF PathText
<1>3. CASE p = <<>>
  <2>1. r = q
    BY <1>1, <1>2, <1>3, EmptyText
  <2>2. Opens(r, {Slash, Question, Hash})
    BY <1>1, <2>1 DEF Opens
  <2>3. ~ByteAt(r, 0, Slash)
    <3>1. ByteAt(r, 0, Slash) <=> r # <<>> /\ r[1] = Slash
      BY <1>1, FirstByte
    <3>2. r # <<>> => r[1] \in {Question, Hash}
      BY <1>1, <2>1 DEF Opens
    <3> QED
      BY <3>1, <3>2 DEF Slash, Question, Hash
  <2> QED
    BY <1>3, <2>2, <2>3
<1>4. CASE p # <<>>
  <2>5. r[1] = Slash
    <3>1. p[1] = Slash
      BY <1>4 DEF Opens
    <3>2. Cat(p, q)[1] = p[1]
      BY <1>1, <1>4, CatFirst
    <3> QED
      BY <1>2, <3>1, <3>2
  <2>6. r # <<>>
    BY <1>1, <1>2, <1>4, CatFirst
  <2>7. ByteAt(r, 0, Slash)
    BY <1>1, <2>5, <2>6, FirstByte
  <2> QED
    BY <1>4, <2>5, <2>7 DEF Opens
<1> QED
  BY <1>3, <1>4

\* The fragment of the parts f.
LEMMA FragmentStep ==
    ASSUME NEW f, WellFormed(f), Short(f), NEW S, S \subseteq Parts
    PROVE  ParsedFragment(Built(Upto(f, S)), FragmentText(f), 0)
                = Built(Upto(f, S \union {"fragment"}))
<1> PICK u : u = Built(Upto(f, S))
  OBVIOUS
<1>1. CASE "fragment" \in DOMAIN f
  <2>1. f["fragment"] \in Text
    BY <1>1 DEF WellFormed
  <2>2. ParsedFragment(u, Cat(<<Hash>>, f["fragment"]), 0) = Insert(u, "fragment", f["fragment"])
    BY <2>1, FragmentIs
  <2>3. FragmentText(f) = Cat(<<Hash>>, f["fragment"])
    BY <1>1, Zenon DEF FragmentText
  <2>4. Insert(u, "fragment", f["fragment"]) = Built(Upto(f, S \union {"fragment"}))
    BY <1>1, InsertPart
  <2> QED
    BY <2>2, <2>3, <2>4, Zenon
<1>2. CASE "fragment" \notin DOMAIN f
  <2>1. FragmentText(f) = <<>>
    BY <1>2, Zenon DEF FragmentText
  <2>2. ParsedFragment(u, <<>>, 0) = u
    BY FragmentIs, EmptyText
  <2>3. Upto(f, S \union {"fragment"}) = Upto(f, S)
    BY <1>2, UptoAbsent DEF Optional
  <2> QED
    BY <2>1, <2>2, <2>3, Zenon
<1> QED
  BY <1>1, <1>2

\* The query, and what is behind it.
LEMMA QueryStep ==
    ASSUME NEW f, WellFormed(f), Short(f), NEW S, S \subseteq Parts
    PROVE  ParsedQuery(Built(Upto(f, S)), QueryText(f), 0)
                = Built(Upto(f, (S \union {"query"}) \union {"fragment"}))
<1> PICK u : u = Built(Upto(f, S))
  OBVIOUS
<1> PICK r : r = FragmentText(f)
  OBVIOUS
<1>1. r \in Text /\ Opens(r, {Hash})
  BY WrittenFacts
<1>2. S \union {"query"} \subseteq Parts
  BY DEF Parts
<1>3. ParsedFragment(Built(Upto(f, S \union {"query"})), r, 0)
            = Built(Upto(f, (S \union {"query"}) \union {"fragment"}))
  BY <1>2, FragmentStep, Zenon
<1>4. CASE "query" \in DOMAIN f
  <2>1. f["query"] \in Text /\ Free(f["query"], {Hash}) /\ Len(f["query"]) < Width
    BY <1>4 DEF WellFormed, Short
  <2>2. ParsedQuery(u, Cat(<<Question>>, Cat(f["query"], r)), 0)
            = ParsedFragment(Insert(u, "query", f["query"]), r, 0)
    BY <1>1, <2>1, QueryIs
  <2>3. QueryText(f) = Cat(<<Question>>, Cat(f["query"], r))
    BY <1>4, Zenon DEF QueryText
  <2>4. Insert(u, "query", f["query"]) = Built(Upto(f, S \union {"query"}))
    BY <1>4, InsertPart
  <2> QED
    BY <1>3, <2>2, <2>3, <2>4, Zenon
<1>5. CASE "query" \notin DOMAIN f
  <2>1. QueryText(f) = r
    BY <1>5, Zenon DEF QueryText
  <2>2. ParsedQuery(u, r, 0) = ParsedFragment(u, r, 0)
    BY <1>1, NoQuery
  <2>3. Upto(f, S \union {"query"}) = Upto(f, S)
    BY <1>5, UptoAbsent DEF Optional
  <2> QED
    BY <1>3, <2>1, <2>2, <2>3, Zenon
<1> QED
  BY <1>4, <1>5

\* The path, and what is behind it: behind an authority there must be a slash, or
\* nothing.
LEMMA PathStep ==
    ASSUME NEW f, WellFormed(f), Short(f), NEW S, S \subseteq Parts,
           "authority" \in S
    PROVE  ParsedPath(Built(Upto(f, S)), PathText(f), 0) =
                IF Misplaced(f) THEN NewUri
                ELSE Built(Upto(f, ((S \union {"path"}) \union {"query"}) \union {"fragment"}))
<1> PICK u : u = Built(Upto(f, S))
  OBVIOUS
<1> PICK p : p = f["path"]
  OBVIOUS
<1> PICK q : q = QueryText(f)
  OBVIOUS
<1> PICK r : r = PathText(f)
  OBVIOUS
<1> PICK all : all = Built(Upto(f, ((S \union {"path"}) \union {"query"}) \union {"fragment"}))
  OBVIOUS
<1>1. /\ p \in Text /\ Free(p, {Question, Hash}) /\ Len(p) < Width /\ "path" \in DOMAIN f
      /\ q \in Text /\ Opens(q, {Question, Hash}) /\ r \in Text
  BY WrittenFacts DEF WellFormed, Short
<1>2. r = Cat(p, q)
  BY DEF PathText
<1>3. "authority" \in u.has <=> "authority" \in DOMAIN f
  <2>1. u.has = DOMAIN Upto(f, S) \intersect Optional
    BY DEF Built
  <2>2. DOMAIN Upto(f, S) = {"scheme", "path"} \union (DOMAIN f \intersect S)
    BY UptoFacts
  <2> QED
    BY <2>1, <2>2 DEF Optional
<1>4. ParsedPath(u, Cat(p, q), 0) =
            IF Cat(p, q) = <<>> THEN u
            ELSE IF "authority" \in u.has /\ ~ByteAt(Cat(p, q), 0, Slash) THEN NewUri
            ELSE ParsedQuery(Insert(u, "path", decode(p)), q, 0)
  BY <1>1, PathIs
<1>5. ParsedPath(u, r, 0) =
            IF r = <<>> THEN u
            ELSE IF "authority" \in DOMAIN f /\ ~ByteAt(r, 0, Slash) THEN NewUri
            ELSE ParsedQuery(Insert(u, "path", decode(p)), q, 0)
  BY <1>2, <1>3, <1>4
<1>6. ParsedQuery(Insert(u, "path", decode(p)), q, 0) = all
  <2>1. S \union {"path"} \subseteq Parts
    BY DEF Parts
  <2>2. ParsedQuery(Built(Upto(f, S \union {"path"})), q, 0) = all
    BY <2>1, QueryStep, Zenon
  <2>3. Insert(u, "path", decode(p)) = Built(Upto(f, S \union {"path"}))
    BY InsertPath
  <2> QED
    BY <2>2, <2>3, Zenon
<1>7. q = <<>> <=> DOMAIN f \intersect {"query", "fragment"} = {}
  <2>1. CASE "query" \in DOMAIN f
    <3>1. q = Cat(<<Question>>, Cat(f["query"], FragmentText(f)))
      BY <2>1, Zenon DEF QueryText
    <3>2. Cat(f["query"], FragmentText(f)) \in Text
      BY <2>1, WrittenFacts, ConcatFacts DEF WellFormed
    <3>3. q # <<>>
      BY <3>1, <3>2, MarkFirst, Delimiters
    <3> QED
      BY <2>1, <3>3
  <2>2. CASE "query" \notin DOMAIN f /\ "fragment" \in DOMAIN f
    <3>1. q = Cat(<<Hash>>, f["fragment"])
      BY <2>2, Zenon DEF QueryText, FragmentText
    <3>2. f["fragment"] \in Text
      BY <2>2 DEF WellFormed
    <3>3. q # <<>>
      BY <3>1, <3>2, MarkFirst, Delimiters
    <3> QED
      BY <2>2, <3>3
  <2>3. CASE "query" \notin DOMAIN f /\ "fragment" \notin DOMAIN f
    <3>1. q = <<>>
      BY <2>3, Zenon DEF QueryText, FragmentText
    <3> QED
      BY <2>3, <3>1
  <2> QED
    BY <2>1, <2>2, <2>3
<1>8. r = <<>> <=> p = <<>> /\ q = <<>>
  BY <1>1, <1>2, CatFirst
<1>9. r = <<>> => u = all
  <2> HAVE r = <<>>
  <2>1. p = <<>> /\ "query" \notin DOMAIN f /\ "fragment" \notin DOMAIN f
    BY <1>7, <1>8
  <2>2. Upto(f, S \union {"path"}) = Upto(f, S)
    BY <2>1, UptoEmptyPath
  <2>3. Upto(f, (S \union {"path"}) \union {"query"}) = Upto(f, S \union {"path"})
    BY <2>1, UptoAbsent DEF Optional
  <2>4. Upto(f, ((S \union {"path"}) \union {"query"}) \union {"fragment"})
            = Upto(f, (S \union {"path"}) \union {"query"})
    BY <2>1, UptoAbsent DEF Optional
  <2> QED
    BY <2>2, <2>3, <2>4, Zenon
<1>10. "authority" \in DOMAIN f => (ByteAt(r, 0, Slash) <=> p # <<>>)
  BY PathOpens DEF WellFormed
<1>11. Misplaced(f) <=> "authority" \in DOMAIN f /\ p = <<>> /\ q # <<>>
  BY <1>7 DEF Misplaced
<1>12. CASE r = <<>>
  BY <1>5, <1>8, <1>9, <1>11, <1>12
<1>13. CASE r # <<>>
  BY <1>5, <1>6, <1>8, <1>10, <1>11, <1>13
<1> QED
  BY <1>12, <1>13

\* What else is behind an authority is refused, whatever the lengths.
LEMMA MisplacedPath ==
    ASSUME NEW f, WellFormed(f), Misplaced(f), NEW u, "authority" \in u.has
    PROVE  ParsedPath(u, PathText(f), 0) = NewUri
<1> PICK q : q = QueryText(f)
  OBVIOUS
<1> PICK r : r = PathText(f)
  OBVIOUS
<1>1. f["path"] = <<>> /\ Opens(f["path"], {Slash})
  BY DEF Misplaced, Opens
<1>2. q \in Text /\ r \in Text /\ Opens(q, {Question, Hash})
  BY WrittenFacts
<1>3. r = q
  BY <1>1, <1>2, EmptyText DEF PathText
<1>4. ~ByteAt(r, 0, Slash)
  BY <1>1, PathOpens
<1>5. r # <<>>
  <2>1. CASE "query" \in DOMAIN f
    <3>1. q = Cat(<<Question>>, Cat(f["query"], FragmentText(f)))
      BY <2>1, Zenon DEF QueryText
    <3>2. Cat(f["query"], FragmentText(f)) \in Text
      BY <2>1, WrittenFacts, ConcatFacts DEF WellFormed
    <3> QED
      BY <1>3, <3>1, <3>2, MarkFirst, Delimiters
  <2>2. CASE "query" \notin DOMAIN f /\ "fragment" \in DOMAIN f
    <3>1. q = Cat(<<Hash>>, f["fragment"])
      BY <2>2, Zenon DEF QueryText, FragmentText
    <3>2. f["fragment"] \in Text
      BY <2>2 DEF WellFormed
    <3> QED
      BY <1>3, <3>1, <3>2, MarkFirst, Delimiters
  <2> QED
    BY <2>1, <2>2 DEF Misplaced
<1>6. Len(r) \in Nat /\ ~(0 >= Len(r))
  BY <1>2, <1>5, TextFacts
<1> QED
  BY <1>4, <1>6, Zenon DEF ParsedPath

\* The authority, and what is behind it.
LEMMA AuthorityStep ==
    ASSUME NEW f, WellFormed(f)
    PROVE  /\ Misplaced(f) => \A u : ParsedAuthority(u, AuthorityText(f), 0) = NewUri
           /\ Short(f) /\ ~Misplaced(f) =>
                ParsedAuthority(Built(Upto(f, {"scheme"})), AuthorityText(f), 0) = Built(Meaning(f))
<1> PICK r : r = PathText(f)
  OBVIOUS
<1>1. r \in Text
  BY WrittenFacts
<1>2. CASE "authority" \in DOMAIN f
  <2> PICK a : a = f["authority"]
    OBVIOUS
  <2>1. /\ a \in Text /\ Free(a, {Slash, Question, Hash}) /\ Opens(r, {Slash, Question, Hash})
    BY <1>2, PathOpens DEF WellFormed
  <2>2. AuthorityText(f) = Slashes(Cat(a, r))
    BY <1>2, Zenon DEF AuthorityText
  <2>3. \A u : ParsedAuthority(u, AuthorityText(f), 0) =
                IF Len(a) < Width THEN ParsedPath(Insert(u, "authority", a), r, 0) ELSE NewUri
    BY <1>1, <2>1, <2>2, AuthorityIs
  <2>4. ASSUME Misplaced(f), NEW u
        PROVE  ParsedAuthority(u, AuthorityText(f), 0) = NewUri
    <3>1. "authority" \in Insert(u, "authority", a).has
      BY DEF Insert, Optional
    <3>2. ParsedPath(Insert(u, "authority", a), r, 0) = NewUri
      BY <2>4, <3>1, MisplacedPath
    <3> QED
      BY <2>3, <3>2
  <2>5. ASSUME Short(f), ~Misplaced(f)
        PROVE  ParsedAuthority(Built(Upto(f, {"scheme"})), AuthorityText(f), 0) = Built(Meaning(f))
    <3>1. Len(a) < Width
      BY <1>2, <2>5 DEF Short
    <3>2. {"scheme"} \subseteq Parts /\ {"scheme"} \union {"authority"} \subseteq Parts
      BY DEF Parts
    <3>3. Insert(Built(Upto(f, {"scheme"})), "authority", a)
            = Built(Upto(f, {"scheme"} \union {"authority"}))
      BY <1>2, <2>5, <3>2, InsertPart
    <3> DEFINE S == {"scheme"} \union {"authority"}
    <3>4. ParsedPath(Built(Upto(f, S)), PathText(f), 0) =
                IF Misplaced(f) THEN NewUri
                ELSE Built(Upto(f, ((S \union {"path"}) \union {"query"}) \union {"fragment"}))
      <4>1. "authority" \in S
        OBVIOUS
      <4> HIDE DEF S
      <4> QED
        BY <2>5, <3>2, <4>1, PathStep DEF S
    <3>5. ((S \union {"path"}) \union {"query"}) \union {"fragment"} = Parts
      BY DEF Parts
    <3>6. Upto(f, Parts) = Meaning(f)
      BY UptoEnds
    <3>7. ParsedPath(Built(Upto(f, S)), r, 0) = Built(Meaning(f))
      BY <2>5, <3>4, <3>5, <3>6
    <3> QED
      BY <2>3, <3>1, <3>3, <3>7
  <2> QED
    BY <2>4, <2>5
<1>3. CASE "authority" \notin DOMAIN f
  <2>1. AuthorityText(f) = r /\ ~Misplaced(f)
    BY <1>3 DEF AuthorityText, Misplaced
  <2>2. ~(ByteAt(r, 0, Slash) /\ ByteAt(r, 1, Slash))
    BY <1>3 DEF WellFormed
  <2>3. ASSUME Short(f)
        PROVE  ParsedAuthority(Built(Upto(f, {"scheme"})), AuthorityText(f), 0) = Built(Meaning(f))
    <3> DEFINE S == {"scheme"} \union {"authority"}
    <3>1. ParsedAuthority(Built(Upto(f, {"scheme"})), r, 0)
            = ParsedPath(Built(Upto(f, {"scheme"})), r, 0)
      BY <1>1, <2>2, NoAuthority
    <3>2. Upto(f, S) = Upto(f, {"scheme"})
      BY <1>3, UptoAbsent DEF Optional
    <3>3. S \subseteq Parts /\ "authority" \in S
      BY DEF Parts
    <3>4. ((S \union {"path"}) \union {"query"}) \union {"fragment"} = Parts
      BY DEF Parts
    <3> HIDE DEF S
    <3>5. ParsedPath(Built(Upto(f, S)), PathText(f), 0) =
                IF Misplaced(f) THEN NewUri
                ELSE Built(Upto(f, ((S \union {"path"}) \union {"query"}) \union {"fragment"}))
      BY <2>3, <3>3, PathStep
    <3>6. Upto(f, Parts) = Meaning(f)
      BY UptoEnds
    <3>7. ParsedPath(Built(Upto(f, S)), r, 0) = Built(Meaning(f))
      BY <2>1, <3>4, <3>5, <3>6
    <3> QED
      BY <2>1, <3>1, <3>2, <3>7
  <2> QED
    BY <2>1, <2>3
<1> QED
  BY <1>2, <1>3

\* parse() finds the parts in the text that is made from them, unless it refuses it.
LEMMA ParseWritten ==
    ASSUME NEW f, WellFormed(f)
    PROVE  /\ Misplaced(f) => parse(Written(f)) = NewUri
           /\ Short(f) /\ ~Misplaced(f)
                   => parse(Written(f)) = Built(Meaning(f)) /\ Holdable(Meaning(f))
<1> PICK c : c = f["scheme"]
  OBVIOUS
<1> PICK r : r = AuthorityText(f)
  OBVIOUS
<1>1. c \in Text /\ c # <<>> /\ Free(c, Byte \ SchemeByte) /\ r \in Text /\ "scheme" \in DOMAIN f
  BY WrittenFacts DEF WellFormed
<1>2. parse(Cat(c, Cat(<<Colon>>, r))) =
                IF Len(c) < Width THEN ParsedAuthority(Insert(NewUri, "scheme", c), r, 0)
                        ELSE NewUri
  BY <1>1, SchemeIs
<1>3. Written(f) = Cat(c, Cat(<<Colon>>, r))
  BY Zenon DEF Written
<1>4. parse(Written(f)) =
                IF Len(c) < Width THEN ParsedAuthority(Insert(NewUri, "scheme", c), r, 0)
                        ELSE NewUri
  BY <1>2, <1>3, Zenon
<1>5. Misplaced(f) => parse(Written(f)) = NewUri
  BY <1>4, AuthorityStep
<1>6. ASSUME Short(f), ~Misplaced(f)
      PROVE  parse(Written(f)) = Built(Meaning(f)) /\ Holdable(Meaning(f))
  <2>1. Len(c) < Width
    BY <1>1, <1>6 DEF Short
  <2>2. NewUri = Built(Upto(f, {}))
    BY UptoEnds, NothingBuilt
  <2>3. {} \subseteq Parts /\ {} \union {"scheme"} = {"scheme"} /\ "scheme" # "path"
    OBVIOUS
  <2>4. Insert(Built(Upto(f, {})), "scheme", c) = Built(Upto(f, {} \union {"scheme"}))
    BY <1>1, <1>6, <2>3, InsertPart
  <2>5. Insert(NewUri, "scheme", c) = Built(Upto(f, {"scheme"}))
    BY <2>2, <2>3, <2>4
  <2>6. ParsedAuthority(Built(Upto(f, {"scheme"})), r, 0) = Built(Meaning(f))
    BY <1>6, AuthorityStep
  <2>7. Holdable(Upto(f, Parts)) /\ Upto(f, Parts) = Meaning(f)
    BY <1>6, UptoFacts, UptoEnds
  <2> QED
    BY <1>4, <2>1, <2>5, <2>6, <2>7
<1> QED
  BY <1>5, <1>6

-----------------------------------------------------------------------------
(* Cutting a text *)

\* The beginning of a text.
LEMMA HeadFacts ==
    ASSUME NEW s \in Text, NEW n \in 0 .. Len(s)
    PROVE  /\ Sub(s, 1, n) \in Text /\ Len(Sub(s, 1, n)) = n
           /\ \A i \in 1 .. n : Sub(s, 1, n)[i] = s[i]
<1> PICK a : a = Sub(s, 1, n)
  OBVIOUS
<1> PICK b : b = From(s, n)
  OBVIOUS
<1>1. a \in Text /\ Len(a) = n /\ b \in Text /\ s = Cat(a, b)
  BY SplitAt
<1>2. \A i \in 1 .. Len(a) : Cat(a, b)[i] = a[i]
  BY <1>1, ConcatFacts
<1>3. \A i \in 1 .. n : s[i] = a[i]
  BY <1>1, <1>2
<1> QED
  BY <1>1, <1>3

\* A text is what is cut off and what is behind the cut.
LEMMA CutText ==
    ASSUME NEW text \in Text, NEW c \in Byte, NEW k, k = Cut(text, c)
    PROVE  /\ k[1] \in Text /\ Free(k[1], {c})
           /\ \A B : Free(text, B) => Free(k[1], B)
           /\ \/ Len(k) = 1 /\ text = k[1]
              \/ /\ Len(k) = 2 /\ k[2] \in Text /\ text = Cat(k[1], Cat(<<c>>, k[2]))
                 /\ \A B : Free(text, B) => Free(k[2], B)
<1> PICK n : n = Span(text, {c})
  OBVIOUS
<1>1. /\ n \in 0 .. Len(text) /\ Len(text) \in Nat
      /\ \A i \in 1 .. n : text[i] \notin {c}
  BY SpanFacts, TextFacts
<1>2. CASE n = Len(text)
  <2>1. k = <<text>> /\ \A i \in 1 .. Len(text) : text[i] # c
    BY <1>2, CutFacts
  <2>2. k[1] = text /\ Len(k) = 1
    BY <2>1
  <2> QED
    BY <2>1, <2>2 DEF Free
<1>3. CASE n # Len(text)
  <2>1. text[n + 1] = c /\ k = <<Sub(text, 1, n), From(text, n + 1)>> /\ n + 1 \in 0 .. Len(text)
    BY <1>1, <1>3, CutFacts
  <2> PICK a : a = Sub(text, 1, n)
    OBVIOUS
  <2> PICK b : b = From(text, n + 1)
    OBVIOUS
  <2>2. k[1] = a /\ k[2] = b /\ Len(k) = 2
    BY <2>1
  <2>3. /\ a \in Text /\ Len(a) = n /\ \A i \in 1 .. n : a[i] = text[i]
    BY <1>1, HeadFacts
  <2>4. /\ b \in Text /\ Len(b) = Len(text) - (n + 1)
        /\ \A i \in 1 .. Len(text) - (n + 1) : b[i] = text[n + 1 + i]
    BY <2>1, FromFacts
  <2>5. Free(a, {c})
    BY <1>1, <2>3 DEF Free
  <2>6. ASSUME NEW B, Free(text, B) PROVE Free(a, B) /\ Free(b, B)
    <3>1. \A i \in 1 .. n : i \in 1 .. Len(text)
      BY <1>1
    <3>2. \A i \in 1 .. Len(text) - (n + 1) : n + 1 + i \in 1 .. Len(text)
      BY <1>1
    <3>3. Free(a, B)
      BY <2>3, <2>6, <3>1 DEF Free
    <3>4. Free(b, B)
      BY <2>4, <2>6, <3>2 DEF Free
    <3> QED
      BY <3>3, <3>4
  <2>7. text = Cat(a, Cat(<<c>>, b))
    <3> PICK r : r = From(text, n)
      OBVIOUS
    <3>1. text = Cat(a, r) /\ r \in Text
      BY <1>1, SplitAt
    <3>2. Len(r) = Len(text) - n /\ \A i \in 1 .. Len(text) - n : r[i] = text[n + i]
      BY <1>1, FromFacts
    <3>3. \A y \in Text : /\ Cat(<<c>>, y) \in Text /\ Len(Cat(<<c>>, y)) = 1 + Len(y)
                          /\ Cat(<<c>>, y)[1] = c
                          /\ \A i \in 1 .. Len(y) : Cat(<<c>>, y)[1 + i] = y[i]
      BY ByteBefore
    <3>4. /\ Cat(<<c>>, b) \in Text /\ Len(Cat(<<c>>, b)) = 1 + Len(b) /\ Cat(<<c>>, b)[1] = c
      BY <2>4, <3>3, Zenon
    <3>5. \A i \in 1 .. Len(b) : Cat(<<c>>, b)[1 + i] = b[i]
      BY <2>4, <3>3, Zenon
    <3>6. Len(r) = Len(Cat(<<c>>, b))
      BY <1>1, <2>1, <2>4, <3>2, <3>4
    <3>7. ASSUME NEW i \in 1 .. Len(r) PROVE r[i] = Cat(<<c>>, b)[i]
      <4>1. i \in 1 .. Len(text) - n /\ r[i] = text[n + i]
        BY <3>2
      <4>2. CASE i = 1
        BY <2>1, <3>4, <4>1, <4>2
      <4>3. CASE i # 1
        <5>1. i - 1 \in 1 .. Len(b) /\ i - 1 \in 1 .. Len(text) - (n + 1)
          <6>1. i \in Int /\ 1 <= i /\ i <= Len(text) - n /\ n \in Int /\ Len(text) \in Int
            BY <1>1, <4>1
          <6>2. 1 <= i - 1 /\ i - 1 <= Len(text) - (n + 1) /\ i - 1 \in Int
            BY <4>3, <6>1
          <6> QED
            BY <2>4, <6>1, <6>2
        <5>2. 1 + (i - 1) = i /\ n + 1 + (i - 1) = n + i
          BY <1>1
        <5>3. Cat(<<c>>, b)[1 + (i - 1)] = b[i - 1] /\ b[i - 1] = text[n + 1 + (i - 1)]
          BY <2>4, <3>5, <5>1
        <5> QED
          BY <4>1, <5>2, <5>3
      <4> QED
        BY <4>2, <4>3
    <3>8. r = Cat(<<c>>, b)
      BY <3>1, <3>4, <3>6, <3>7, SameText
    <3> QED
      BY <3>1, <3>8, Zenon
  <2> QED
    BY <2>2, <2>3, <2>4, <2>5, <2>6, <2>7
<1> QED
  BY <1>2, <1>3

\* A cut behind a text does not change it.
LEMMA CutHead ==
    ASSUME NEW h \in Text, NEW r \in Text, NEW c \in Byte, Free(h, {c})
    PROVE  \E w \in Text : Cut(Cat(h, r), c)[1] = Cat(h, w)
<1> PICK text : text = Cat(h, r)
  OBVIOUS
<1> PICK n : n = Span(text, {c})
  OBVIOUS
<1>1. text \in Text /\ Len(text) \in Nat /\ Len(h) \in Nat /\ Len(r) \in Nat
  BY ConcatFacts, TextFacts
<1>2. Len(text) = Len(h) + Len(r) /\ \A i \in 1 .. Len(h) : text[i] = h[i]
  BY ConcatFacts
<1>3. n \in 0 .. Len(text)
  BY <1>1, SpanFacts
<1>4. CASE n = Len(text)
  <2>1. Cut(text, c) = <<text>>
    BY <1>1, <1>4, CutFacts
  <2>2. Cut(text, c)[1] = text
    BY <2>1
  <2> QED
    BY <2>2
<1>5. CASE n # Len(text)
  <2>1. text[n + 1] = c /\ Cut(text, c) = <<Sub(text, 1, n), From(text, n + 1)>>
    BY <1>1, <1>5, CutFacts
  <2>2. Cut(text, c)[1] = Sub(text, 1, n)
    BY <2>1
  <2>3. n >= Len(h)
    <3> SUFFICES ASSUME ~(n >= Len(h)) PROVE FALSE
      OBVIOUS
    <3>1. n + 1 \in 1 .. Len(h)
      BY <1>1, <1>3
    <3> QED
      BY <1>2, <2>1, <3>1 DEF Free
  <2>4. Len(h) \in 0 .. Len(text) /\ n \in Len(h) .. Len(h) + Len(r) /\ n \in Nat
    BY <1>1, <1>2, <1>3, <2>3
  <2>5. Sub(text, 1, n) \in Text
    BY <1>1, <1>3, SplitAt
  <2> PICK s : s = Sub(text, 1, n)
    OBVIOUS
  <2>6. Len(s) = n /\ \A i \in 1 .. n : s[i] = text[i]
    BY <1>1, <1>3, HeadFacts
  <2>7. Len(h) \in 0 .. Len(s)
    BY <2>4, <2>6
  <2>8. /\ Sub(s, 1, Len(h)) \in Text /\ Len(Sub(s, 1, Len(h))) = Len(h)
        /\ From(s, Len(h)) \in Text /\ s = Cat(Sub(s, 1, Len(h)), From(s, Len(h)))
    BY <2>5, <2>7, SplitAt
  <2>9. Sub(s, 1, Len(h)) = h
    <3>1. \A i \in 1 .. Len(h) : Sub(s, 1, Len(h))[i] = s[i]
      BY <2>5, <2>7, HeadFacts
    <3>2. \A i \in 1 .. Len(h) : i \in 1 .. n
      BY <1>1, <2>4
    <3>3. \A i \in 1 .. Len(h) : Sub(s, 1, Len(h))[i] = h[i]
      BY <1>2, <2>6, <3>1, <3>2
    <3> QED
      BY <2>8, <3>3, SameText
  <2> QED
    BY <2>2, <2>8, <2>9
<1> QED
  BY <1>4, <1>5

\* The text before the query and the fragment, cut at the first colon.
Stem(text) == Cut(Cut(Cut(text, Hash)[1], Question)[1], Colon)

\* There is a scheme.
HasScheme(text) == Len(Stem(text)) = 2 /\ Stem(text)[1] # <<>> /\ Allowed("scheme", Stem(text)[1])

\* The bytes of a scheme are none of the delimiters.
LEMMA SchemeBytes ==
    /\ SchemeByte \subseteq Byte
    /\ Colon \notin SchemeByte /\ Slash \notin SchemeByte
    /\ Question \notin SchemeByte /\ Hash \notin SchemeByte
    /\ Hash # Colon /\ Question # Colon /\ Hash # Question /\ Slash # Question /\ Slash # Hash
BY DEF SchemeByte, Alnum, Digit, Upper, Lower, Byte, Colon, Slash, Question, Hash

\* What a setter of the scheme allows.
LEMMA AllowedScheme ==
    ASSUME NEW t \in Text
    PROVE  Allowed("scheme", t) <=> Free(t, Byte \ SchemeByte)
<1>1. Allowed("scheme", t) <=> \A i \in 1 .. Len(t) : t[i] \notin StopOf("scheme")
  BY AllowedIs DEF Checking
<1>2. StopOf("scheme") = Byte \ SchemeByte
  BY DEF StopOf
<1> QED
  BY <1>1, <1>2 DEF Free

\* A scheme has none of the delimiters.
LEMMA FreeScheme ==
    ASSUME NEW t \in Text, Free(t, Byte \ SchemeByte)
    PROVE  Free(t, {Hash}) /\ Free(t, {Question}) /\ Free(t, {Colon})
BY SchemeBytes, Delimiters DEF Free

\* A text with one byte more than another one.
LEMMA OneMore ==
    ASSUME NEW n \in Nat, NEW c \in Byte, NEW a \in Text, Len(a) = n,
           NEW h \in Text, Len(h) = n + 1, \A i \in 1 .. n : h[i] = a[i], h[n + 1] = c
    PROVE  h = Cat(a, <<c>>)
<1>1. <<c>> \in Text /\ Len(<<c>>) = 1 /\ <<c>>[1] = c
  BY OneByte
<1>2. /\ Cat(a, <<c>>) \in Text /\ Len(Cat(a, <<c>>)) = Len(a) + Len(<<c>>)
      /\ \A i \in 1 .. Len(a) : Cat(a, <<c>>)[i] = a[i]
      /\ \A i \in 1 .. Len(<<c>>) : Cat(a, <<c>>)[Len(a) + i] = <<c>>[i]
  BY <1>1, ConcatFacts
<1>3. Cat(a, <<c>>)[n + 1] = c
  BY <1>1, <1>2
<1>4. Len(Cat(a, <<c>>)) = n + 1
  BY <1>1, <1>2
<1>5. ASSUME NEW i \in 1 .. n + 1 PROVE h[i] = Cat(a, <<c>>)[i]
  <2>1. CASE i = n + 1
    BY <1>3, <2>1
  <2>2. CASE i # n + 1
    <3>1. i \in 1 .. n
      BY <2>2
    <3> QED
      BY <1>2, <3>1
  <2> QED
    BY <2>1, <2>2
<1>6. \A i \in 1 .. Len(h) : h[i] = Cat(a, <<c>>)[i]
  BY <1>5
<1> QED
  BY <1>2, <1>4, <1>6, SameText

\* parse() refuses a text without a scheme.
LEMMA NoScheme ==
    ASSUME NEW text \in Text, ~HasScheme(text)
    PROVE  parse(text) = NewUri
<1> PICK n : n = parseUriScheme(text)
  OBVIOUS
<1> PICK m : m = Span(text, Byte \ SchemeByte)
  OBVIOUS
<1> SUFFICES ASSUME n # 0, ByteAt(text, n, Colon) PROVE FALSE
  BY Zenon DEF parse
<1>1. /\ m \in 0 .. Len(text) /\ Len(text) \in Nat
      /\ \A i \in 1 .. m : text[i] \notin Byte \ SchemeByte
  BY SpanFacts, TextFacts
<1>2. n = m % Width /\ m \in Nat
  BY <1>1 DEF parseUriScheme
<1>3. n \in Nat /\ n <= m
  BY <1>2, ModFacts
<1>4. n < Len(text) /\ n + 1 \in 1 .. Len(text) /\ text[n + 1] = Colon
  BY <1>3, ByteAtFacts
<1>5. n = m
  <2> SUFFICES ASSUME n < m PROVE FALSE
    BY <1>2, <1>3
  <2>1. n + 1 \in 1 .. m
    BY <1>2, <1>3
  <2> QED
    BY <1>1, <1>4, <2>1, SchemeBytes, Delimiters
<1> PICK a : a = Sub(text, 1, n)
  OBVIOUS
<1>6. a \in Text /\ Len(a) = n /\ \A i \in 1 .. n : a[i] = text[i]
  BY <1>1, <1>5, HeadFacts
<1>7. Free(a, Byte \ SchemeByte)
  BY <1>1, <1>5, <1>6 DEF Free
<1>8. a # <<>>
  BY <1>6, EmptyText
<1> PICK h : h = Sub(text, 1, n + 1)
  OBVIOUS
<1> PICK b : b = From(text, n + 1)
  OBVIOUS
<1>9. h \in Text /\ b \in Text /\ text = Cat(h, b) /\ Len(h) = n + 1
        /\ \A i \in 1 .. n + 1 : h[i] = text[i]
  <2>1. n + 1 \in 0 .. Len(text)
    BY <1>1, <1>4
  <2>2. h \in Text /\ b \in Text /\ text = Cat(h, b)
    BY <2>1, SplitAt
  <2>3. Len(h) = n + 1 /\ \A i \in 1 .. n + 1 : h[i] = text[i]
    BY <2>1, HeadFacts
  <2> QED
    BY <2>2, <2>3
<1>10. h = Cat(a, <<Colon>>)
  <2>1. \A i \in 1 .. n : i \in 1 .. n + 1
    BY <1>3
  <2>2. n + 1 \in 1 .. n + 1 /\ Colon \in Byte
    BY <1>3, Delimiters
  <2>3. \A i \in 1 .. n : h[i] = a[i]
    BY <1>6, <1>9, <2>1
  <2>4. h[n + 1] = Colon
    BY <1>4, <1>9, <2>2
  <2> QED
    BY <1>3, <1>6, <1>9, <2>2, <2>3, <2>4, OneMore
<1>11. \A c \in {Hash, Question} : Free(h, {c})
  <2>1. ASSUME NEW i \in 1 .. n + 1 PROVE h[i] \in SchemeByte \union {Colon}
    <3>1. CASE i = n + 1
      BY <1>4, <1>9, <3>1
    <3>2. CASE i # n + 1
      <4>1. i \in 1 .. n
        BY <1>3, <3>2
      <4>2. a[i] \in Byte /\ a[i] \notin Byte \ SchemeByte
        BY <1>6, <1>7, <4>1, TextFacts DEF Free
      <4>3. h[i] = a[i]
        BY <1>6, <1>9, <4>1
      <4> QED
        BY <4>2, <4>3
    <3> QED
      BY <3>1, <3>2
  <2> QED
    BY <1>9, <2>1, SchemeBytes DEF Free
<1>12. PICK v \in Text : Cut(Cat(h, b), Hash)[1] = Cat(h, v)
  BY <1>9, <1>11, CutHead, Delimiters
<1>13. PICK w \in Text : Cut(Cat(h, v), Question)[1] = Cat(h, w)
  BY <1>9, <1>11, CutHead, Delimiters
<1>14. Stem(text) = Cut(Cat(h, w), Colon)
  BY <1>9, <1>12, <1>13 DEF Stem
<1> PICK rest : rest = Cat(<<Colon>>, w)
  OBVIOUS
<1> PICK all : all = Cat(a, rest)
  OBVIOUS
<1>15. Cat(h, w) = all
  BY <1>6, <1>10, ThreeTexts, OneByte, Delimiters
<1>16. rest \in Text /\ rest[1] = Colon /\ rest # <<>>
  BY OneByte, Delimiters, MarkFirst
<1>17. Span(all, {Colon}) = n
  <2>1. \A i \in 1 .. Len(a) : a[i] \notin {Colon}
    BY <1>6, <1>7, FreeScheme DEF Free
  <2>2. Span(Cat(a, rest), {Colon}) = Len(a)
    BY <1>6, <1>16, <2>1, SpanOfCat
  <2> QED
    BY <1>6, <2>2
<1>18. all \in Text /\ Len(all) > n
  <2>1. Len(Cat(a, rest)) = Len(a) + Len(rest) /\ Cat(a, rest) \in Text
    BY <1>6, <1>16, ConcatFacts
  <2>2. Len(rest) \in Nat \ {0}
    BY <1>16, TextFacts
  <2> QED
    BY <1>3, <1>6, <2>1, <2>2
<1>19. Cut(all, Colon) = <<Sub(all, 1, n), From(all, n + 1)>>
  BY <1>3, <1>17, <1>18, CutFacts
<1>20. Sub(all, 1, n) = a
  BY <1>6, <1>16, CatParts
<1>21. Len(Stem(text)) = 2 /\ Stem(text)[1] = a
  BY <1>14, <1>15, <1>19, <1>20
<1> QED
  BY <1>6, <1>7, <1>8, <1>21, AllowedScheme DEF HasScheme

\* Two bytes that are the same one.
LEMMA TwoAlike ==
    ASSUME NEW p \in Text, NEW c \in Byte, Len(p) = 2, p[1] = c, p[2] = c
    PROVE  p = Cat(<<c>>, <<c>>)
<1>1. /\ <<c>> \in Text /\ Len(<<c>>) = 1 /\ <<c>>[1] = c
      /\ Cat(<<c>>, <<c>>) \in Text /\ Len(Cat(<<c>>, <<c>>)) = 1 + Len(<<c>>)
      /\ Cat(<<c>>, <<c>>)[1] = c /\ \A i \in 1 .. Len(<<c>>) : Cat(<<c>>, <<c>>)[1 + i] = <<c>>[i]
  <2>1. <<c>> \in Text
    BY ByteBefore
  <2> QED
    BY <2>1, ByteBefore, Zenon
<1> PICK d : d = Cat(<<c>>, <<c>>)
  OBVIOUS
<1>2. d \in Text /\ Len(d) = 2 /\ d[1] = c /\ d[2] = c
  <2>1. d \in Text /\ Len(d) = 1 + Len(<<c>>) /\ d[1] = c /\ d[1 + 1] = <<c>>[1]
    BY <1>1
  <2> QED
    BY <1>1, <2>1
<1>3. \A i \in 1 .. 2 : i = 1 \/ i = 2
  OBVIOUS
<1>4. \A i \in 1 .. 2 : p[i] = d[i]
  BY <1>2, <1>3
<1>5. p = d
  BY <1>2, <1>4, SameText
<1> QED
  BY <1>5

\* A text that begins with two slashes.
LEMMA TwoSlashes ==
    ASSUME NEW t \in Text
    PROVE  /\ IsPrefix(<<Slash, Slash>>, t) <=> ByteAt(t, 0, Slash) /\ ByteAt(t, 1, Slash)
           /\ IsPrefix(<<Slash, Slash>>, t) => From(t, 2) \in Text /\ t = Slashes(From(t, 2))
<1>1. Len(t) \in Nat
  BY TextFacts
<1> PICK p : p = <<Slash, Slash>>
  OBVIOUS
<1>2. Len(p) = 2 /\ p[1] = Slash /\ p[2] = Slash
  OBVIOUS
<1>3. p \in Text
  BY Delimiters DEF Text
<1>4. SubSeq(p, 1, 2) = p
  <2>1. 2 \in 0 .. Len(p) /\ 1 .. 2 = 1 .. Len(p)
    BY <1>2
  <2>2. Sub(p, 1, 2) \in Text /\ Len(Sub(p, 1, 2)) = 2 /\ \A i \in 1 .. 2 : Sub(p, 1, 2)[i] = p[i]
    BY <1>3, <2>1, HeadFacts
  <2>3. Sub(p, 1, 2) = p
    BY <1>2, <1>3, <2>2, SameText
  <2> QED
    BY <2>3, Zenon DEF Sub
<1>5. IsPrefix(p, t) <=> 2 <= Len(t) /\ p = Sub(t, 1, 2)
  BY <1>2, <1>4, Zenon DEF IsPrefix, Sub
<1>6. ByteAt(t, 0, Slash) /\ ByteAt(t, 1, Slash) <=> 2 <= Len(t) /\ t[1] = Slash /\ t[2] = Slash
  BY <1>1 DEF ByteAt
<1>7. CASE ~(2 <= Len(t))
  BY <1>5, <1>6, <1>7
<1>8. CASE 2 <= Len(t)
  <2>1. 2 \in 0 .. Len(t)
    BY <1>1, <1>8
  <2>2. Sub(t, 1, 2) \in Text /\ Len(Sub(t, 1, 2)) = 2 /\ \A i \in 1 .. 2 : Sub(t, 1, 2)[i] = t[i]
    BY <2>1, HeadFacts
  <2>3. Sub(t, 1, 2)[1] = t[1] /\ Sub(t, 1, 2)[2] = t[2]
    BY <2>2
  <2>4. p = Sub(t, 1, 2) => t[1] = Slash /\ t[2] = Slash
    BY <1>2, <2>3
  <2>5. t[1] = Slash /\ t[2] = Slash => p = Sub(t, 1, 2)
    <3> HAVE t[1] = Slash /\ t[2] = Slash
    <3>1. \A i \in 1 .. 2 : p[i] = Sub(t, 1, 2)[i]
      <4>1. \A i \in 1 .. 2 : i = 1 \/ i = 2
        OBVIOUS
      <4> QED
        BY <1>2, <2>3, <4>1
    <3> QED
      BY <1>2, <1>3, <2>2, <3>1, SameText
  <2>6. From(t, 2) \in Text /\ t = Cat(Sub(t, 1, 2), From(t, 2))
    BY <2>1, SplitAt
  <2>7. p = Sub(t, 1, 2) => t = Slashes(From(t, 2))
    <3> HAVE p = Sub(t, 1, 2)
    <3>1. p = Cat(<<Slash>>, <<Slash>>)
      <4>1. Slash \in Byte
        BY Delimiters
      <4> QED
        BY <1>2, <1>3, <4>1, TwoAlike, Zenon
    <3>2. Cat(Cat(<<Slash>>, <<Slash>>), From(t, 2)) = Cat(<<Slash>>, Cat(<<Slash>>, From(t, 2)))
      BY <2>6, ThreeTexts, OneByte, Delimiters
    <3>3. t = Cat(Cat(<<Slash>>, <<Slash>>), From(t, 2))
      BY <2>6, <3>1, Zenon
    <3> QED
      BY <3>2, <3>3, Zenon DEF Slashes
  <2> QED
    BY <1>5, <1>6, <1>8, <2>4, <2>5, <2>6, <2>7
<1> QED
  BY <1>7, <1>8

\* The raw parts, one by one.
IsRaw(text, f, q, s, rest, a, has, g) ==
    /\ f = Cut(text, Hash) /\ q = Cut(f[1], Question) /\ s = Cut(q[1], Colon) /\ rest = s[2]
    /\ a = Cut(From(rest, 2), Slash) /\ (has <=> IsPrefix(<<Slash, Slash>>, rest))
    /\ g = RawParts(text)
    /\ DOMAIN g = {"scheme", "path"} \union (IF has THEN {"authority"} ELSE {})
                        \union (IF Len(q) = 2 THEN {"query"} ELSE {})
                        \union (IF Len(f) = 2 THEN {"fragment"} ELSE {})
    /\ g["scheme"] = s[1] /\ (has => g["authority"] = a[1])
    /\ g["path"] = IF has THEN IF Len(a) = 1 THEN <<>> ELSE <<Slash>> \o a[2] ELSE rest
    /\ Len(q) = 2 => g["query"] = q[2]
    /\ Len(f) = 2 => g["fragment"] = f[2]

\* RawParts has them.
LEMMA RawIs ==
    ASSUME NEW text
    PROVE  \E f, q, s, rest, a, has, g : IsRaw(text, f, q, s, rest, a, has, g)
<1> PICK f : f = Cut(text, Hash)
  OBVIOUS
<1> PICK q : q = Cut(f[1], Question)
  OBVIOUS
<1> PICK s : s = Cut(q[1], Colon)
  OBVIOUS
<1> PICK rest : rest = s[2]
  OBVIOUS
<1> PICK a : a = Cut(From(rest, 2), Slash)
  OBVIOUS
<1> PICK has : has <=> IsPrefix(<<Slash, Slash>>, rest)
  OBVIOUS
<1> PICK g : g = RawParts(text)
  OBVIOUS
<1> DEFINE path == IF IsPrefix(<<Slash, Slash>>, rest)
                   THEN IF Len(a) = 1 THEN <<>> ELSE <<Slash>> \o a[2]
                   ELSE rest
           D == {"scheme", "path"}
                    \union (IF IsPrefix(<<Slash, Slash>>, rest) THEN {"authority"} ELSE {})
                    \union (IF Len(q) = 2 THEN {"query"} ELSE {})
                    \union (IF Len(f) = 2 THEN {"fragment"} ELSE {})
<1>1. g = [p \in D |->
            CASE p = "scheme" -> s[1]
              [] p = "authority" -> a[1]
              [] p = "path" -> path
              [] p = "query" -> q[2]
              [] p = "fragment" -> f[2]]
  BY Zenon DEF RawParts
<1>2. path = IF has THEN IF Len(a) = 1 THEN <<>> ELSE <<Slash>> \o a[2] ELSE rest
  OBVIOUS
<1> HIDE DEF path
<1>3. DOMAIN g = D /\ \A p \in D : g[p] =
            CASE p = "scheme" -> s[1]
              [] p = "authority" -> a[1]
              [] p = "path" -> path
              [] p = "query" -> q[2]
              [] p = "fragment" -> f[2]
  BY <1>1
<1>4. /\ "scheme" \in D /\ "path" \in D /\ (has => "authority" \in D)
      /\ (Len(q) = 2 => "query" \in D) /\ (Len(f) = 2 => "fragment" \in D)
  OBVIOUS
<1>5. D = {"scheme", "path"} \union (IF has THEN {"authority"} ELSE {})
                            \union (IF Len(q) = 2 THEN {"query"} ELSE {})
                            \union (IF Len(f) = 2 THEN {"fragment"} ELSE {})
  OBVIOUS
<1> HIDE DEF D
<1>6. g["scheme"] = s[1] /\ g["path"] = path
  BY <1>3, <1>4
<1>7. has => g["authority"] = a[1]
  BY <1>3, <1>4
<1>8. Len(q) = 2 => g["query"] = q[2]
  BY <1>3, <1>4
<1>9. Len(f) = 2 => g["fragment"] = f[2]
  BY <1>3, <1>4
<1>10. IsRaw(text, f, q, s, rest, a, has, g)
  BY <1>2, <1>3, <1>5, <1>6, <1>7, <1>8, <1>9, Zenon DEF IsRaw
<1> QED
  BY <1>10, Zenon

\* A text without some bytes, and another one behind it that begins with others,
\* begins with two slashes only if the first one does.
LEMMA TwoBytesOfCat ==
    ASSUME NEW a \in Text, NEW b \in Text, Opens(b, {Question, Hash}),
           ~(ByteAt(a, 0, Slash) /\ ByteAt(a, 1, Slash))
    PROVE  ~(ByteAt(Cat(a, b), 0, Slash) /\ ByteAt(Cat(a, b), 1, Slash))
<1> SUFFICES ASSUME ByteAt(Cat(a, b), 0, Slash), ByteAt(Cat(a, b), 1, Slash) PROVE FALSE
  OBVIOUS
<1> PICK t : t = Cat(a, b)
  OBVIOUS
<1>1. t \in Text /\ Len(a) \in Nat /\ Len(b) \in Nat
  BY ConcatFacts, TextFacts
<1>2. t[1] = Slash /\ t[2] = Slash
  <2>1. t[0 + 1] = Slash /\ t[1 + 1] = Slash
    BY <1>1, ByteAtFacts
  <2> QED
    BY <2>1
<1>3. Len(t) >= 2
  <2>1. 1 < Len(t) /\ Len(t) \in Nat
    BY <1>1, ByteAtFacts, TextFacts
  <2> QED
    BY <2>1
<1>4. \A i \in 1 .. Len(a) : t[i] = a[i]
  BY ConcatFacts
<1>5. ~(Len(a) >= 2)
  <2> SUFFICES ASSUME Len(a) >= 2 PROVE FALSE
    OBVIOUS
  <2>1. 1 \in 1 .. Len(a) /\ 2 \in 1 .. Len(a)
    BY <1>1
  <2>2. a[1] = Slash /\ a[2] = Slash
    BY <1>2, <1>4, <2>1
  <2> QED
    BY <1>1, <2>2 DEF ByteAt
<1>6. t[Len(a) + 1] = Slash
  BY <1>1, <1>2, <1>5
<1>7. Len(t) = Len(a) + Len(b)
  BY ConcatFacts
<1>8. 1 \in 1 .. Len(b)
  BY <1>1, <1>3, <1>5, <1>7
<1>9. t[Len(a) + 1] = b[1]
  BY <1>8, ConcatFacts
<1>10. b # <<>>
  BY <1>8, EmptyText
<1> QED
  BY <1>6, <1>9, <1>10, SchemeBytes DEF Opens

\* A slash before a text.
LEMMA FreeBehind ==
    ASSUME NEW t \in Text, Free(t, {Question}), Free(t, {Hash})
    PROVE  Free(Cat(<<Slash>>, t), {Question, Hash})
<1> PICK u : u = Cat(<<Slash>>, t)
  OBVIOUS
<1>1. u[1] = Slash /\ Len(u) = Len(t) + 1 /\ Len(t) \in Nat /\ Len(<<Slash>>) = 1
        /\ <<Slash>> \in Text
  BY OneByte, Delimiters, TextFacts
<1>2. \A i \in 1 .. Len(t) : u[Len(<<Slash>>) + i] = t[i]
  BY <1>1, ConcatFacts
<1>3. \A i \in 1 .. Len(t) : u[1 + i] = t[i]
  BY <1>1, <1>2
<1>4. ASSUME NEW i \in 1 .. Len(u) PROVE u[i] \notin {Question, Hash}
  <2>1. CASE i = 1
    BY <1>1, <2>1, SchemeBytes
  <2>2. CASE i # 1
    <3>1. i - 1 \in 1 .. Len(t) /\ 1 + (i - 1) = i
      BY <1>1, <2>2
    <3>2. u[1 + (i - 1)] = t[i - 1]
      BY <1>3, <3>1
    <3> QED
      BY <3>1, <3>2 DEF Free
  <2> QED
    BY <2>1, <2>2
<1> QED
  BY <1>4 DEF Free

\* A text between.
LEMMA SlashesBefore ==
    ASSUME NEW w \in Text, NEW z \in Text
    PROVE  Slashes(Cat(w, z)) = Cat(Slashes(w), z)
<1>1. <<Slash>> \in Text /\ Cat(<<Slash>>, w) \in Text
  BY OneByte, Delimiters
<1>2. Cat(Cat(<<Slash>>, Cat(<<Slash>>, w)), z) = Cat(<<Slash>>, Cat(Cat(<<Slash>>, w), z))
  BY <1>1, ThreeTexts
<1>3. Cat(Cat(<<Slash>>, w), z) = Cat(<<Slash>>, Cat(w, z))
  BY <1>1, ThreeTexts
<1> QED
  BY <1>2, <1>3, Zenon DEF Slashes

\* A text cut at its first colon.
LEMMA StemCut ==
    ASSUME NEW t \in Text, Free(t, {Question}), Free(t, {Hash}), NEW k, k = Cut(t, Colon)
    PROVE  /\ k[1] \in Text
           /\ \/ Len(k) = 1 /\ t = k[1]
              \/ /\ Len(k) = 2 /\ k[2] \in Text /\ t = Cat(k[1], Cat(<<Colon>>, k[2]))
                 /\ Free(k[2], {Question}) /\ Free(k[2], {Hash})
BY CutText, Delimiters

\* The parts between the delimiters are the text, and can be told apart in it.
LEMMA RawFacts ==
    ASSUME NEW text \in Text, HasScheme(text)
    PROVE  WellFormed(RawParts(text)) /\ Written(RawParts(text)) = text
<1> PICK f, q, s, rest, a, has, g : IsRaw(text, f, q, s, rest, a, has, g)
  BY RawIs
<1>01. f = Cut(text, Hash)
  BY DEF IsRaw
<1>02. q = Cut(f[1], Question)
  BY DEF IsRaw
<1>03. s = Cut(q[1], Colon)
  BY DEF IsRaw
<1>07. rest = s[2]
  BY DEF IsRaw
<1>04. a = Cut(From(rest, 2), Slash)
  BY DEF IsRaw
<1>05. has <=> IsPrefix(<<Slash, Slash>>, rest)
  BY DEF IsRaw
<1>06. g = RawParts(text)
  BY DEF IsRaw
<1>1. /\ f[1] \in Text /\ Free(f[1], {Hash})
      /\ \/ Len(f) = 1 /\ text = f[1]
         \/ Len(f) = 2 /\ f[2] \in Text /\ text = Cat(f[1], Cat(<<Hash>>, f[2]))
  BY <1>01, CutText, Delimiters
<1>2. /\ q[1] \in Text /\ Free(q[1], {Question}) /\ Free(q[1], {Hash})
      /\ \/ Len(q) = 1 /\ f[1] = q[1]
         \/ /\ Len(q) = 2 /\ q[2] \in Text /\ f[1] = Cat(q[1], Cat(<<Question>>, q[2]))
            /\ Free(q[2], {Hash})
  BY <1>1, <1>02, CutText, Delimiters
<1>3. /\ s[1] \in Text /\ s[1] # <<>> /\ Free(s[1], Byte \ SchemeByte)
      /\ rest \in Text /\ q[1] = Cat(s[1], Cat(<<Colon>>, rest))
      /\ Free(rest, {Question}) /\ Free(rest, {Hash})
  <2>1. s = Stem(text)
    BY <1>01, <1>02, <1>03, Zenon DEF Stem
  <2>2. Len(s) = 2 /\ s[1] # <<>> /\ Allowed("scheme", s[1])
    BY <2>1 DEF HasScheme
  <2>3. q[1] \in Text /\ Free(q[1], {Question}) /\ Free(q[1], {Hash})
    BY <1>2
  <2>4. /\ s[1] \in Text
        /\ \/ Len(s) = 1 /\ q[1] = s[1]
           \/ /\ Len(s) = 2 /\ s[2] \in Text /\ q[1] = Cat(s[1], Cat(<<Colon>>, s[2]))
              /\ Free(s[2], {Question}) /\ Free(s[2], {Hash})
    BY <1>03, <2>3, StemCut
  <2>5. s[1] # <<>> /\ Free(s[1], Byte \ SchemeByte)
    BY <2>2, <2>4, AllowedScheme
  <2> QED
    BY <1>07, <2>2, <2>4, <2>5
<1>4. /\ DOMAIN g = {"scheme", "path"} \union (IF has THEN {"authority"} ELSE {})
                        \union (IF Len(q) = 2 THEN {"query"} ELSE {})
                        \union (IF Len(f) = 2 THEN {"fragment"} ELSE {})
      /\ g["scheme"] = s[1] /\ (has => g["authority"] = a[1])
      /\ g["path"] = IF has THEN IF Len(a) = 1 THEN <<>> ELSE <<Slash>> \o a[2] ELSE rest
      /\ Len(q) = 2 => g["query"] = q[2]
      /\ Len(f) = 2 => g["fragment"] = f[2]
  BY Zenon DEF IsRaw
<1>5. /\ "fragment" \in DOMAIN g <=> Len(f) = 2
      /\ "query" \in DOMAIN g <=> Len(q) = 2
      /\ "authority" \in DOMAIN g <=> has
      /\ {"scheme", "path"} \subseteq DOMAIN g /\ DOMAIN g \subseteq Parts
      /\ \A p \in DOMAIN g : p \in {"scheme", "path", "authority", "query", "fragment"}
  BY <1>4 DEF Parts
<1>6. FragmentText(g) \in Text /\ Opens(FragmentText(g), {Hash})
        /\ text = Cat(f[1], FragmentText(g))
  <2>1. CASE Len(f) = 2
    <3>1. FragmentText(g) = Cat(<<Hash>>, f[2])
      BY <1>4, <1>5, <2>1, Zenon DEF FragmentText
    <3>2. f[2] \in Text /\ text = Cat(f[1], Cat(<<Hash>>, f[2]))
      BY <1>1, <2>1
    <3>3. Cat(<<Hash>>, f[2]) \in Text /\ Cat(<<Hash>>, f[2])[1] = Hash
      BY <3>2, OneByte, Delimiters
    <3> QED
      BY <3>1, <3>2, <3>3 DEF Opens
  <2>2. CASE Len(f) # 2
    <3>1. FragmentText(g) = <<>>
      BY <1>5, <2>2, Zenon DEF FragmentText
    <3>2. text = f[1]
      BY <1>1, <2>2
    <3> QED
      BY <1>1, <3>1, <3>2, EmptyText DEF Opens
  <2> QED
    BY <2>1, <2>2
<1>7. QueryText(g) \in Text /\ Opens(QueryText(g), {Question, Hash})
        /\ text = Cat(q[1], QueryText(g))
  <2> PICK r : r = FragmentText(g)
    OBVIOUS
  <2>1. CASE Len(q) = 2
    <3>1. QueryText(g) = Cat(<<Question>>, Cat(q[2], r))
      BY <1>4, <1>5, <2>1, Zenon DEF QueryText
    <3>2. q[2] \in Text /\ f[1] = Cat(q[1], Cat(<<Question>>, q[2]))
      BY <1>2, <2>1
    <3>3. /\ Cat(<<Question>>, q[2]) \in Text /\ <<Question>> \in Text /\ Cat(q[2], r) \in Text
      BY <1>6, <3>2, OneByte, Delimiters, ConcatFacts
    <3>4. Cat(<<Question>>, Cat(q[2], r)) \in Text /\ Cat(<<Question>>, Cat(q[2], r))[1] = Question
      BY <3>3, OneByte, Delimiters
    <3> PICK b : b = q[2]
      OBVIOUS
    <3>4a. q[1] \in Text /\ b \in Text /\ r \in Text /\ <<Question>> \in Text
             /\ Cat(<<Question>>, b) \in Text
      BY <1>2, <1>6, <3>2, <3>3
    <3>5. Cat(Cat(q[1], Cat(<<Question>>, q[2])), r) = Cat(q[1], Cat(Cat(<<Question>>, q[2]), r))
      BY <3>4a, ThreeTexts
    <3>6. Cat(Cat(<<Question>>, q[2]), r) = Cat(<<Question>>, Cat(q[2], r))
      BY <3>4a, ThreeTexts
    <3>7. text = Cat(q[1], QueryText(g))
      BY <1>6, <3>1, <3>2, <3>5, <3>6, Zenon
    <3> QED
      BY <3>1, <3>4, <3>7 DEF Opens
  <2>2. CASE Len(q) # 2
    <3>1. QueryText(g) = r
      BY <1>5, <2>2, Zenon DEF QueryText
    <3>2. f[1] = q[1]
      BY <1>2, <2>2
    <3> QED
      BY <1>6, <3>1, <3>2 DEF Opens
  <2> QED
    BY <2>1, <2>2
<1> PICK z : z = QueryText(g)
  OBVIOUS
<1> PICK p : p = g["path"]
  OBVIOUS
<1>8. /\ p \in Text /\ Free(p, {Question, Hash})
      /\ has
              => /\ g["authority"] \in Text /\ Free(g["authority"], {Slash, Question, Hash})
                 /\ Opens(p, {Slash})
      /\ ~has => ~(ByteAt(PathText(g), 0, Slash) /\ ByteAt(PathText(g), 1, Slash))
      /\ AuthorityText(g) = Cat(rest, z)
  <2>1. CASE ~has
    <3>1. p = rest /\ "authority" \notin DOMAIN g
      BY <1>4, <1>5, <2>1
    <3>2. PathText(g) = Cat(rest, z) /\ AuthorityText(g) = Cat(rest, z)
      BY <3>1, Zenon DEF AuthorityText, PathText
    <3>3. ~(ByteAt(rest, 0, Slash) /\ ByteAt(rest, 1, Slash))
      BY <1>3, <1>05, <2>1, TwoSlashes
    <3>4. ~(ByteAt(Cat(rest, z), 0, Slash) /\ ByteAt(Cat(rest, z), 1, Slash))
      BY <1>3, <1>7, <3>3, TwoBytesOfCat
    <3>5. Free(rest, {Question, Hash})
      BY <1>3 DEF Free
    <3> QED
      BY <1>3, <2>1, <3>1, <3>2, <3>4, <3>5
  <2>2. CASE has
    <3> PICK w : w = From(rest, 2)
      OBVIOUS
    <3>1. w \in Text /\ rest = Slashes(w)
      BY <1>3, <1>05, <2>2, TwoSlashes
    <3>2. Free(w, {Question}) /\ Free(w, {Hash})
      <4>1. /\ Len(rest) = Len(w) + 2 /\ \A i \in 1 .. Len(rest) - 2 : w[i] = rest[2 + i]
        <5>1. Len(Slashes(w)) = Len(w) + 2 /\ Len(w) \in Nat
          BY <3>1, SlashesFacts, TextFacts
        <5>2. 2 \in 0 .. Len(rest)
          BY <3>1, <5>1
        <5>3. \A i \in 1 .. Len(rest) - 2 : From(rest, 2)[i] = rest[2 + i]
          BY <1>3, <5>2, FromFacts
        <5> QED
          BY <3>1, <5>1, <5>3
      <4>2. Len(w) \in Nat
        BY <3>1, TextFacts
      <4>3. \A i \in 1 .. Len(w) : i \in 1 .. Len(rest) - 2 /\ 2 + i \in 1 .. Len(rest)
        BY <4>1, <4>2
      <4>4. Free(rest, {Question}) /\ Free(rest, {Hash})
        BY <1>3
      <4> QED
        BY <4>1, <4>3, <4>4 DEF Free
    <3>3. /\ a[1] \in Text /\ Free(a[1], {Slash}) /\ Free(a[1], {Question}) /\ Free(a[1], {Hash})
          /\ \/ Len(a) = 1 /\ w = a[1]
             \/ /\ Len(a) = 2 /\ a[2] \in Text /\ w = Cat(a[1], Cat(<<Slash>>, a[2]))
                /\ Free(a[2], {Question}) /\ Free(a[2], {Hash})
      BY <1>04, <3>1, <3>2, CutText, Delimiters
    <3>4. /\ p \in Text /\ Free(p, {Question, Hash}) /\ Opens(p, {Slash}) /\ w = Cat(a[1], p)
      <4>1. CASE Len(a) = 1
        <5>1. p = <<>>
          BY <1>4, <2>2, <4>1
        <5>2. w = a[1]
          BY <3>3, <4>1
        <5> QED
          <6>1. <<>> \in Text /\ Free(<<>>, {Question, Hash}) /\ Opens(<<>>, {Slash})
            BY EmptyText DEF Free, Opens
          <6>2. a[1] = Cat(a[1], <<>>)
            BY <3>3, EmptyText
          <6> QED
            BY <5>1, <5>2, <6>1, <6>2
      <4>2. CASE Len(a) # 1
        <5>1. p = Cat(<<Slash>>, a[2])
          BY <1>4, <2>2, <4>2, Zenon DEF Cat
        <5>2. a[2] \in Text /\ w = Cat(a[1], Cat(<<Slash>>, a[2])) /\ Free(a[2], {Question})
                /\ Free(a[2], {Hash})
          BY <3>3, <4>2
        <5>3. Cat(<<Slash>>, a[2]) \in Text /\ Cat(<<Slash>>, a[2])[1] = Slash
          BY <5>2, OneByte, Delimiters
        <5>4. Free(Cat(<<Slash>>, a[2]), {Question, Hash})
          BY <5>2, FreeBehind
        <5> QED
          BY <5>1, <5>2, <5>3, <5>4 DEF Opens
      <4> QED
        BY <4>1, <4>2
    <3>5. g["authority"] = a[1] /\ "authority" \in DOMAIN g
      BY <1>4, <1>5, <2>2
    <3>6. AuthorityText(g) = Slashes(Cat(a[1], Cat(p, z)))
      BY <3>5, Zenon DEF AuthorityText, PathText
    <3>7. Cat(a[1], Cat(p, z)) = Cat(w, z)
      <4>1. a[1] \in Text /\ p \in Text /\ z \in Text
        BY <1>7, <3>3, <3>4
      <4>2. Cat(Cat(a[1], p), z) = Cat(a[1], Cat(p, z))
        BY <4>1, ThreeTexts
      <4>3. w = Cat(a[1], p)
        BY <3>4
      <4> QED
        BY <4>2, <4>3, Zenon
    <3>8. Slashes(Cat(w, z)) = Cat(Slashes(w), z)
      BY <1>7, <3>1, SlashesBefore
    <3>9. AuthorityText(g) = Cat(rest, z)
      BY <3>1, <3>6, <3>7, <3>8, Zenon
    <3>10. Free(a[1], {Slash, Question, Hash})
      BY <3>3 DEF Free
    <3> QED
      BY <2>2, <3>3, <3>4, <3>5, <3>9, <3>10
  <2> QED
    BY <2>1, <2>2
<1>9. Written(g) = text
  <2>1. Written(g) = Cat(s[1], Cat(<<Colon>>, Cat(rest, z)))
    BY <1>4, <1>8, Zenon DEF Written
  <2>2. text = Cat(Cat(s[1], Cat(<<Colon>>, rest)), z)
    BY <1>3, <1>7, Zenon
  <2>3. /\ s[1] \in Text /\ rest \in Text /\ z \in Text
        /\ <<Colon>> \in Text /\ Cat(<<Colon>>, rest) \in Text
    BY <1>3, <1>7, OneByte, Delimiters
  <2>4. Cat(Cat(s[1], Cat(<<Colon>>, rest)), z) = Cat(s[1], Cat(Cat(<<Colon>>, rest), z))
    BY <2>3, ThreeTexts
  <2>5. Cat(Cat(<<Colon>>, rest), z) = Cat(<<Colon>>, Cat(rest, z))
    BY <2>3, ThreeTexts
  <2> QED
    BY <2>1, <2>2, <2>4, <2>5, Zenon
<1>10. WellFormed(g)
  <2>1. ASSUME NEW x \in DOMAIN g PROVE g[x] \in Text
    <3>1. CASE x = "scheme"
      BY <1>3, <1>4, <3>1
    <3>2. CASE x = "path"
      BY <1>8, <3>2
    <3>3. CASE x = "authority"
      BY <1>5, <1>8, <2>1, <3>3
    <3>4. CASE x = "query"
      BY <1>2, <1>4, <1>5, <2>1, <3>4
    <3>5. CASE x = "fragment"
      BY <1>1, <1>4, <1>5, <2>1, <3>5
    <3> QED
      BY <1>5, <3>1, <3>2, <3>3, <3>4, <3>5
  <2>2. "query" \in DOMAIN g => Free(g["query"], {Hash})
    BY <1>2, <1>4, <1>5
  <2>3. g["scheme"] # <<>> /\ Free(g["scheme"], Byte \ SchemeByte)
    BY <1>3, <1>4
  <2> QED
    BY <1>5, <1>8, <2>1, <2>2, <2>3 DEF WellFormed
<1> QED
  BY <1>06, <1>9, <1>10

-----------------------------------------------------------------------------
(* The invariants *)

\* parse() finds what the definition of a URI finds, unless a part is too long.
LEMMA ParseIsDenoted ==
    ASSUME NEW text \in Text
    PROVE  \/ parse(text) = Built(Denoted(text)) /\ Holdable(Denoted(text))
           \/ IsUri(text) /\ \E p \in DOMAIN RawParts(text) : Len(RawParts(text)[p]) >= Width
<1> PICK g : g = RawParts(text)
  OBVIOUS
<1>1. IsUri(text) <=> HasScheme(text) /\ ~Misplaced(g)
  <2>1. IsUri(text) <=>
            /\ Len(Stem(text)) = 2 /\ Stem(text)[1] # <<>> /\ Allowed("scheme", Stem(text)[1])
            /\ "authority" \in DOMAIN g /\ g["path"] = <<>>
                    => DOMAIN g \intersect {"query", "fragment"} = {}
    BY Zenon DEF IsUri, Stem
  <2>2. Misplaced(g) <=> ~("authority" \in DOMAIN g /\ g["path"] = <<>>
                                => DOMAIN g \intersect {"query", "fragment"} = {})
    BY DEF Misplaced
  <2> QED
    BY <2>1, <2>2, Zenon DEF HasScheme
<1>2. CASE ~IsUri(text)
  <2>1. Denoted(text) = NoParts
    BY <1>2, Zenon DEF Denoted
  <2>2. parse(text) = NewUri
    <3>1. CASE ~HasScheme(text)
      BY <3>1, NoScheme
    <3>2. CASE HasScheme(text)
      <4>1. Misplaced(g)
        BY <1>1, <1>2, <3>2
      <4>2. WellFormed(g) /\ Written(g) = text
        BY <3>2, RawFacts
      <4>3. parse(Written(g)) = NewUri
        BY <4>1, <4>2, ParseWritten
      <4> QED
        BY <4>2, <4>3, Zenon
    <3> QED
      BY <3>1, <3>2
  <2> QED
    BY <2>1, <2>2, NothingBuilt
<1>3. CASE IsUri(text)
  <2>1. HasScheme(text) /\ ~Misplaced(g)
    BY <1>1, <1>3
  <2>2. WellFormed(g) /\ Written(g) = text
    BY <2>1, RawFacts
  <2>3. Denoted(text) = Meaning(g)
    BY <1>3, Zenon DEF Denoted, Meaning, Meant
  <2>4. CASE Short(g)
    <3>1. parse(Written(g)) = Built(Meaning(g)) /\ Holdable(Meaning(g))
      BY <2>1, <2>2, <2>4, ParseWritten
    <3> QED
      BY <2>2, <2>3, <3>1, Zenon
  <2>5. CASE ~Short(g)
    <3>1. PICK p \in DOMAIN g : ~(Len(g[p]) < Width)
      BY <2>5 DEF Short
    <3>2. Len(g[p]) \in Nat /\ Width \in Nat
      BY <2>2, TextFacts, WidthAssumption DEF WellFormed
    <3>3. Len(g[p]) >= Width
      BY <3>1, <3>2
    <3> QED
      BY <1>3, <3>3, Zenon
  <2> QED
    BY <2>4, <2>5
<1> QED
  BY <1>2, <1>3

\* The object is the one for the parts, unless one of them is too long.
IsBuilt == ~tooLong => Holdable(parts) /\ uri = Built(parts)

\* The inductive invariant.
IInv == Shape(uri) /\ IsBuilt

\* The texts that are given to the operations.
LEMMA GivenTexts ==
    /\ \A p \in Parts : Setter[p] \subseteq Text
    /\ Texts \subseteq Text /\ Paths \subseteq Text
BY TextsAssumption DEF Text

\* A setter.
LEMMA SetStep ==
    ASSUME IInv, NEW p \in Parts, NEW text \in Setter[p], set(p, text)
    PROVE  IInv'
<1>1. text \in Text
  BY GivenTexts
<1>2. /\ uri' = IF Accepts(p, text) THEN Insert(uri, p, text) ELSE uri
      /\ parts' = IF Allowed(p, text) /\ Fits(p, text) THEN Set(parts, p, text) ELSE parts
      /\ tooLong' = (tooLong \/ (Len(text) >= Width /\ Accepts(p, text)))
  BY DEF set
<1>3. Shape(uri')
  BY <1>1, <1>2, InsertKeepsShape DEF IInv
<1>4. ASSUME ~tooLong'
      PROVE  Holdable(parts') /\ uri' = Built(parts')
  <2>1. ~tooLong /\ ~(Len(text) >= Width /\ Accepts(p, text))
    BY <1>2, <1>4
  <2>2. Holdable(parts) /\ uri = Built(parts)
    BY <2>1 DEF IInv, IsBuilt
  <2>3. Len(text) \in Nat /\ Width \in Nat
    BY <1>1, TextFacts, WidthAssumption
  <2>4. CASE Len(text) < Width
    <3>1. Accepts(p, text) <=> Allowed(p, text) /\ Fits(p, text)
      BY <1>1, <2>4, AcceptsFacts
    <3>2. CASE Accepts(p, text)
      <4>1. Insert(Built(parts), p, text) = Built(Set(parts, p, text))
              /\ Holdable(Set(parts, p, text))
        BY <1>1, <2>2, <2>4, InsertIsSet
      <4>2. uri' = Insert(uri, p, text) /\ parts' = Set(parts, p, text)
        BY <1>2, <3>1, <3>2
      <4> QED
        BY <2>2, <4>1, <4>2, Zenon
    <3>3. CASE ~Accepts(p, text)
      <4>1. uri' = uri /\ parts' = parts
        BY <1>2, <3>1, <3>3
      <4> QED
        BY <2>2, <4>1
    <3> QED
      BY <3>2, <3>3
  <2>5. CASE Len(text) >= Width
    <3>1. ~Accepts(p, text) /\ ~Fits(p, text)
      BY <1>1, <2>1, <2>5, AcceptsFacts
    <3>2. uri' = uri /\ parts' = parts
      BY <1>2, <3>1
    <3> QED
      BY <2>2, <3>2
  <2> QED
    BY <2>3, <2>4, <2>5
<1> QED
  BY <1>3, <1>4 DEF IInv, IsBuilt

\* A removal.
LEMMA RemoveStep ==
    ASSUME IInv, NEW p \in Optional, remove(p)
    PROVE  IInv'
<1>1. uri' = Without(uri, p) /\ parts' = [q \in DOMAIN parts \ {p} |-> parts[q]]
        /\ tooLong' = tooLong
  BY DEF remove
<1>2. Shape(uri')
  BY <1>1, WithoutKeepsShape DEF IInv
<1>3. ASSUME ~tooLong'
      PROVE  Holdable(parts') /\ uri' = Built(parts')
  <2>1. Holdable(parts) /\ uri = Built(parts)
    BY <1>1, <1>3 DEF IInv, IsBuilt
  <2>2. /\ Without(Built(parts), p) = Built([q \in DOMAIN parts \ {p} |-> parts[q]])
        /\ Holdable([q \in DOMAIN parts \ {p} |-> parts[q]])
    BY <2>1, WithoutIsRemoved
  <2> QED
    BY <1>1, <2>1, <2>2, Zenon
<1> QED
  BY <1>2, <1>3 DEF IInv, IsBuilt

\* A text that is parsed.
LEMMA ParseStep ==
    ASSUME IInv, NEW text \in Texts, Parse(text)
    PROVE  IInv'
<1>1. text \in Text
  BY GivenTexts
<1>2. /\ uri' = parse(text) /\ parts' = Denoted(text)
      /\ tooLong'
              = (IsUri(text) /\ \E p \in DOMAIN RawParts(text) : Len(RawParts(text)[p]) >= Width)
  BY DEF Parse
<1>3. Shape(uri')
  BY <1>1, <1>2, ParseShape
<1>4. ASSUME ~tooLong'
      PROVE  Holdable(parts') /\ uri' = Built(parts')
  <2>1. parse(text) = Built(Denoted(text)) /\ Holdable(Denoted(text))
    BY <1>1, <1>2, <1>4, ParseIsDenoted
  <2> QED
    BY <1>2, <2>1, Zenon
<1> QED
  BY <1>3, <1>4 DEF IInv, IsBuilt

\* The scheme of files is no longer than a scheme may be.
LEMMA FileFacts == File \in Text /\ Len(File) < Width
<1>1. File \in Text
  BY DEF File, Text, Byte
<1>2. Len(File) = 4
  BY DEF File
<1> QED
  BY <1>1, <1>2, WidthAssumption

\* A path of the file system.
LEMMA FileStep ==
    ASSUME IInv, NEW path \in Paths, fileUriFromPath(path)
    PROVE  IInv'
<1> DEFINE u == Insert(NewUri, "scheme", File)
           v == Insert(u, "authority", <<>>)
           w == Insert(v, "path", path)
           f == Set(NoParts, "scheme", File)
           g == Set(f, "authority", <<>>)
           h == Set(g, "path", path)
<1>1. path \in Text /\ "scheme" \in Parts /\ "authority" \in Parts /\ "path" \in Parts
  BY GivenTexts DEF Parts
<1>2. uri' = w /\ parts' = h /\ tooLong' = (Len(path) >= Width)
  BY Zenon DEF fileUriFromPath
<1>3. <<>> \in Text /\ Len(<<>>) < Width
  BY EmptyText, WidthAssumption
<1>4. Shape(u)
  BY <1>1, NewShape, FileFacts, InsertKeepsShape
<1>5. u = Built(f) /\ Holdable(f)
  <2>1. Insert(Built(NoParts), "scheme", File) = Built(f) /\ Holdable(f)
    BY <1>1, FileFacts, NothingBuilt, InsertIsSet
  <2> QED
    BY <2>1, NothingBuilt, Zenon
<1> HIDE DEF u, f
<1>6. Shape(v)
  BY <1>1, <1>3, <1>4, InsertKeepsShape
<1>7. v = Built(g) /\ Holdable(g)
  <2>1. Insert(Built(f), "authority", <<>>) = Built(g) /\ Holdable(g)
    BY <1>1, <1>3, <1>5, InsertIsSet
  <2> QED
    BY <1>5, <2>1, Zenon
<1> HIDE DEF v, g
<1>8. Shape(w)
  BY <1>1, <1>6, InsertKeepsShape
<1>9. ASSUME Len(path) < Width
      PROVE  w = Built(h) /\ Holdable(h)
  <2>1. Insert(Built(g), "path", path) = Built(h) /\ Holdable(h)
    BY <1>1, <1>7, <1>9, InsertIsSet
  <2> QED
    BY <1>7, <2>1, Zenon
<1> HIDE DEF w, h
<1>10. Len(path) >= Width \/ Len(path) < Width
  BY <1>1, TextFacts, WidthAssumption
<1> QED
  BY <1>2, <1>8, <1>9, <1>10 DEF IInv, IsBuilt

\* The parts are all of the string.
LEMMA BuiltLength ==
    ASSUME NEW f, Holdable(f)
    PROVE  Counted(Built(f)) = Len(Built(f).data)
<1> DEFINE a == TextOf(f, "scheme")
           b == TextOf(f, "authority")
           c == TextOf(f, "path")
           d == TextOf(f, "query")
           e == TextOf(f, "fragment")
<1>1. AllTexts(a, b, c, d, e)
  <2>1. \A p \in Parts : TextOf(f, p) \in Text
    BY BuiltFacts
  <2> QED
    BY <2>1 DEF AllTexts, Parts
<1>2. Counted(Built(f)) = Len(a) + Len(b) + Len(c) + Len(d) + Len(e)
  <2>1. \A p \in Parts : Built(f).len[p] = Len(TextOf(f, p))
    BY BuiltFacts
  <2> QED
    BY <2>1 DEF Counted, Parts
<1>3. Built(f).data = Cat(a, Cat(b, Cat(c, Cat(d, e))))
  <2>1. Built(f).data = Joined(f)
    BY DEF Built
  <2> QED
    BY <2>1, Zenon DEF Joined
<1> HIDE DEF a, b, c, d, e
<1>4. Len(Cat(a, Cat(b, Cat(c, Cat(d, e))))) = Len(a) + Len(b) + Len(c) + Len(d) + Len(e)
  BY <1>1, FiveTexts DEF Brackets
<1> QED
  BY <1>2, <1>3, <1>4, Zenon

\* src/lsp/uri.cpp:114-384: the setters, removals and parse keep an object that is
\* built of its parts, whatever the width of the lengths.
THEOREM UriInvariant == Spec => []IInv
<1>1. Init => IInv
  <2> HAVE Init
  <2>1. uri = NewUri /\ parts = NoParts
    BY DEF Init
  <2> QED
    BY <2>1, NewShape, NothingBuilt DEF IInv, IsBuilt
<1>2. IInv /\ [Next]_vars => IInv'
  <2> SUFFICES ASSUME IInv, [Next]_vars PROVE IInv'
    OBVIOUS
  <2>1. ASSUME NEW p \in Parts, NEW text \in Setter[p], set(p, text) PROVE IInv'
    BY <2>1, SetStep
  <2>2. ASSUME NEW p \in Optional, remove(p) PROVE IInv'
    BY <2>2, RemoveStep
  <2>3. ASSUME NEW text \in Texts, Parse(text) PROVE IInv'
    BY <2>3, ParseStep
  <2>4. ASSUME NEW path \in Paths, fileUriFromPath(path) PROVE IInv'
    BY <2>4, FileStep
  <2>5. CASE UNCHANGED vars
    BY <2>5 DEF vars, IInv, IsBuilt
  <2> QED
    BY <2>1, <2>2, <2>3, <2>4, <2>5 DEF Next
<1> QED
  BY <1>1, <1>2, PTL DEF Spec

\* src/lsp/uri.cpp:198-384: after any setters, removals and parses the getters
\* return exactly the parts.
THEOREM GettersReturnTheParts == Spec => []PartsAreKept
<1>1. IInv => PartsAreKept
  <2> SUFFICES ASSUME IInv, ~tooLong
               PROVE  /\ DOMAIN parts \intersect Optional = uri.has
                      /\ \A p \in DOMAIN parts : Get(uri, p) = parts[p]
    BY DEF PartsAreKept
  <2>1. Holdable(parts) /\ uri = Built(parts)
    BY DEF IInv, IsBuilt
  <2>2. uri.has = DOMAIN parts \intersect Optional
    BY <2>1 DEF Built
  <2>3. ASSUME NEW p \in DOMAIN parts PROVE Get(uri, p) = parts[p]
    <3>1. p \in Parts
      BY <2>1 DEF Holdable
    <3>2. Get(Built(parts), p) = TextOf(parts, p)
      BY <2>1, <3>1, GetIsText
    <3>3. TextOf(parts, p) = parts[p]
      BY DEF TextOf
    <3> QED
      BY <2>1, <3>2, <3>3, Zenon
  <2> QED
    BY <2>2, <2>3
<1> QED
  BY <1>1, UriInvariant, PTL

\* src/lsp/uri.cpp:198-272, 343-384: the parts never reach over the end of the
\* string, also when their lengths no longer fit into the width.
THEOREM PartsFitTheString == Spec => []LengthsFit
<1>1. IInv => LengthsFit
  <2> SUFFICES ASSUME IInv PROVE LengthsFit
    OBVIOUS
  <2>1. Counted(uri) <= Len(uri.data)
    BY DEF IInv, Shape
  <2>2. ~tooLong => Counted(uri) = Len(uri.data)
    <3> HAVE ~tooLong
    <3>1. Holdable(parts) /\ uri = Built(parts)
      BY DEF IInv, IsBuilt
    <3> QED
      BY <3>1, BuiltLength
  <2> QED
    BY <2>1, <2>2, Zenon DEF LengthsFit, Counted
<1> QED
  BY <1>1, UriInvariant, PTL

-----------------------------------------------------------------------------
(* Flattening two sequences of texts *)

Both(s, r) == s \o r

\* The last one of the second sequence is the last one of both.
LEMMA BothFacts ==
    ASSUME NEW s \in Seq(Text), NEW r \in Seq(Text)
    PROVE  /\ Both(s, r) \in Seq(Text) /\ Len(Both(s, r)) = Len(s) + Len(r)
           /\ \A i \in 1 .. Len(s) : Both(s, r)[i] = s[i]
           /\ \A i \in 1 .. Len(r) : Both(s, r)[Len(s) + i] = r[i]
           /\ \A x \in Text : Both(s, Append(r, x)) = Append(Both(s, r), x)
           /\ Both(s, <<>>) = s
<1> PICK T : T = Text
  OBVIOUS
<1>1. s \in Seq(T) /\ r \in Seq(T)
  OBVIOUS
<1>2. /\ s \o r \in Seq(T) /\ Len(s \o r) = Len(s) + Len(r)
      /\ \A i \in 1 .. Len(s) : (s \o r)[i] = s[i]
      /\ \A i \in 1 .. Len(r) : (s \o r)[Len(s) + i] = r[i]
  BY <1>1
<1>3. \A x \in T : s \o Append(r, x) = Append(s \o r, x)
  BY <1>1
<1>4. s \o <<>> = s
  BY <1>1
<1> QED
  BY <1>2, <1>3, <1>4 DEF Both

\* A text before a sequence of texts.
LEMMA BothBefore ==
    ASSUME NEW e \in Text, NEW r \in Seq(Text)
    PROVE  /\ Both(<<e>>, r) \in Seq(Text) /\ Len(Both(<<e>>, r)) = 1 + Len(r)
           /\ Both(<<e>>, r)[1] = e /\ \A i \in 1 .. Len(r) : Both(<<e>>, r)[1 + i] = r[i]
<1>1. <<e>> \in Seq(Text) /\ Len(<<e>>) = 1 /\ <<e>>[1] = e
  <2> PICK T : T = Text
    OBVIOUS
  <2> QED
    OBVIOUS
<1>2. ASSUME NEW s \in Seq(Text), Len(s) = 1, s[1] = e
      PROVE  /\ Both(s, r) \in Seq(Text) /\ Len(Both(s, r)) = 1 + Len(r) /\ Both(s, r)[1] = e
             /\ \A i \in 1 .. Len(r) : Both(s, r)[1 + i] = r[i]
  <2>1. /\ Both(s, r) \in Seq(Text) /\ Len(Both(s, r)) = Len(s) + Len(r)
        /\ \A i \in 1 .. Len(s) : Both(s, r)[i] = s[i]
        /\ \A i \in 1 .. Len(r) : Both(s, r)[Len(s) + i] = r[i]
    BY BothFacts
  <2>2. 1 \in 1 .. Len(s)
    BY <1>2
  <2> QED
    BY <1>2, <2>1, <2>2
<1> QED
  BY <1>1, <1>2, Zenon

\* A sequence that is not empty has a last element.
LEMMA LastOne ==
    ASSUME NEW r \in Seq(Text), Len(r) # 0
    PROVE  \E q \in Seq(Text) : \E x \in Text : r = Append(q, x) /\ Len(r) = Len(q) + 1
<1> PICK T : T = Text
  OBVIOUS
<1> PICK n : n = Len(r) - 1
  OBVIOUS
<1> PICK q : q = [i \in 1 .. n |-> r[i]]
  OBVIOUS
<1>1. r \in Seq(T) /\ n \in Nat /\ Len(r) = n + 1 /\ r[n + 1] \in T
  OBVIOUS
<1>2. q \in Seq(T) /\ Len(q) = n
  BY <1>1
<1>3. r = Append(q, r[n + 1])
  BY <1>1, <1>2
<1> QED
  BY <1>1, <1>2, <1>3

\* The texts of both are one behind the other.
LEMMA FlattenBoth ==
    ASSUME NEW s \in Seq(Text), NEW r \in Seq(Text)
    PROVE  FlattenSeq(Both(s, r)) = Cat(FlattenSeq(s), FlattenSeq(r))
<1> DEFINE P(u) == FlattenSeq(Both(s, u)) = Cat(FlattenSeq(s), FlattenSeq(u))
           T == {n \in Nat : \A u \in Seq(Text) : Len(u) = n => P(u)}
<1>1. 0 \in T
  <2> SUFFICES ASSUME NEW u \in Seq(Text), Len(u) = 0 PROVE P(u)
    OBVIOUS
  <2>1. u = <<>>
    BY SeqFacts
  <2>2. FlattenSeq(<<>>) = <<>>
    BY DEF FlattenSeq
  <2>3. FlattenSeq(s) \in Text
    BY FlattenType DEF Text
  <2>4. Cat(FlattenSeq(s), <<>>) = FlattenSeq(s)
    BY <2>3, EmptyText
  <2>5. Both(s, <<>>) = s
    BY BothFacts, <2>1
  <2> QED
    BY <2>1, <2>2, <2>4, <2>5, Zenon
<1>2. ASSUME NEW n \in Nat, n \in T PROVE n + 1 \in T
  <2> SUFFICES ASSUME NEW u \in Seq(Text), Len(u) = n + 1 PROVE P(u)
    OBVIOUS
  <2>1. Len(u) # 0
    OBVIOUS
  <2>2. PICK q \in Seq(Text), x \in Text : u = Append(q, x) /\ Len(u) = Len(q) + 1
    BY <2>1, LastOne
  <2>3. Len(q) = n
    <3>1. Len(q) \in Nat
      BY SeqFacts
    <3> QED
      BY <2>2, <3>1
  <2>4. FlattenSeq(Both(s, q)) = Cat(FlattenSeq(s), FlattenSeq(q))
    BY <1>2, <2>3
  <2>5. Both(s, u) = Append(Both(s, q), x) /\ Both(s, q) \in Seq(Text)
    BY <2>2, BothFacts
  <2>6. FlattenSeq(Append(Both(s, q), x)) = Cat(FlattenSeq(Both(s, q)), x)
    BY <2>5, FlattenFacts DEF Text, Cat
  <2>7. FlattenSeq(Append(q, x)) = Cat(FlattenSeq(q), x)
    BY FlattenFacts DEF Text, Cat
  <2>8. FlattenSeq(s) \in Text /\ FlattenSeq(q) \in Text
    BY FlattenType DEF Text
  <2>9. Cat(Cat(FlattenSeq(s), FlattenSeq(q)), x) = Cat(FlattenSeq(s), Cat(FlattenSeq(q), x))
    BY <2>8, ThreeTexts
  <2> QED
    BY <2>2, <2>4, <2>5, <2>6, <2>7, <2>9, Zenon
<1>3. Nat \subseteq T
  <2> HIDE DEF T
  <2> QED
    BY <1>1, <1>2, SetInduction
<1>4. Len(r) \in Nat
  BY SeqFacts
<1> QED
  BY <1>3, <1>4

-----------------------------------------------------------------------------
(* Decoding one text behind another *)

\* No percent sign is so near to the end that more bytes could make it an escape.
Closed(a) == \A i \in 1 .. Len(a) : a[i] = Percent => i + 2 <= Len(a)

\* Every escape is one of a byte.
GoodEscapes(text) == \A i \in Escapes(text) : text[i + 1] \in HexDigit /\ text[i + 2] \in HexDigit

\* What decode() makes of one byte.
DecodedAt(text, i) ==
    CASE i \in Escapes(text) -> <<16 * HexValue(text[i + 1]) + HexValue(text[i + 2])>>
      [] InEscape(text, i) -> <<>>
      [] OTHER -> <<text[i]>>

\* The escapes of two texts, the first of which is closed.
BothEscapes(a, t) == Escapes(a) \union {Len(a) + i : i \in Escapes(t)}

\* Where the escapes are.
LEMMA EscapesPlaces ==
    ASSUME NEW text \in Text, NEW i \in Escapes(text)
    PROVE  i \in 1 .. Len(text) /\ i + 2 <= Len(text) /\ text[i] = Percent
BY EscapesFacts DEF Skips, Marks, IsEscape

\* The escapes of two texts.
LEMMA EscapesCat ==
    ASSUME NEW a \in Text, NEW t \in Text, Closed(a)
    PROVE  Escapes(Cat(a, t)) = BothEscapes(a, t)
<1> PICK m : m = Len(a)
  OBVIOUS
<1> PICK n : n = Len(t)
  OBVIOUS
<1> PICK c : c = Cat(a, t)
  OBVIOUS
<1>1. m \in Nat /\ n \in Nat
  BY TextFacts
<1>2. /\ c \in Text /\ Len(c) = m + n
      /\ \A i \in 1 .. m : c[i] = a[i]
      /\ \A i \in 1 .. n : c[m + i] = t[i]
  BY ConcatFacts
<1> PICK A : A = Escapes(a)
  OBVIOUS
<1> PICK B : B = Escapes(t)
  OBVIOUS
<1> PICK E : E = BothEscapes(a, t)
  OBVIOUS
<1>3. Skips(m, Marks(a), A) /\ Skips(n, Marks(t), B)
  BY EscapesFacts
<1>4. A \subseteq 1 .. m /\ B \subseteq 1 .. n /\ \A i \in A : i + 2 <= m
  BY EscapesPlaces
<1>5. E = A \union {m + i : i \in B}
  BY DEF BothEscapes
<1>6. \A i \in 1 .. m : i \in Marks(c) <=> i \in Marks(a)
  <2> SUFFICES ASSUME NEW i \in 1 .. m PROVE i \in Marks(c) <=> i \in Marks(a)
    OBVIOUS
  <2>1. i \in Marks(c) <=> (a[i] = Percent /\ i + 2 <= m + n)
    BY <1>1, <1>2 DEF Marks, IsEscape
  <2>2. i \in Marks(a) <=> (a[i] = Percent /\ i + 2 <= m)
    BY <1>1 DEF Marks, IsEscape
  <2>3. a[i] = Percent => i + 2 <= m
    BY DEF Closed
  <2> QED
    BY <1>1, <2>1, <2>2, <2>3
<1>7. \A i \in 1 .. n : m + i \in Marks(c) <=> i \in Marks(t)
  <2> SUFFICES ASSUME NEW i \in 1 .. n PROVE m + i \in Marks(c) <=> i \in Marks(t)
    OBVIOUS
  <2>1. m + i \in 1 .. m + n /\ (m + i + 2 <= m + n <=> i + 2 <= n)
    BY <1>1
  <2>2. m + i \in Marks(c) <=> (t[i] = Percent /\ m + i + 2 <= m + n)
    BY <1>2, <2>1 DEF Marks, IsEscape
  <2>3. i \in Marks(t) <=> (t[i] = Percent /\ i + 2 <= n)
    BY <1>1 DEF Marks, IsEscape
  <2> QED
    BY <2>1, <2>2, <2>3
<1>8. /\ \A i \in 1 .. m : i \in E <=> i \in A
      /\ \A i \in 1 .. n : m + i \in E <=> i \in B
      /\ E \subseteq 1 .. m + n
  BY <1>1, <1>4, <1>5
<1>9. ASSUME NEW k \in 1 .. m + n
      PROVE  k \in E <=> k \in Marks(c) /\ k - 1 \notin E /\ k - 2 \notin E
  <2>1. CASE k \in 1 .. m
    <3>1. k \in A <=> k \in Marks(a) /\ k - 1 \notin A /\ k - 2 \notin A
      BY <1>3, <2>1 DEF Skips
    <3>2. (k - 1 \in E <=> k - 1 \in A) /\ (k - 2 \in E <=> k - 2 \in A)
      <4>1. \A j \in {k - 1, k - 2} : j \in 1 .. m \/ j < 1
        BY <1>1, <2>1
      <4>2. \A j \in Int : j < 1 => j \notin E /\ j \notin A
        BY <1>4, <1>8
      <4>3. k - 1 \in Int /\ k - 2 \in Int
        BY <2>1
      <4> QED
        BY <1>8, <4>1, <4>2, <4>3
    <3> QED
      BY <1>6, <1>8, <2>1, <3>1, <3>2
  <2>2. CASE k \notin 1 .. m
    <3>1. PICK i \in 1 .. n : k = m + i
      <4>1. k - m \in 1 .. n /\ k = m + (k - m)
        BY <1>1, <2>2
      <4> QED
        BY <4>1
    <3>2. i \in B <=> i \in Marks(t) /\ i - 1 \notin B /\ i - 2 \notin B
      BY <1>3 DEF Skips
    <3>3. (k - 1 \in E <=> i - 1 \in B) /\ (k - 2 \in E <=> i - 2 \in B)
      <4>1. \A j \in {i - 1, i - 2} : j \in 1 .. n
              \/ (j \in {-1, 0} /\ m + j \notin A /\ j \notin B)
        BY <1>1, <1>4
      <4>2. \A j \in {-1, 0} : m + j \notin A => m + j \notin E
        BY <1>1, <1>4, <1>5
      <4>3. \A j \in {i - 1, i - 2} : m + j \in E <=> j \in B
        BY <1>8, <4>1, <4>2
      <4>4. k - 1 = m + (i - 1) /\ k - 2 = m + (i - 2)
        BY <1>1, <3>1
      <4> QED
        BY <4>3, <4>4
    <3> QED
      BY <1>7, <1>8, <3>1, <3>2, <3>3
  <2> QED
    BY <2>1, <2>2
<1>10. Skips(m + n, Marks(c), E)
  BY <1>8, <1>9 DEF Skips
<1>11. Skips(m + n, Marks(c), Escapes(c))
  BY <1>2, EscapesFacts
<1>12. Escapes(c) = E
  BY <1>1, <1>10, <1>11, SkipsAgree
<1> QED
  BY <1>12

DecodedEach(text) == [i \in 1 .. Len(text) |-> DecodedAt(text, i)]

\* Each byte is decoded to at most one.
LEMMA DecodedFacts ==
    ASSUME NEW text \in Text, GoodEscapes(text)
    PROVE  /\ \A i \in 1 .. Len(text) : DecodedAt(text, i) \in Text
           /\ DecodedEach(text) \in Seq(Text) /\ Len(DecodedEach(text)) = Len(text)
           /\ decode(text) = FlattenSeq(DecodedEach(text))
<1>1. Len(text) \in Nat /\ DOMAIN text = 1 .. Len(text)
        /\ \A i \in 1 .. Len(text) : text[i] \in Byte
  BY TextFacts
<1>2. ASSUME NEW i \in 1 .. Len(text)
      PROVE  DecodedAt(text, i) \in Text
  <2>1. CASE i \in Escapes(text)
    <3>1. ~InEscape(text, i)
      BY <2>1, EscapesFacts DEF Skips, InEscape
    <3>2. text[i + 1] \in HexDigit /\ text[i + 2] \in HexDigit
      BY <2>1 DEF GoodEscapes
    <3>3. 16 * HexValue(text[i + 1]) + HexValue(text[i + 2]) \in Byte
      BY <3>2, HexFacts
    <3>4. DecodedAt(text, i) = <<16 * HexValue(text[i + 1]) + HexValue(text[i + 2])>>
      BY <2>1, <3>1 DEF DecodedAt
    <3> QED
      BY <3>3, <3>4 DEF Text
  <2>2. CASE i \notin Escapes(text) /\ InEscape(text, i)
    <3>1. DecodedAt(text, i) = <<>>
      BY <2>2 DEF DecodedAt
    <3> QED
      BY <3>1 DEF Text
  <2>3. CASE i \notin Escapes(text) /\ ~InEscape(text, i)
    <3>1. DecodedAt(text, i) = <<text[i]>> /\ text[i] \in Byte
      BY <1>1, <2>3 DEF DecodedAt
    <3> QED
      BY <3>1 DEF Text
  <2> QED
    BY <2>1, <2>2, <2>3
<1>3. decode(text) = FlattenSeq(DecodedEach(text))
  <2> DEFINE Bad == \E i \in Escapes(text) : {text[i + 1], text[i + 2]} \ HexDigit # {}
             each == [i \in DOMAIN text |-> DecodedAt(text, i)]
  <2>1. decode(text) = IF Bad THEN <<>> ELSE FlattenSeq(each)
    BY DEF decode, DecodedAt
  <2>2. ~Bad
    BY DEF GoodEscapes
  <2>3. each = DecodedEach(text)
    BY <1>1 DEF DecodedEach
  <2> HIDE DEF Bad, each
  <2> QED
    BY <2>1, <2>2, <2>3
<1> PICK T : T = Text
  OBVIOUS
<1>4. DecodedEach(text) \in Seq(T) /\ Len(DecodedEach(text)) = Len(text)
  <2> HIDE DEF DecodedAt
  <2> QED
    BY <1>1, <1>2 DEF DecodedEach
<1> QED
  BY <1>2, <1>3, <1>4

\* An escape of the second text, and what is in one.
LEMMA BothEscapesFacts ==
    ASSUME NEW a \in Text, NEW t \in Text, Closed(a)
    PROVE  LET c == Cat(a, t) IN
           /\ \A i \in 1 .. Len(a) : /\ i \in Escapes(c) <=> i \in Escapes(a)
                                     /\ InEscape(c, i) <=> InEscape(a, i)
           /\ \A i \in 1 .. Len(t) : /\ Len(a) + i \in Escapes(c) <=> i \in Escapes(t)
                                     /\ InEscape(c, Len(a) + i) <=> InEscape(t, i)
<1> PICK m : m = Len(a)
  OBVIOUS
<1> PICK n : n = Len(t)
  OBVIOUS
<1> PICK c : c = Cat(a, t)
  OBVIOUS
<1> PICK A : A = Escapes(a)
  OBVIOUS
<1> PICK B : B = Escapes(t)
  OBVIOUS
<1> PICK E : E = Escapes(c)
  OBVIOUS
<1>1. m \in Nat /\ n \in Nat
  BY TextFacts
<1>2. A \subseteq 1 .. m /\ B \subseteq 1 .. n /\ \A i \in A : i + 2 <= m
  BY EscapesPlaces
<1>3. E = A \union {m + i : i \in B}
  BY EscapesCat DEF BothEscapes
<1>4. \A j \in Int : j <= m => (j \in E <=> j \in A)
  BY <1>1, <1>2, <1>3
<1>5. \A j \in Int : j >= -1 => (m + j \in E <=> j \in B)
  BY <1>1, <1>2, <1>3
<1>6. ASSUME NEW i \in 1 .. m
      PROVE  /\ i \in E <=> i \in A
             /\ (i - 1 \in E \/ i - 2 \in E) <=> (i - 1 \in A \/ i - 2 \in A)
  <2>1. i \in Int /\ i - 1 \in Int /\ i - 2 \in Int /\ i <= m /\ i - 1 <= m /\ i - 2 <= m
    BY <1>1
  <2> QED
    BY <1>4, <2>1
<1>7. ASSUME NEW i \in 1 .. n
      PROVE  /\ m + i \in E <=> i \in B
             /\ (m + i - 1 \in E \/ m + i - 2 \in E) <=> (i - 1 \in B \/ i - 2 \in B)
  <2>1. /\ i \in Int /\ i - 1 \in Int /\ i - 2 \in Int /\ i >= -1 /\ i - 1 >= -1 /\ i - 2 >= -1
        /\ m + i - 1 = m + (i - 1) /\ m + i - 2 = m + (i - 2)
    BY <1>1
  <2> QED
    BY <1>5, <2>1
<1> QED
  BY <1>6, <1>7 DEF InEscape

\* Two texts are decoded one by one.
LEMMA DecodeCat ==
    ASSUME NEW a \in Text, NEW t \in Text, Closed(a), GoodEscapes(a), GoodEscapes(t)
    PROVE  GoodEscapes(Cat(a, t)) /\ decode(Cat(a, t)) = Cat(decode(a), decode(t))
<1> PICK m : m = Len(a)
  OBVIOUS
<1> PICK n : n = Len(t)
  OBVIOUS
<1> PICK c : c = Cat(a, t)
  OBVIOUS
<1>1. m \in Nat /\ n \in Nat
  BY TextFacts
<1>2. /\ c \in Text /\ Len(c) = m + n
      /\ \A i \in 1 .. m : c[i] = a[i]
      /\ \A i \in 1 .. n : c[m + i] = t[i]
  BY ConcatFacts
<1>3. /\ \A i \in 1 .. m : /\ i \in Escapes(c) <=> i \in Escapes(a)
                           /\ InEscape(c, i) <=> InEscape(a, i)
      /\ \A i \in 1 .. n : /\ m + i \in Escapes(c) <=> i \in Escapes(t)
                           /\ InEscape(c, m + i) <=> InEscape(t, i)
  BY BothEscapesFacts
<1>4. \A i \in Escapes(a) : i \in 1 .. m /\ i + 1 \in 1 .. m /\ i + 2 \in 1 .. m
  BY <1>1, EscapesPlaces
<1>5. \A i \in Escapes(t) : i \in 1 .. n /\ i + 1 \in 1 .. n /\ i + 2 \in 1 .. n
  BY <1>1, EscapesPlaces
<1>6. \A i \in Escapes(a) : c[i + 1] = a[i + 1] /\ c[i + 2] = a[i + 2]
  BY <1>2, <1>4
<1>7. \A i \in Escapes(t) : c[(m + i) + 1] = t[i + 1] /\ c[(m + i) + 2] = t[i + 2]
  <2> SUFFICES ASSUME NEW i \in Escapes(t)
               PROVE  c[(m + i) + 1] = t[i + 1] /\ c[(m + i) + 2] = t[i + 2]
    OBVIOUS
  <2>1. i \in 1 .. n /\ i + 1 \in 1 .. n /\ i + 2 \in 1 .. n
    BY <1>5
  <2>2. (m + i) + 1 = m + (i + 1) /\ (m + i) + 2 = m + (i + 2)
    BY <1>1, <2>1
  <2> QED
    BY <1>2, <2>1, <2>2
<1>8. GoodEscapes(c)
  <2> SUFFICES ASSUME NEW k \in Escapes(c) PROVE c[k + 1] \in HexDigit /\ c[k + 2] \in HexDigit
    BY DEF GoodEscapes
  <2>1. k \in 1 .. m + n
    BY <1>2, EscapesPlaces
  <2>2. CASE k \in 1 .. m
    BY <1>3, <1>6, <2>2 DEF GoodEscapes
  <2>3. CASE k \notin 1 .. m
    <3>1. PICK i \in 1 .. n : k = m + i
      <4>1. k - m \in 1 .. n /\ k = m + (k - m)
        BY <1>1, <2>1, <2>3
      <4> QED
        BY <4>1
    <3>2. i \in Escapes(t)
      BY <1>3, <3>1
    <3> QED
      BY <1>7, <3>1, <3>2 DEF GoodEscapes
  <2> QED
    BY <2>2, <2>3
<1>9. \A i \in 1 .. m : DecodedAt(c, i) = DecodedAt(a, i)
  <2> SUFFICES ASSUME NEW i \in 1 .. m PROVE DecodedAt(c, i) = DecodedAt(a, i)
    OBVIOUS
  <2>1. CASE i \in Escapes(a)
    <3>1. i \in Escapes(c) /\ ~InEscape(c, i) /\ ~InEscape(a, i)
      BY <1>2, <1>3, <2>1, EscapesFacts DEF Skips, InEscape
    <3> QED
      BY <1>6, <2>1, <3>1 DEF DecodedAt
  <2>2. CASE i \notin Escapes(a) /\ InEscape(a, i)
    BY <1>3, <2>2 DEF DecodedAt
  <2>3. CASE i \notin Escapes(a) /\ ~InEscape(a, i)
    BY <1>2, <1>3, <2>3 DEF DecodedAt
  <2> QED
    BY <2>1, <2>2, <2>3
<1>10. \A i \in 1 .. n : DecodedAt(c, m + i) = DecodedAt(t, i)
  <2> SUFFICES ASSUME NEW i \in 1 .. n PROVE DecodedAt(c, m + i) = DecodedAt(t, i)
    OBVIOUS
  <2>1. CASE i \in Escapes(t)
    <3>1. m + i \in Escapes(c) /\ ~InEscape(c, m + i) /\ ~InEscape(t, i)
      <4>1. ~InEscape(t, i)
        BY <2>1, EscapesFacts DEF Skips, InEscape
      <4> QED
        BY <1>3, <2>1, <4>1
    <3> QED
      BY <1>7, <2>1, <3>1 DEF DecodedAt
  <2>2. CASE i \notin Escapes(t) /\ InEscape(t, i)
    BY <1>3, <2>2 DEF DecodedAt
  <2>3. CASE i \notin Escapes(t) /\ ~InEscape(t, i)
    BY <1>2, <1>3, <2>3 DEF DecodedAt
  <2> QED
    BY <2>1, <2>2, <2>3
<1> PICK x : x = DecodedEach(a)
  OBVIOUS
<1> PICK y : y = DecodedEach(t)
  OBVIOUS
<1> PICK z : z = DecodedEach(c)
  OBVIOUS
<1>11. /\ x \in Seq(Text) /\ Len(x) = m /\ y \in Seq(Text) /\ Len(y) = n
       /\ z \in Seq(Text) /\ Len(z) = m + n
       /\ decode(a) = FlattenSeq(x) /\ decode(t) = FlattenSeq(y) /\ decode(c) = FlattenSeq(z)
  <2>1. /\ DecodedEach(a) \in Seq(Text) /\ Len(DecodedEach(a)) = m
        /\ decode(a) = FlattenSeq(DecodedEach(a))
    BY DecodedFacts
  <2>2. /\ DecodedEach(t) \in Seq(Text) /\ Len(DecodedEach(t)) = n
        /\ decode(t) = FlattenSeq(DecodedEach(t))
    BY DecodedFacts
  <2>3. /\ DecodedEach(c) \in Seq(Text) /\ Len(DecodedEach(c)) = m + n
        /\ decode(c) = FlattenSeq(DecodedEach(c))
    BY <1>2, <1>8, DecodedFacts
  <2> QED
    BY <2>1, <2>2, <2>3
<1>12. z = Both(x, y)
  <2> DEFINE b == Both(x, y)
  <2>1. /\ b \in Seq(Text) /\ Len(b) = m + n
        /\ \A i \in 1 .. m : b[i] = x[i]
        /\ \A i \in 1 .. n : b[m + i] = y[i]
    <3>1. x \in Seq(Text) /\ y \in Seq(Text)
      BY <1>11
    <3>2. /\ b \in Seq(Text) /\ Len(b) = Len(x) + Len(y)
          /\ \A i \in 1 .. Len(x) : b[i] = x[i]
          /\ \A i \in 1 .. Len(y) : b[Len(x) + i] = y[i]
      BY <3>1, BothFacts, Zenon
    <3> HIDE DEF b
    <3> QED
      BY <1>11, <3>2
  <2>2. /\ \A i \in 1 .. m : x[i] = DecodedAt(a, i)
        /\ \A i \in 1 .. n : y[i] = DecodedAt(t, i)
        /\ \A i \in 1 .. m + n : z[i] = DecodedAt(c, i)
    BY <1>2 DEF DecodedEach
  <2> HIDE DEF b
  <2>3. ASSUME NEW k \in 1 .. m + n PROVE z[k] = b[k]
    <3>1. CASE k \in 1 .. m
      BY <1>9, <2>1, <2>2, <3>1
    <3>2. CASE k \notin 1 .. m
      <4>1. k - m \in 1 .. n /\ k = m + (k - m)
        BY <1>1, <3>2
      <4>2. PICK i \in 1 .. n : k = m + i
        BY <4>1
      <4> QED
        BY <1>10, <2>1, <2>2, <4>2
    <3> QED
      BY <3>1, <3>2
  <2>4. z = b
    BY <1>11, <2>1, <2>3, SeqEqual
  <2> QED
    BY <2>4 DEF b
<1>13. decode(c) = Cat(decode(a), decode(t))
  BY <1>11, <1>12, FlattenBoth
<1> QED
  BY <1>8, <1>13

-----------------------------------------------------------------------------
(* What is encoded is decoded to what it was *)

\* What encode() makes of one byte of a path.
EncodedByte(b) ==
    IF b \in Unencoded({Slash}) THEN <<b>> ELSE <<Percent, HexChar(b \div 16), HexChar(b % 16)>>

EncodedPath(text) == encode(text, {Slash})

\* The hexadecimal digits are those of their values.
LEMMA HexCharFacts ==
    ASSUME NEW n \in 0 .. 15
    PROVE  HexChar(n) \in HexDigit /\ HexChar(n) \in Byte /\ HexValue(HexChar(n)) = n
<1>1. CASE n < 10
  BY <1>1 DEF HexChar, HexDigit, HexValue, Digit, Byte
<1>2. CASE ~(n < 10)
  <2>1. HexChar(n) = 55 + n /\ 55 + n \in 65 .. 70
    BY <1>2 DEF HexChar
  <2>2. HexValue(55 + n) = (55 + n) - 55
    BY <2>1 DEF HexValue, Digit, toUpper, Lower
  <2> QED
    BY <2>1, <2>2 DEF HexDigit, Byte
<1> QED
  BY <1>1, <1>2

\* Flattening one, and one with empty ones behind it.
LEMMA FlattenOne ==
    ASSUME NEW x \in Text
    PROVE  FlattenSeq(<<x>>) = x /\ FlattenSeq(<<x, <<>>, <<>> >>) = x
<1>1. FlattenSeq(<<>>) = <<>>
  BY DEF FlattenSeq
<1> DEFINE one == <<x>>
           two == <<x, <<>> >>
           three == <<x, <<>>, <<>> >>
<1> PICK T : T = Text
  OBVIOUS
<1>2. <<>> \in T /\ x \in T
  BY EmptyText
<1>3. /\ <<>> \in Seq(T) /\ one \in Seq(T) /\ two \in Seq(T)
      /\ one = Append(<<>>, x) /\ two = Append(one, <<>>) /\ three = Append(two, <<>>)
  BY <1>2
<1> HIDE DEF one, two, three
<1>4. \A s \in Seq(Text) : \A y \in Text : FlattenSeq(Append(s, y)) = Cat(FlattenSeq(s), y)
  BY FlattenFacts DEF Text, Cat
<1>5. FlattenSeq(one) = x
  <2>1. FlattenSeq(Append(<<>>, x)) = Cat(<<>>, x)
    BY <1>1, <1>3, <1>4
  <2> QED
    BY <1>3, <2>1, EmptyText
<1>6. FlattenSeq(two) = x
  BY <1>2, <1>3, <1>4, <1>5, EmptyText
<1>7. FlattenSeq(three) = x
  BY <1>2, <1>3, <1>4, <1>6, EmptyText
<1> QED
  BY <1>5, <1>7 DEF one, three

\* A byte that is not encoded.
LEMMA PlainFacts ==
    ASSUME NEW b \in Byte, b # Percent
    PROVE  /\ <<b>> \in Text /\ Len(<<b>>) = 1 /\ <<b>>[1] = b
           /\ Closed(<<b>>) /\ GoodEscapes(<<b>>) /\ decode(<<b>>) = <<b>>
<1> PICK s : s = <<b>>
  OBVIOUS
<1>1. s \in Text /\ Len(s) = 1 /\ s[1] = b
  BY DEF Text
<1>2. Escapes(s) = {}
  <2> SUFFICES ASSUME NEW i \in Escapes(s) PROVE FALSE
    OBVIOUS
  <2>1. i \in 1 .. 1 /\ s[i] = Percent
    BY <1>1, EscapesPlaces
  <2> QED
    BY <1>1, <2>1
<1>3. Closed(s) /\ GoodEscapes(s)
  BY <1>1, <1>2 DEF Closed, GoodEscapes
<1>4. decode(s) = FlattenSeq(DecodedEach(s))
  BY <1>1, <1>3, DecodedFacts
<1>5. DecodedAt(s, 1) = s
  BY <1>1, <1>2 DEF DecodedAt, InEscape
<1>6. DecodedEach(s) = <<s>>
  BY <1>1, <1>5 DEF DecodedEach
<1>7. FlattenSeq(<<s>>) = s
  BY <1>1, FlattenOne
<1> QED
  BY <1>1, <1>3, <1>4, <1>6, <1>7

\* And one that is.
LEMMA EscapedFacts ==
    ASSUME NEW b \in Byte
    PROVE  LET s == <<Percent, HexChar(b \div 16), HexChar(b % 16)>> IN
           /\ s \in Text /\ Len(s) = 3 /\ s[1] = Percent
           /\ s[2] \in HexDigit /\ s[3] \in HexDigit
           /\ Closed(s) /\ GoodEscapes(s) /\ decode(s) = <<b>>
<1>1. b \div 16 \in 0 .. 15 /\ b % 16 \in 0 .. 15 /\ b = 16 * (b \div 16) + (b % 16)
  <2>1. b \in Int /\ 0 <= b /\ b <= 255
    BY DEF Byte
  <2>2. \A n \in Int : n % 16 \in 0 .. 15 /\ n \div 16 \in Int /\ n = 16 * (n \div 16) + (n % 16)
    OBVIOUS
  <2>3. b % 16 \in 0 .. 15 /\ b \div 16 \in Int /\ b = 16 * (b \div 16) + (b % 16)
    BY <2>1, <2>2
  <2>4. \A q \in Int : \A r \in 0 .. 15 :
            0 <= 16 * q + r /\ 16 * q + r <= 255 => q \in 0 .. 15
    OBVIOUS
  <2> QED
    BY <2>1, <2>3, <2>4
<1> PICK h : h = HexChar(b \div 16)
  OBVIOUS
<1> PICK l : l = HexChar(b % 16)
  OBVIOUS
<1>2. /\ h \in HexDigit /\ h \in Byte /\ l \in HexDigit /\ l \in Byte
      /\ HexValue(h) = b \div 16 /\ HexValue(l) = b % 16
  BY <1>1, HexCharFacts
<1>3. (16 * HexValue(h)) + HexValue(l) = b
  BY <1>1, <1>2
<1> PICK s : s = <<Percent, h, l>>
  OBVIOUS
<1>4. Percent \in Byte /\ Percent \notin HexDigit
  BY DEF Percent, Byte, HexDigit, Digit
<1>5. s \in Text /\ Len(s) = 3 /\ s[1] = Percent /\ s[2] = h /\ s[3] = l
  BY <1>2, <1>4 DEF Text
<1>6. Escapes(s) = {1}
  <2>1. Marks(s) = {1}
    <3>1. \A i \in 1 .. 3 : IsEscape(s, i) <=> i = 1
      BY <1>5 DEF IsEscape
    <3> QED
      BY <1>5, <3>1 DEF Marks
  <2>2. Skips(3, {1}, Escapes(s))
    BY <1>5, <2>1, EscapesFacts
  <2> QED
    BY <2>2 DEF Skips
<1>7. Closed(s) /\ GoodEscapes(s)
  <2>1. Closed(s)
    <3>1. \A i \in 1 .. 3 : s[i] = Percent => i = 1
      BY <1>2, <1>4, <1>5
    <3> QED
      BY <1>5, <3>1 DEF Closed
  <2>2. GoodEscapes(s)
    BY <1>2, <1>5, <1>6 DEF GoodEscapes
  <2> QED
    BY <2>1, <2>2
<1>8. decode(s) = FlattenSeq(DecodedEach(s))
  BY <1>5, <1>7, DecodedFacts
<1>9. /\ DecodedAt(s, 1) = <<b>> /\ DecodedAt(s, 2) = <<>> /\ DecodedAt(s, 3) = <<>>
  <2>1. ~InEscape(s, 1) /\ InEscape(s, 2) /\ InEscape(s, 3) /\ 2 \notin Escapes(s)
          /\ 3 \notin Escapes(s)
    BY <1>6 DEF InEscape
  <2>2. DecodedAt(s, 1) = <<16 * HexValue(s[2]) + HexValue(s[3])>>
    BY <1>6, <2>1 DEF DecodedAt
  <2>3. DecodedAt(s, 2) = <<>> /\ DecodedAt(s, 3) = <<>>
    BY <2>1 DEF DecodedAt
  <2> QED
    BY <1>3, <1>5, <2>2, <2>3
<1>10. DecodedEach(s) = << <<b>>, <<>>, <<>> >>
  BY <1>5, <1>9 DEF DecodedEach
<1>11. <<b>> \in Text
  BY DEF Text
<1>12. FlattenSeq(<< <<b>>, <<>>, <<>> >>) = <<b>>
  BY <1>11, FlattenOne
<1>13. decode(s) = <<b>>
  BY <1>8, <1>10, <1>12, Zenon
<1> QED
  BY <1>2, <1>5, <1>7, <1>13

\* The first byte of a text, and the others.
LEMMA FirstOne ==
    ASSUME NEW s \in Text, s # <<>>
    PROVE  \E b \in Byte : \E y \in Text : s = Cat(<<b>>, y) /\ Len(s) = Len(y) + 1
<1>1. Len(s) \in Nat /\ Len(s) # 0
  BY TextFacts
<1>2. 1 \in 0 .. Len(s) /\ 1 \in 1 .. Len(s)
  BY <1>1
<1>3. /\ Sub(s, 1, 1) \in Text /\ Len(Sub(s, 1, 1)) = 1
      /\ From(s, 1) \in Text /\ s = Cat(Sub(s, 1, 1), From(s, 1))
  BY <1>2, SplitAt
<1>4. Len(From(s, 1)) = Len(s) - 1
  BY <1>2, FromFacts
<1>5. Sub(s, 1, 1)[1] \in Byte
  BY <1>3, TextFacts
<1> PICK a : a = Sub(s, 1, 1)
  OBVIOUS
<1>6. a = <<a[1]>>
  BY <1>3 DEF Text
<1> QED
  BY <1>1, <1>3, <1>4, <1>5, <1>6

\* One byte in front of a text, encoded.
LEMMA EncodeFirst ==
    /\ EncodedPath(<<>>) = <<>>
    /\ \A b \in Byte : \A y \in Text :
            /\ EncodedByte(b) \in Text /\ EncodedPath(y) \in Text
            /\ EncodedPath(Cat(<<b>>, y)) = Cat(EncodedByte(b), EncodedPath(y))
<1> DEFINE each(s) == [i \in 1 .. Len(s) |-> EncodedByte(s[i])]
<1>1. \A s \in Text : EncodedPath(s) = FlattenSeq(each(s))
  <2> SUFFICES ASSUME NEW s \in Text PROVE EncodedPath(s) = FlattenSeq(each(s))
    OBVIOUS
  <2>1. EncodedPath(s) = FlattenSeq([i \in DOMAIN s |-> EncodedByte(s[i])])
    BY DEF EncodedPath, encode, EncodedByte
  <2>2. DOMAIN s = 1 .. Len(s)
    BY TextFacts
  <2> QED
    BY <2>1, <2>2
<1>2. \A b \in Byte : EncodedByte(b) \in Text
  <2> SUFFICES ASSUME NEW b \in Byte PROVE EncodedByte(b) \in Text
    OBVIOUS
  <2>1. <<b>> \in Text
    BY DEF Text
  <2>2. <<Percent, HexChar(b \div 16), HexChar(b % 16)>> \in Text
    BY EscapedFacts, Zenon
  <2> QED
    BY <2>1, <2>2, Zenon DEF EncodedByte
<1> PICK T : T = Text
  OBVIOUS
<1>3. \A s \in Text : each(s) \in Seq(T) /\ Len(each(s)) = Len(s)
  <2> SUFFICES ASSUME NEW s \in Text PROVE each(s) \in Seq(T) /\ Len(each(s)) = Len(s)
    OBVIOUS
  <2>1. Len(s) \in Nat /\ \A i \in 1 .. Len(s) : EncodedByte(s[i]) \in T
    BY <1>2, TextFacts
  <2> HIDE DEF EncodedByte
  <2> QED
    BY <2>1
<1>4. EncodedPath(<<>>) = <<>>
  <2>1. each(<<>>) = <<>> /\ FlattenSeq(<<>>) = <<>>
    BY DEF FlattenSeq
  <2> QED
    BY <1>1, <2>1, EmptyText
<1>5. ASSUME NEW b \in Byte, NEW y \in Text
      PROVE  EncodedPath(Cat(<<b>>, y)) = Cat(EncodedByte(b), EncodedPath(y))
  <2> PICK e : e = EncodedByte(b)
    OBVIOUS
  <2> PICK c : c = Cat(<<b>>, y)
    OBVIOUS
  <2>1. <<b>> \in Text /\ Len(<<b>>) = 1 /\ <<b>>[1] = b
    BY DEF Text
  <2>2. c \in Text /\ Len(c) = 1 + Len(y) /\ c[1] = b /\ \A i \in 1 .. Len(y) : c[1 + i] = y[i]
    <3>1. \A z \in Text : /\ Cat(<<b>>, z) \in Text /\ Len(Cat(<<b>>, z)) = 1 + Len(z)
                          /\ Cat(<<b>>, z)[1] = b
                          /\ \A i \in 1 .. Len(z) : Cat(<<b>>, z)[1 + i] = z[i]
      BY ByteBefore
    <3> QED
      BY <3>1, Zenon
  <2>3. e \in Text /\ Len(y) \in Nat
    BY <1>2, TextFacts
  <2> DEFINE both == Both(<<e>>, each(y))
  <2>4. <<e>> \in Seq(T) /\ each(y) \in Seq(T) /\ each(c) \in Seq(T) /\ <<e>>[1] = e
          /\ Len(<<e>>) = 1
    BY <1>3, <2>2, <2>3
  <2>5. /\ both \in Seq(T) /\ Len(both) = 1 + Len(each(y))
        /\ both[1] = e
        /\ \A i \in 1 .. Len(each(y)) : both[1 + i] = each(y)[i]
    <3>1. e \in Text /\ each(y) \in Seq(Text)
      BY <2>3, <2>4
    <3> HIDE DEF each
    <3> QED
      BY <3>1, BothBefore, Zenon
  <2>6. /\ Len(each(c)) = 1 + Len(y) /\ Len(each(y)) = Len(y)
        /\ each(c)[1] = e /\ \A i \in 1 .. Len(y) : each(c)[1 + i] = each(y)[i]
    BY <1>3, <2>2, <2>3
  <2> PICK x : x = each(c)
    OBVIOUS
  <2> PICK z : z = both
    OBVIOUS
  <2> PICK w : w = each(y)
    OBVIOUS
  <2>7. x = z
    <3>1. /\ Len(x) = 1 + Len(y) /\ Len(z) = 1 + Len(y)
          /\ \A i \in 1 .. Len(y) : x[1 + i] = z[1 + i]
          /\ x[1] = z[1]
      <4>1. Len(x) = 1 + Len(y) /\ Len(w) = Len(y) /\ x[1] = e
              /\ \A i \in 1 .. Len(y) : x[1 + i] = w[i]
        BY <2>6
      <4>2. Len(z) = 1 + Len(w) /\ z[1] = e /\ \A i \in 1 .. Len(w) : z[1 + i] = w[i]
        BY <2>5
      <4> QED
        BY <4>1, <4>2
    <3>2. ASSUME NEW k \in 1 .. 1 + Len(y) PROVE x[k] = z[k]
      <4>1. k = 1 \/ (k - 1 \in 1 .. Len(y) /\ k = 1 + (k - 1))
        BY <2>3
      <4> QED
        BY <3>1, <4>1
    <3>3. x \in Seq(T) /\ z \in Seq(T)
      BY <2>4, <2>5
    <3> QED
      BY <3>1, <3>2, <3>3, SeqEqual
  <2>8. FlattenSeq(both) = Cat(FlattenSeq(<<e>>), FlattenSeq(each(y)))
    <3>1. <<e>> \in Seq(Text) /\ each(y) \in Seq(Text)
      BY <2>4
    <3> QED
      BY <3>1, FlattenBoth, Zenon
  <2>9. FlattenSeq(<<e>>) = e
    BY <2>3, FlattenOne, Zenon
  <2> HIDE DEF each, both
  <2>10. EncodedPath(c) = FlattenSeq(each(c)) /\ EncodedPath(y) = FlattenSeq(each(y))
    BY <1>1, <2>2
  <2> QED
    BY <2>7, <2>8, <2>9, <2>10, Zenon
<1>6. \A s \in Text : EncodedPath(s) \in Text
  <2> SUFFICES ASSUME NEW s \in Text PROVE EncodedPath(s) \in Text
    OBVIOUS
  <2>1. each(s) \in Seq(T)
    BY <1>3
  <2>2. \A q \in Seq(Text) : FlattenSeq(q) \in Text
    BY FlattenType DEF Text
  <2> HIDE DEF each
  <2> QED
    BY <1>1, <2>1, <2>2
<1> QED
  BY <1>2, <1>4, <1>5, <1>6

\* One byte, encoded.
LEMMA ByteFacts ==
    ASSUME NEW b \in Byte
    PROVE  LET e == EncodedByte(b) IN
           /\ e \in Text /\ Len(e) \in {1, 3}
           /\ Closed(e) /\ GoodEscapes(e) /\ decode(e) = <<b>>
           /\ Free(e, {Question, Hash})
           /\ Len(e) = 3 => e[1] = Percent
           /\ e[1] = Slash <=> b = Slash
           /\ b = Slash => e = <<Slash>>
<1>1. CASE b \in Unencoded({Slash})
  <2>1. b # Percent /\ b \notin {Question, Hash}
    BY <1>1 DEF Unencoded, PlainByte, Alnum, Digit, Upper, Lower, Percent, Slash, Question, Hash
  <2>2. EncodedByte(b) = <<b>>
    BY <1>1 DEF EncodedByte
  <2> PICK e : e = <<b>>
    OBVIOUS
  <2>3. e \in Text /\ Len(e) = 1 /\ e[1] = b /\ Closed(e) /\ GoodEscapes(e) /\ decode(e) = <<b>>
    BY <2>1, PlainFacts
  <2>4. Free(e, {Question, Hash})
    BY <2>1, <2>3 DEF Free
  <2> QED
    BY <2>2, <2>3, <2>4
<1>2. CASE b \notin Unencoded({Slash})
  <2>1. b # Slash
    BY <1>2 DEF Unencoded
  <2> PICK e : e = <<Percent, HexChar(b \div 16), HexChar(b % 16)>>
    OBVIOUS
  <2>2. EncodedByte(b) = e
    BY <1>2 DEF EncodedByte
  <2>3. /\ e \in Text /\ Len(e) = 3 /\ e[1] = Percent
        /\ e[2] \in HexDigit /\ e[3] \in HexDigit
        /\ Closed(e) /\ GoodEscapes(e) /\ decode(e) = <<b>>
    BY EscapedFacts
  <2>4. Percent \notin {Question, Hash, Slash} /\ \A h \in HexDigit : h \notin {Question, Hash}
    BY DEF Percent, Question, Hash, Slash, HexDigit, Digit
  <2>5. Free(e, {Question, Hash})
    BY <2>3, <2>4 DEF Free
  <2>6. e[1] # Slash
    BY <2>3, <2>4
  <2> QED
    BY <2>1, <2>2, <2>3, <2>5, <2>6
<1> QED
  BY <1>1, <1>2

\* A text of the one kind and a text of the other are one together.
LEMMA ClosedCat ==
    ASSUME NEW a \in Text, NEW t \in Text, NEW bytes
    PROVE  /\ Closed(a) /\ Closed(t) => Closed(Cat(a, t))
           /\ Free(a, bytes) /\ Free(t, bytes) => Free(Cat(a, t), bytes)
<1> PICK m : m = Len(a)
  OBVIOUS
<1> PICK n : n = Len(t)
  OBVIOUS
<1> PICK c : c = Cat(a, t)
  OBVIOUS
<1>1. m \in Nat /\ n \in Nat
  BY TextFacts
<1>2. /\ Len(c) = m + n
      /\ \A i \in 1 .. m : c[i] = a[i]
      /\ \A i \in 1 .. n : c[m + i] = t[i]
  BY ConcatFacts
<1>3. \A k \in 1 .. m + n : k \in 1 .. m \/ \E i \in 1 .. n : k = m + i
  <2> SUFFICES ASSUME NEW k \in 1 .. m + n, k \notin 1 .. m PROVE \E i \in 1 .. n : k = m + i
    OBVIOUS
  <2>1. k - m \in 1 .. n /\ k = m + (k - m)
    BY <1>1
  <2> QED
    BY <2>1
<1>4. Closed(a) /\ Closed(t) => Closed(c)
  <2> SUFFICES ASSUME Closed(a), Closed(t), NEW k \in 1 .. m + n, c[k] = Percent
                        PROVE k + 2 <= m + n
    BY <1>2 DEF Closed
  <2>1. CASE k \in 1 .. m
    BY <1>1, <1>2, <2>1 DEF Closed
  <2>2. ASSUME NEW i \in 1 .. n, k = m + i PROVE k + 2 <= m + n
    BY <1>1, <1>2, <2>2 DEF Closed
  <2> QED
    BY <1>3, <2>1, <2>2
<1>5. Free(a, bytes) /\ Free(t, bytes) => Free(c, bytes)
  <2> SUFFICES ASSUME Free(a, bytes), Free(t, bytes), NEW k \in 1 .. m + n PROVE c[k] \notin bytes
    BY <1>2 DEF Free
  <2>1. CASE k \in 1 .. m
    BY <1>2, <2>1 DEF Free
  <2>2. ASSUME NEW i \in 1 .. n, k = m + i PROVE c[k] \notin bytes
    BY <1>2, <2>2 DEF Free
  <2> QED
    BY <1>3, <2>1, <2>2
<1> QED
  BY <1>4, <1>5

\* No bytes at all.
LEMMA NothingFacts ==
    /\ Closed(<<>>) /\ GoodEscapes(<<>>) /\ decode(<<>>) = <<>> /\ \A bytes : Free(<<>>, bytes)
<1>1. Len(<<>>) = 0 /\ <<>> \in Text
  BY EmptyText
<1>2. Escapes(<<>>) = {}
  BY <1>1, EscapesPlaces
<1> QED
  BY <1>1, <1>2, DecodeNothing DEF Closed, GoodEscapes, Free

\* A text that encode() could have made of x.
Undone(x) ==
    LET e == EncodedPath(x) IN
    /\ e \in Text /\ Closed(e) /\ GoodEscapes(e) /\ decode(e) = x
    /\ Free(e, {Question, Hash})
    /\ Len(x) <= Len(e)

\* decode() undoes encode().
LEMMA EncodeFacts ==
    ASSUME NEW x \in Text
    PROVE  Undone(x)
<1> DEFINE T == {n \in Nat : \A s \in Text : Len(s) = n => Undone(s)}
<1>1. 0 \in T
  <2> SUFFICES ASSUME NEW s \in Text, Len(s) = 0 PROVE Undone(s)
    OBVIOUS
  <2>1. s = <<>>
    BY TextFacts
  <2>2. EncodedPath(s) = <<>>
    BY <2>1, EncodeFirst
  <2> QED
    BY <2>1, <2>2, NothingFacts, EmptyText DEF Undone
<1>2. ASSUME NEW n \in Nat, n \in T PROVE n + 1 \in T
  <2> SUFFICES ASSUME NEW s \in Text, Len(s) = n + 1 PROVE Undone(s)
    OBVIOUS
  <2>1. s # <<>>
    BY TextFacts
  <2>2. PICK b \in Byte, y \in Text : s = Cat(<<b>>, y) /\ Len(s) = Len(y) + 1
    BY <2>1, FirstOne
  <2>3. Len(y) = n /\ Len(y) \in Nat
    BY <2>2, TextFacts
  <2>4. Undone(y)
    BY <1>2, <2>3
  <2> PICK a : a = EncodedByte(b)
    OBVIOUS
  <2> PICK t : t = EncodedPath(y)
    OBVIOUS
  <2>5. /\ a \in Text /\ Len(a) \in {1, 3} /\ Closed(a) /\ GoodEscapes(a) /\ decode(a) = <<b>>
        /\ Free(a, {Question, Hash})
    BY ByteFacts
  <2>6. /\ t \in Text /\ Closed(t) /\ GoodEscapes(t) /\ decode(t) = y
        /\ Free(t, {Question, Hash}) /\ Len(y) <= Len(t)
    BY <2>4 DEF Undone
  <2>7. EncodedPath(s) = Cat(a, t)
    BY <2>2, EncodeFirst
  <2>8. GoodEscapes(Cat(a, t)) /\ decode(Cat(a, t)) = Cat(decode(a), decode(t))
    BY <2>5, <2>6, DecodeCat
  <2>9. Closed(Cat(a, t)) /\ Free(Cat(a, t), {Question, Hash})
    BY <2>5, <2>6, ClosedCat
  <2>10. Cat(a, t) \in Text /\ Len(Cat(a, t)) = Len(a) + Len(t) /\ Len(t) \in Nat
    <3>1. a \in Text /\ t \in Text
      BY <2>5, <2>6
    <3> QED
      BY <3>1, ConcatFacts, TextFacts
  <2>11. Len(s) <= Len(Cat(a, t))
    BY <2>2, <2>3, <2>5, <2>6, <2>10
  <2>12. decode(Cat(a, t)) = s
    BY <2>2, <2>5, <2>6, <2>8, Zenon
  <2> QED
    BY <2>7, <2>8, <2>9, <2>10, <2>11, <2>12, Zenon DEF Undone
<1>3. Nat \subseteq T
  <2> HIDE DEF T
  <2> QED
    BY <1>1, <1>2, SetInduction
<1>4. Len(x) \in Nat
  BY TextFacts
<1> QED
  BY <1>3, <1>4

\* How two texts begin.
LEMMA PrefixOfCat ==
    ASSUME NEW a \in Text, NEW b \in Text
    PROVE  /\ \A n \in 0 .. Len(a) : Sub(Cat(a, b), 1, n) = Sub(a, 1, n)
           /\ \A j \in 0 .. Len(b) : Sub(Cat(a, b), 1, Len(a) + j) = Cat(a, Sub(b, 1, j))
<1> PICK m : m = Len(a)
  OBVIOUS
<1> PICK k : k = Len(b)
  OBVIOUS
<1> PICK c : c = Cat(a, b)
  OBVIOUS
<1>1. m \in Nat /\ k \in Nat
  BY TextFacts
<1>2. /\ c \in Text /\ Len(c) = m + k
      /\ \A i \in 1 .. m : c[i] = a[i]
      /\ \A i \in 1 .. k : c[m + i] = b[i]
  BY ConcatFacts
<1>3. \A n \in 0 .. m + k : /\ Sub(c, 1, n) \in Text /\ Len(Sub(c, 1, n)) = n
                            /\ \A i \in 1 .. n : Sub(c, 1, n)[i] = c[i]
  <2> SUFFICES ASSUME NEW n \in 0 .. m + k
               PROVE  /\ Sub(c, 1, n) \in Text /\ Len(Sub(c, 1, n)) = n
                      /\ \A i \in 1 .. n : Sub(c, 1, n)[i] = c[i]
    OBVIOUS
  <2>1. 1 \in Nat \ {0} /\ n \in Int /\ n <= Len(c)
    BY <1>1, <1>2
  <2>2. /\ Sub(c, 1, n) \in Text /\ Len(Sub(c, 1, n)) = IF 1 <= n THEN n - 1 + 1 ELSE 0
        /\ \A i \in 1 .. n - 1 + 1 : Sub(c, 1, n)[i] = c[1 + i - 1]
    BY <1>2, <2>1, SubFacts
  <2>3. n - 1 + 1 = n /\ (IF 1 <= n THEN n - 1 + 1 ELSE 0) = n /\ \A i \in 1 .. n : 1 + i - 1 = i
    BY <1>1
  <2> QED
    BY <2>2, <2>3
<1>4. ASSUME NEW n \in 0 .. m PROVE Sub(c, 1, n) = Sub(a, 1, n)
  <2>1. n \in 0 .. m + k /\ n \in 0 .. Len(a)
    BY <1>1
  <2>2. Sub(a, 1, n) \in Text /\ Len(Sub(a, 1, n)) = n
    BY <2>1, SplitAt
  <2>3. \A i \in 1 .. n : Sub(a, 1, n)[i] = a[i]
    <3>1. 1 \in Nat \ {0} /\ n \in Int /\ n <= Len(a)
      BY <1>1
    <3>2. \A i \in 1 .. n - 1 + 1 : Sub(a, 1, n)[i] = a[1 + i - 1]
      BY <3>1, SubFacts
    <3>3. n - 1 + 1 = n /\ \A i \in 1 .. n : 1 + i - 1 = i
      BY <1>1
    <3> QED
      BY <3>2, <3>3
  <2> PICK x : x = Sub(c, 1, n)
    OBVIOUS
  <2> PICK z : z = Sub(a, 1, n)
    OBVIOUS
  <2>4. x \in Text /\ z \in Text /\ \A i \in 1 .. n : x[i] = z[i]
    BY <1>2, <1>3, <2>1, <2>2, <2>3
  <2>5. Len(x) = n /\ Len(z) = n
    BY <1>3, <2>1, <2>2
  <2>6. x = z
    BY <2>4, <2>5, SameText
  <2> QED
    BY <2>6
<1>5. ASSUME NEW j \in 0 .. k PROVE Sub(c, 1, m + j) = Cat(a, Sub(b, 1, j))
  <2> PICK p : p = Sub(b, 1, j)
    OBVIOUS
  <2>1. m + j \in 0 .. m + k /\ j \in 0 .. Len(b)
    BY <1>1
  <2>2. p \in Text
    BY <2>1, SplitAt
  <2>3. Len(p) = j
    BY <2>1, SplitAt
  <2>4. \A i \in 1 .. j : p[i] = b[i]
    <3>1. 1 \in Nat \ {0} /\ j \in Int /\ j <= Len(b)
      BY <1>1
    <3>2. \A i \in 1 .. j - 1 + 1 : p[i] = b[1 + i - 1]
      BY <3>1, SubFacts
    <3>3. j - 1 + 1 = j /\ \A i \in 1 .. j : 1 + i - 1 = i
      BY <1>1
    <3> QED
      BY <3>2, <3>3
  <2> PICK x : x = Sub(c, 1, m + j)
    OBVIOUS
  <2> PICK z : z = Cat(a, p)
    OBVIOUS
  <2>5. x \in Text /\ \A i \in 1 .. m + j : x[i] = c[i]
    BY <1>3, <2>1
  <2>6. /\ z \in Text /\ Len(z) = Len(a) + Len(p)
        /\ \A i \in 1 .. Len(a) : z[i] = a[i]
        /\ \A i \in 1 .. Len(p) : z[Len(a) + i] = p[i]
    <3>1. /\ Cat(a, p) \in Text /\ Len(Cat(a, p)) = Len(a) + Len(p)
          /\ \A i \in 1 .. Len(a) : Cat(a, p)[i] = a[i]
          /\ \A i \in 1 .. Len(p) : Cat(a, p)[Len(a) + i] = p[i]
      BY <2>2, ConcatFacts, Zenon
    <3> QED
      BY <3>1
  <2>7. Len(x) = m + j /\ Len(z) = m + j
    BY <1>3, <2>1, <2>3, <2>6
  <2>8. ASSUME NEW i \in 1 .. m + j PROVE x[i] = z[i]
    <3>1. CASE i \in 1 .. m
      BY <1>2, <2>5, <2>6, <3>1
    <3>2. CASE i \notin 1 .. m
      <4>1. i - m \in 1 .. j /\ i - m \in 1 .. k /\ i = m + (i - m)
        BY <1>1, <3>2
      <4>2. c[i] = b[i - m] /\ z[i] = p[i - m] /\ p[i - m] = b[i - m]
        <5> PICK h : h = i - m
          OBVIOUS
        <5>1. h \in 1 .. j /\ h \in 1 .. k /\ i = m + h
          BY <4>1
        <5>2. c[m + h] = b[h] /\ z[m + h] = p[h] /\ p[h] = b[h]
          BY <1>2, <2>3, <2>4, <2>6, <5>1
        <5> QED
          BY <5>1, <5>2
      <4> QED
        BY <2>5, <4>2
    <3> QED
      BY <3>1, <3>2
  <2>9. x \in Text /\ z \in Text /\ \A i \in 1 .. m + j : x[i] = z[i]
    BY <2>5, <2>6, <2>8
  <2>10. x = z
    BY <2>7, <2>9, SameText
  <2> QED
    BY <2>10
<1> QED
  BY <1>4, <1>5

\* What decode() makes of the first n bytes of the text of x, which may end in half an
\* escape: each of the others stands for at most a third of a byte of x.
Bounded(x, n) ==
    LET e == EncodedPath(x)
        d == Sub(e, 1, n)
    IN  GoodEscapes(d) /\ 3 * Len(decode(d)) + (Len(e) - n) <= 3 * Len(x) + 4

Beginnings(x) ==
    /\ Len(EncodedPath(x)) <= 3 * Len(x)
    /\ \A n \in 0 .. Len(EncodedPath(x)) : Bounded(x, n)

\* Two bytes are no escape.
LEMMA TwoBytes ==
    ASSUME NEW s \in Text, Len(s) <= 2
    PROVE  GoodEscapes(s) /\ Len(decode(s)) \in Nat /\ Len(decode(s)) <= Len(s)
<1>1. Len(s) \in Nat
  BY TextFacts
<1>2. Escapes(s) = {}
  <2> SUFFICES ASSUME NEW i \in Escapes(s) PROVE FALSE
    OBVIOUS
  <2>1. i \in 1 .. Len(s) /\ i + 2 <= Len(s)
    BY EscapesPlaces
  <2> QED
    BY <1>1, <2>1
<1>3. decode(s) \in Text /\ Len(decode(s)) <= Len(s)
  BY DecodeFacts
<1>4. Len(decode(s)) \in Nat
  BY <1>3, TextFacts
<1> QED
  BY <1>2, <1>3, <1>4 DEF GoodEscapes

\* A byte more.
LEMMA BeginningsFirst ==
    ASSUME NEW b \in Byte, NEW y \in Text, Beginnings(y)
    PROVE  Beginnings(Cat(<<b>>, y))
<1> PICK s : s = Cat(<<b>>, y)
  OBVIOUS
<1> PICK a : a = EncodedByte(b)
  OBVIOUS
<1> PICK t : t = EncodedPath(y)
  OBVIOUS
<1> PICK e : e = EncodedPath(s)
  OBVIOUS
<1>1. a \in Text /\ Len(a) \in {1, 3} /\ Closed(a) /\ GoodEscapes(a) /\ decode(a) = <<b>>
  BY ByteFacts
<1>2. t \in Text /\ e = Cat(a, t)
  BY EncodeFirst
<1> PICK m : m = Len(a)
  OBVIOUS
<1> PICK k : k = Len(t)
  OBVIOUS
<1> PICK l : l = Len(y)
  OBVIOUS
<1>3. m \in Nat /\ m >= 1 /\ m <= 3 /\ k \in Nat /\ l \in Nat
  <2>1. m = 1 \/ m = 3
    BY <1>1
  <2>2. k \in Nat /\ l \in Nat
    BY <1>2, TextFacts
  <2> QED
    BY <2>1, <2>2
<1>4. k <= 3 * l
  BY DEF Beginnings
<1>5. e \in Text /\ Len(e) = m + k
  <2>1. Cat(a, t) \in Text /\ Len(Cat(a, t)) = Len(a) + Len(t)
    BY <1>1, <1>2, ConcatFacts
  <2> QED
    BY <1>2, <2>1
<1>6. s \in Text /\ Len(s) = l + 1
  <2>1. <<b>> \in Text /\ Len(<<b>>) = 1
    BY DEF Text
  <2>2. Cat(<<b>>, y) \in Text /\ Len(Cat(<<b>>, y)) = Len(<<b>>) + Len(y)
    BY <2>1, ConcatFacts, Zenon
  <2> QED
    BY <1>3, <2>1, <2>2
<1>7. ASSUME NEW n \in 0 .. m + k PROVE Bounded(s, n)
  <2> PICK d : d = Sub(e, 1, n)
    OBVIOUS
  <2>1. SUFFICES GoodEscapes(d) /\ 3 * Len(decode(d)) + ((m + k) - n) <= 3 * (l + 1) + 4
    BY <1>5, <1>6 DEF Bounded
  <2>2. CASE n < m
    <3>1. n \in 0 .. Len(a) /\ n <= 2
      BY <1>3, <2>2
    <3>2. d = Sub(a, 1, n)
      BY <1>1, <1>2, <3>1, PrefixOfCat
    <3>3. Sub(a, 1, n) \in Text /\ Len(Sub(a, 1, n)) = n
      BY <1>1, <3>1, SplitAt
    <3>4. GoodEscapes(d) /\ Len(decode(d)) \in Nat /\ Len(decode(d)) <= n
      <4>1. d \in Text /\ Len(d) <= 2
        BY <3>1, <3>2, <3>3
      <4>2. GoodEscapes(d) /\ Len(decode(d)) \in Nat /\ Len(decode(d)) <= Len(d)
        BY <4>1, TwoBytes
      <4> QED
        BY <3>2, <3>3, <4>2
    <3> PICK q : q = Len(decode(d))
      OBVIOUS
    <3>5. q \in Nat /\ q <= n
      BY <3>4
    <3>6. 3 * q + ((m + k) - n) <= 3 * (l + 1) + 4
      BY <1>3, <1>4, <2>2, <3>5
    <3> QED
      BY <3>4, <3>6
  <2>3. CASE ~(n < m)
    <3> PICK j : j = n - m
      OBVIOUS
    <3>1. j \in 0 .. k /\ n = m + j
      BY <1>3, <2>3
    <3> PICK h : h = Sub(t, 1, j)
      OBVIOUS
    <3>2. d = Cat(a, h)
      BY <1>1, <1>2, <3>1, PrefixOfCat
    <3>3. h \in Text
      BY <1>2, <3>1, SplitAt
    <3>4. GoodEscapes(h) /\ 3 * Len(decode(h)) + (k - j) <= 3 * l + 4
      BY <3>1 DEF Beginnings, Bounded
    <3>5. GoodEscapes(Cat(a, h)) /\ decode(Cat(a, h)) = Cat(decode(a), decode(h))
      BY <1>1, <3>3, <3>4, DecodeCat
    <3>6. Len(decode(h)) \in Nat /\ Len(Cat(<<b>>, decode(h))) = 1 + Len(decode(h))
      <4>1. decode(h) \in Text
        BY <3>3, DecodeFacts
      <4>2. <<b>> \in Text /\ Len(<<b>>) = 1
        BY DEF Text
      <4>3. Len(Cat(<<b>>, decode(h))) = Len(<<b>>) + Len(decode(h))
        BY <4>1, <4>2, ConcatFacts, Zenon
      <4> QED
        BY <4>1, <4>2, <4>3, TextFacts
    <3> PICK q : q = Len(decode(h))
      OBVIOUS
    <3>7. Len(decode(d)) = 1 + q /\ q \in Nat
      BY <1>1, <3>2, <3>5, <3>6
    <3>8. 3 * (1 + q) + ((m + k) - n) <= 3 * (l + 1) + 4
      BY <1>3, <3>1, <3>4, <3>7
    <3> QED
      BY <3>2, <3>5, <3>7, <3>8
  <2> QED
    BY <2>2, <2>3
<1>8. Len(e) <= 3 * Len(s)
  BY <1>3, <1>4, <1>5, <1>6
<1> QED
  BY <1>5, <1>7, <1>8 DEF Beginnings

\* So for every text.
LEMMA BeginningsFacts ==
    ASSUME NEW x \in Text
    PROVE  Beginnings(x)
<1> DEFINE T == {n \in Nat : \A s \in Text : Len(s) = n => Beginnings(s)}
<1>1. 0 \in T
  <2> SUFFICES ASSUME NEW s \in Text, Len(s) = 0 PROVE Beginnings(s)
    OBVIOUS
  <2>1. s = <<>>
    BY TextFacts
  <2>2. EncodedPath(s) = <<>> /\ Len(<<>>) = 0 /\ <<>> \in Text
    BY <2>1, EncodeFirst, EmptyText
  <2>3. Sub(<<>>, 1, 0) = <<>>
    BY DEF Sub
  <2>4. Bounded(s, 0)
    BY <2>2, <2>3, NothingFacts DEF Bounded
  <2> QED
    BY <2>2, <2>4 DEF Beginnings
<1>2. ASSUME NEW n \in Nat, n \in T PROVE n + 1 \in T
  <2> SUFFICES ASSUME NEW s \in Text, Len(s) = n + 1 PROVE Beginnings(s)
    OBVIOUS
  <2>1. s # <<>>
    BY TextFacts
  <2>2. PICK b \in Byte, y \in Text : s = Cat(<<b>>, y) /\ Len(s) = Len(y) + 1
    BY <2>1, FirstOne
  <2>3. Len(y) = n
    <3>1. Len(y) \in Nat
      BY TextFacts
    <3> QED
      BY <2>2, <3>1
  <2>4. Beginnings(y)
    BY <1>2, <2>3
  <2>5. Beginnings(Cat(<<b>>, y))
    BY <2>4, BeginningsFirst
  <2> QED
    BY <2>2, <2>5, Zenon
<1>3. Nat \subseteq T
  <2> HIDE DEF T
  <2> QED
    BY <1>1, <1>2, SetInduction
<1>4. Len(x) \in Nat
  BY TextFacts
<1> QED
  BY <1>3, <1>4

\* A path of which so much is cut off that its length comes round has become shorter.
LEMMA CutIsShorter ==
    ASSUME NEW x \in Text, NEW n \in 0 .. Len(EncodedPath(x)), n + Width <= Len(EncodedPath(x))
    PROVE  /\ decode(Sub(EncodedPath(x), 1, n)) \in Text
           /\ Len(decode(Sub(EncodedPath(x), 1, n))) < Len(x)
<1> PICK e : e = EncodedPath(x)
  OBVIOUS
<1> PICK d : d = Sub(e, 1, n)
  OBVIOUS
<1>1. e \in Text
  BY EncodeFacts DEF Undone
<1>2. d \in Text
  BY <1>1, SplitAt
<1>3. decode(d) \in Text /\ Len(decode(d)) \in Nat /\ Len(x) \in Nat /\ Len(e) \in Nat
  BY <1>1, <1>2, DecodeFacts, TextFacts
<1>4. 3 * Len(decode(d)) + (Len(e) - n) <= 3 * Len(x) + 4
  BY BeginningsFacts DEF Beginnings, Bounded
<1>5. Width \in Nat /\ Width > 4
  BY WidthAssumption
<1>6. Len(decode(d)) < Len(x)
  BY <1>3, <1>4, <1>5
<1> QED
  BY <1>3, <1>6

-----------------------------------------------------------------------------
(* How the text of a path begins *)

\* Slashes are not encoded, and nothing else becomes one.
LEMMA EncodedHead ==
    ASSUME NEW x \in Text
    PROVE  /\ EncodedPath(x) = <<>> <=> x = <<>>
           /\ ByteAt(EncodedPath(x), 0, Slash) <=> ByteAt(x, 0, Slash)
<1>1. CASE x = <<>>
  BY <1>1, EncodeFirst
<1>2. CASE x # <<>>
  <2>1. PICK b \in Byte, y \in Text : x = Cat(<<b>>, y)
    BY <1>2, FirstOne
  <2> PICK a : a = EncodedByte(b)
    OBVIOUS
  <2> PICK t : t = EncodedPath(y)
    OBVIOUS
  <2>2. EncodedPath(x) = Cat(a, t) /\ t \in Text
    BY <2>1, EncodeFirst
  <2>3. a \in Text /\ Len(a) \in {1, 3} /\ (a[1] = Slash <=> b = Slash)
    BY ByteFacts
  <2>4. a # <<>>
    BY <2>3, EmptyText
  <2>5. Cat(a, t) \in Text /\ Cat(a, t) # <<>> /\ Cat(a, t)[1] = a[1]
    <3>1. a \in Text /\ t \in Text
      BY <2>2, <2>3
    <3>2. Cat(a, t) \in Text
      BY <3>1, ConcatFacts
    <3>3. Cat(a, t) # <<>> /\ Cat(a, t)[1] = a[1]
      BY <2>4, <3>1, CatFirst
    <3> QED
      BY <3>2, <3>3
  <2>6. ByteAt(Cat(a, t), 0, Slash) <=> a[1] = Slash
    BY <2>5, FirstByte
  <2>7. ByteAt(Cat(<<b>>, y), 0, Slash) <=> b = Slash
    BY OneByte
  <2> QED
    BY <1>2, <2>1, <2>2, <2>3, <2>5, <2>6, <2>7, Zenon
<1> QED
  BY <1>1, <1>2

\* Two of them stay two.
LEMMA EncodedSlashes ==
    ASSUME NEW x \in Text
    PROVE  /\ ByteAt(EncodedPath(x), 0, Slash) /\ ByteAt(EncodedPath(x), 1, Slash)
           <=> ByteAt(x, 0, Slash) /\ ByteAt(x, 1, Slash)
<1>1. CASE ByteAt(x, 0, Slash)
  <2>1. x # <<>>
    BY <1>1, FirstByte
  <2>2. PICK b \in Byte, y \in Text : x = Cat(<<b>>, y)
    BY <2>1, FirstOne
  <2>3. b = Slash
    <3>1. ByteAt(Cat(<<b>>, y), 0, Slash) <=> b = Slash
      BY OneByte
    <3> QED
      BY <1>1, <2>2, <3>1, Zenon
  <2> PICK t : t = EncodedPath(y)
    OBVIOUS
  <2>4. EncodedPath(x) = Cat(<<Slash>>, t) /\ t \in Text
    <3>1. EncodedByte(b) = <<Slash>>
      BY <2>3, ByteFacts
    <3> QED
      BY <2>2, <3>1, EncodeFirst
  <2>5. \A z \in Text : ByteAt(Cat(<<Slash>>, z), 1, Slash) <=> ByteAt(z, 0, Slash)
    <3> SUFFICES ASSUME NEW z \in Text
                          PROVE ByteAt(Cat(<<Slash>>, z), 1, Slash) <=> ByteAt(z, 0, Slash)
      OBVIOUS
    <3> PICK s : s = <<Slash>>
      OBVIOUS
    <3>1. s \in Text /\ Len(s) = 1
      BY Delimiters, OneByte
    <3>2. 0 \in Nat /\ Len(s) + 0 = 1
      BY <3>1
    <3>3. ByteAt(Cat(s, z), Len(s) + 0, Slash) <=> ByteAt(z, 0, Slash)
      BY <3>1, ByteBehindAt
    <3> QED
      BY <3>2, <3>3
  <2>6. ByteAt(EncodedPath(x), 1, Slash) <=> ByteAt(t, 0, Slash)
    BY <2>4, <2>5, Zenon
  <2>7. ByteAt(x, 1, Slash) <=> ByteAt(y, 0, Slash)
    BY <2>2, <2>3, <2>5, Zenon
  <2>8. ByteAt(t, 0, Slash) <=> ByteAt(y, 0, Slash)
    BY EncodedHead
  <2>9. ByteAt(EncodedPath(x), 0, Slash)
    BY <1>1, EncodedHead
  <2> QED
    BY <1>1, <2>6, <2>7, <2>8, <2>9
<1>2. CASE ~ByteAt(x, 0, Slash)
  BY <1>2, EncodedHead
<1> QED
  BY <1>1, <1>2

-----------------------------------------------------------------------------
(* What is canonical stays so *)

\* To make a text canonical again changes nothing.
LEMMA CanonicalTwice ==
    ASSUME NEW p \in Parts, NEW s \in Text
    PROVE  Canonical(p, Canonical(p, s)) = Canonical(p, s)
<1> PICK n : n = Len(s)
  OBVIOUS
<1>1. n \in Nat /\ DOMAIN s = 1 .. n /\ \A i \in 1 .. n : s[i] \in Byte
  BY TextFacts
<1> PICK z : z = Canonical(p, s)
  OBVIOUS
<1>2. z \in Text /\ Len(z) = n
  BY CanonicalFacts
<1>3. DOMAIN z = 1 .. n
  BY <1>2, TextFacts
<1>4. CASE p = "scheme"
  <2>1. z = [i \in 1 .. n |-> toLower(s[i])]
    BY <1>1, <1>4 DEF Canonical
  <2>2. \A c \in Byte : toLower(toLower(c)) = toLower(c)
    BY DEF toLower, Upper, Byte
  <2>3. Canonical(p, z) = [i \in 1 .. n |-> toLower(z[i])]
    BY <1>3, <1>4 DEF Canonical
  <2>4. \A i \in 1 .. n : toLower(z[i]) = toLower(s[i])
    BY <1>1, <2>1, <2>2
  <2> QED
    BY <2>1, <2>3, <2>4
<1>5. CASE p = "path"
  BY <1>5 DEF Canonical
<1>6. CASE p \notin {"scheme", "path"}
  <2>1. z = [i \in 1 .. n |-> IF InEscape(s, i) THEN toUpper(s[i]) ELSE s[i]]
    BY <1>1, <1>6 DEF Canonical, normalizeEncodedCase
  <2>2. Canonical(p, z) = [i \in 1 .. n |-> IF InEscape(z, i) THEN toUpper(z[i]) ELSE z[i]]
    BY <1>3, <1>6 DEF Canonical, normalizeEncodedCase
  <2>3. \A c \in Byte : toUpper(toUpper(c)) = toUpper(c) /\ (toUpper(c) = Percent <=> c = Percent)
    BY DEF toUpper, Lower, Byte, Percent
  <2>4. \A i \in 1 .. n : z[i] = Percent <=> s[i] = Percent
    BY <1>1, <2>1, <2>3
  <2>5. Marks(z) = Marks(s)
    <3>1. \A i \in 1 .. n : IsEscape(z, i) <=> IsEscape(s, i)
      BY <1>2, <2>4 DEF IsEscape
    <3> QED
      BY <1>2, <3>1 DEF Marks
  <2>6. Escapes(z) = Escapes(s)
    <3>1. Skips(n, Marks(s), Escapes(s)) /\ Skips(n, Marks(s), Escapes(z))
      BY <1>2, <2>5, EscapesFacts
    <3> QED
      BY <1>1, <3>1, SkipsAgree
  <2>7. \A i \in 1 .. n : (IF InEscape(z, i) THEN toUpper(z[i]) ELSE z[i]) = z[i]
    <3> SUFFICES ASSUME NEW i \in 1 .. n, InEscape(z, i) PROVE toUpper(z[i]) = z[i]
      OBVIOUS
    <3>1. InEscape(s, i)
      BY <2>6 DEF InEscape
    <3> QED
      BY <1>1, <2>1, <2>3, <3>1
  <2>8. z = [i \in 1 .. n |-> z[i]]
    BY <2>1
  <2> QED
    BY <2>2, <2>7, <2>8
<1> QED
  BY <1>4, <1>5, <1>6

\* And what is allowed for a part is so when it is canonical.
LEMMA CanonicalAllowed ==
    ASSUME NEW p \in Parts, NEW s \in Text, Allowed(p, s)
    PROVE  Allowed(p, Canonical(p, s))
<1>1. Len(s) \in Nat /\ DOMAIN s = 1 .. Len(s) /\ \A i \in 1 .. Len(s) : s[i] \in Byte
  BY TextFacts
<1> PICK z : z = Canonical(p, s)
  OBVIOUS
<1>2. z \in Text /\ Len(z) = Len(s)
  BY CanonicalFacts
<1>3. CASE p \in Checking
  <2>1. \A i \in 1 .. Len(s) : s[i] \notin StopOf(p)
    BY <1>3, AllowedIs
  <2>2. \A i \in 1 .. Len(s) : z[i] \in {s[i], toLower(s[i]), toUpper(s[i])}
    BY <1>1 DEF Canonical, normalizeEncodedCase
  <2>3. \A c \in Byte : c \notin StopOf(p)
          => toLower(c) \notin StopOf(p) /\ toUpper(c) \notin StopOf(p)
    BY <1>3 DEF Checking, StopOf, toLower, toUpper, Lower, Upper, Byte, SchemeByte, Alnum, Digit,
                Slash, Question, Hash
  <2>4. \A i \in 1 .. Len(z) : z[i] \notin StopOf(p)
    BY <1>1, <1>2, <2>1, <2>2, <2>3
  <2> QED
    BY <1>2, <1>3, <2>4, AllowedIs
<1>4. CASE p \notin Checking
  BY <1>4 DEF Checking, Allowed
<1> QED
  BY <1>3, <1>4

-----------------------------------------------------------------------------
(* The parts are in their canonical form *)

\* Each part is as its setter leaves it.
Sound(f) == \A p \in DOMAIN f : Canonical(p, f[p]) = f[p] /\ Allowed(p, f[p])

\* The parts without some of them.
LEMMA FewerSound ==
    ASSUME NEW f, Sound(f), NEW S, NEW g, g = [q \in DOMAIN f \ S |-> f[q]]
    PROVE  Sound(g)
BY DEF Sound

\* A part that is set.
LEMMA SetSound ==
    ASSUME NEW f, Sound(f), NEW p \in Parts, NEW text \in Text, Allowed(p, text)
    PROVE  Sound(Set(f, p, text))
<1> PICK x : x = Canonical(p, text)
  OBVIOUS
<1> PICK g : g = Set(f, p, text)
  OBVIOUS
<1>1. Canonical(p, x) = x /\ Allowed(p, x)
  BY CanonicalTwice, CanonicalAllowed
<1>2. DOMAIN g = DOMAIN f \union {p} /\ \A q \in DOMAIN g : g[q] = IF q = p THEN x ELSE f[q]
  BY DEF Set
<1>3. ASSUME NEW q \in DOMAIN g
      PROVE  Canonical(q, g[q]) = g[q] /\ Allowed(q, g[q])
  <2>1. CASE q = p
    <3>1. g[q] = x
      BY <1>2, <2>1
    <3> QED
      BY <1>1, <2>1, <3>1, Zenon
  <2>2. CASE q # p
    <3>1. g[q] = f[q] /\ q \in DOMAIN f
      BY <1>2, <2>2
    <3>2. Canonical(q, f[q]) = f[q] /\ Allowed(q, f[q])
      BY <3>1 DEF Sound
    <3> QED
      BY <3>1, <3>2, Zenon
  <2> QED
    BY <2>1, <2>2
<1>4. Sound(g)
  BY <1>3, Zenon DEF Sound
<1> QED
  BY <1>4

\* Nothing is canonical.
LEMMA NothingSound == Sound(NoParts)
<1>1. ASSUME NEW p \in Parts
      PROVE  Canonical(p, <<>>) = <<>>
  <2>1. Canonical(p, <<>>) \in Text /\ Len(Canonical(p, <<>>)) = 0
    BY EmptyText, CanonicalFacts
  <2> QED
    BY <2>1, TextFacts
<1>2. Allowed("scheme", <<>>) /\ Allowed("path", <<>>)
  <2>1. Free(<<>>, Byte \ SchemeByte)
    BY NothingFacts
  <2>2. Allowed("path", <<>>)
    BY DEF Allowed
  <2> QED
    BY <2>1, <2>2, EmptyText, AllowedScheme
<1>3. DOMAIN NoParts = {"scheme", "path"} /\ \A p \in DOMAIN NoParts : NoParts[p] = <<>>
  BY DEF NoParts, Parts, Optional
<1>4. "scheme" \in Parts /\ "path" \in Parts
  BY DEF Parts
<1>5. ASSUME NEW p \in DOMAIN NoParts
      PROVE  Canonical(p, NoParts[p]) = NoParts[p] /\ Allowed(p, NoParts[p])
  <2>1. NoParts[p] = <<>> /\ (p = "scheme" \/ p = "path")
    BY <1>3
  <2> QED
    BY <1>1, <1>2, <1>4, <2>1, Zenon
<1> QED
  BY <1>5, Zenon DEF Sound

\* What parse() finds between the delimiters is allowed there.
LEMMA MeaningSound ==
    ASSUME NEW f, WellFormed(f)
    PROVE  Sound(Meaning(f))
<1> PICK g : g = Meaning(f)
  OBVIOUS
<1>1. DOMAIN g = DOMAIN f /\ \A p \in DOMAIN f : g[p] = Meant(f, p)
  BY DEF Meaning
<1>2. ASSUME NEW p \in DOMAIN f
      PROVE  Canonical(p, Meant(f, p)) = Meant(f, p) /\ Allowed(p, Meant(f, p))
  <2>1. p \in Parts /\ f[p] \in Text
    BY DEF WellFormed
  <2>2. CASE p = "path"
    BY <2>2 DEF Canonical, Allowed
  <2>3. CASE p # "path"
    <3>1. Meant(f, p) = Canonical(p, f[p])
      BY <2>3 DEF Meant
    <3>2. Allowed(p, f[p])
      <4>1. CASE p = "scheme"
        <5>1. Free(f["scheme"], Byte \ SchemeByte) /\ f["scheme"] \in Text
          BY <2>1, <4>1 DEF WellFormed
        <5> QED
          BY <4>1, <5>1, AllowedScheme, Zenon
      <4>2. CASE p = "fragment"
        BY <4>2 DEF Allowed
      <4>3. CASE p \in {"authority", "query"}
        <5>1. p \in Checking
          BY <4>3 DEF Checking
        <5>2. Free(f[p], StopOf(p))
          BY <4>3 DEF WellFormed, StopOf
        <5> QED
          BY <2>1, <5>1, <5>2, AllowedIs DEF Free
      <4> QED
        BY <2>1, <2>3, <4>1, <4>2, <4>3 DEF Parts
    <3>3. Canonical(p, Canonical(p, f[p])) = Canonical(p, f[p]) /\ Allowed(p, Canonical(p, f[p]))
      BY <2>1, <3>2, CanonicalTwice, CanonicalAllowed
    <3> QED
      BY <3>1, <3>3, Zenon
  <2> QED
    BY <2>2, <2>3
<1>3. Sound(g)
  BY <1>1, <1>2 DEF Sound
<1> QED
  BY <1>3

\* The parts are as their setters leave them, unless one of them is too long.
IsSound == ~tooLong => Sound(parts)

\* The parts stay canonical.
LEMMA SoundStep ==
    ASSUME IsSound, [Next]_vars
    PROVE  IsSound'
<1>1. ASSUME NEW p \in Parts, NEW text \in Setter[p], set(p, text) PROVE IsSound'
  <2>1. text \in Text
    BY GivenTexts
  <2>2. /\ parts' = IF Allowed(p, text) /\ Fits(p, text) THEN Set(parts, p, text) ELSE parts
        /\ tooLong' = (tooLong \/ (Len(text) >= Width /\ Accepts(p, text)))
    BY <1>1 DEF set
  <2>3. ASSUME ~tooLong' PROVE Sound(parts')
    <3>1. Sound(parts)
      BY <2>2, <2>3 DEF IsSound
    <3>2. CASE Allowed(p, text) /\ Fits(p, text)
      <4>1. Sound(Set(parts, p, text))
        BY <2>1, <3>1, <3>2, SetSound
      <4> QED
        BY <2>2, <3>2, <4>1
    <3>3. CASE ~(Allowed(p, text) /\ Fits(p, text))
      BY <2>2, <3>1, <3>3
    <3> QED
      BY <3>2, <3>3
  <2> QED
    BY <2>3 DEF IsSound
<1>2. ASSUME NEW p \in Optional, remove(p) PROVE IsSound'
  <2>1. parts' = [q \in DOMAIN parts \ {p} |-> parts[q]] /\ tooLong' = tooLong
    BY <1>2 DEF remove
  <2> QED
    BY <2>1, FewerSound DEF IsSound
<1>3. ASSUME NEW text \in Texts, Parse(text) PROVE IsSound'
  <2>1. text \in Text /\ parts' = Denoted(text)
    BY <1>3, GivenTexts DEF Parse
  <2>2. CASE ~IsUri(text)
    <3>1. Denoted(text) = NoParts
      BY <2>2, Zenon DEF Denoted
    <3> QED
      BY <2>1, <3>1, NothingSound DEF IsSound
  <2>3. CASE IsUri(text)
    <3>1. HasScheme(text)
      BY <2>3, Zenon DEF IsUri, HasScheme, Stem
    <3>2. WellFormed(RawParts(text))
      BY <2>1, <3>1, RawFacts
    <3>3. Denoted(text) = Meaning(RawParts(text))
      BY <2>3, Zenon DEF Denoted, Meaning, Meant
    <3>4. Sound(Denoted(text))
      BY <3>2, <3>3, MeaningSound
    <3> QED
      BY <2>1, <3>4 DEF IsSound
  <2> QED
    BY <2>2, <2>3
<1>4. ASSUME NEW path \in Paths, fileUriFromPath(path) PROVE IsSound'
  <2> DEFINE f == Set(NoParts, "scheme", File)
             g == Set(f, "authority", <<>>)
             h == Set(g, "path", path)
  <2>1. path \in Text /\ "scheme" \in Parts /\ "authority" \in Parts /\ "path" \in Parts
    BY GivenTexts DEF Parts
  <2>2. parts' = h
    BY <1>4, Zenon DEF fileUriFromPath
  <2>3. Allowed("scheme", File) /\ Allowed("authority", <<>>) /\ Allowed("path", path)
    <3>1. Range(File) \subseteq SchemeByte
      BY DEF Range, File, SchemeByte, Alnum, Lower
    <3>2. Range(<<>>) = {}
      BY DEF Range
    <3> QED
      BY <3>1, <3>2 DEF Allowed
  <2>4. Sound(f)
    BY <2>1, <2>3, NothingSound, FileFacts, SetSound
  <2> HIDE DEF f
  <2>5. Sound(g)
    BY <2>1, <2>3, <2>4, EmptyText, SetSound
  <2> HIDE DEF g
  <2>6. Sound(h)
    BY <2>1, <2>3, <2>5, SetSound
  <2> QED
    BY <2>2, <2>6 DEF IsSound
<1>5. CASE UNCHANGED vars
  BY <1>5 DEF vars, IsSound
<1> QED
  BY <1>1, <1>2, <1>3, <1>4, <1>5 DEF Next

-----------------------------------------------------------------------------
(* The text of an object *)

\* The parts that toString() writes: the path is encoded.
Sent(f) == [p \in DOMAIN f |-> IF p = "path" THEN EncodedPath(f[p]) ELSE f[p]]

\* Objects that have a text, and canonical parts.
Writable(f) == Holdable(f) /\ Sound(f) /\ f["scheme"] # <<>>

\* The parts that are written.
LEMMA SentFacts ==
    ASSUME NEW f, Writable(f)
    PROVE  /\ DOMAIN Sent(f) = DOMAIN f
           /\ Sent(f)["path"] = EncodedPath(f["path"]) /\ EncodedPath(f["path"]) \in Text
           /\ \A p \in DOMAIN f \ {"path"} : Sent(f)[p] = f[p]
           /\ \A p \in DOMAIN f : f[p] \in Text /\ Len(f[p]) < Width /\ Sent(f)[p] \in Text
           /\ Free(Sent(f)["path"], {Question, Hash})
           /\ Sent(f)["scheme"] # <<>> /\ Free(Sent(f)["scheme"], Byte \ SchemeByte)
           /\ "query" \in DOMAIN f => Free(Sent(f)["query"], {Hash})
           /\ "authority" \in DOMAIN f => Free(Sent(f)["authority"], {Slash, Question, Hash})
<1> PICK g : g = Sent(f)
  OBVIOUS
<1>1. /\ {"scheme", "path"} \subseteq DOMAIN f /\ DOMAIN f \subseteq Parts
      /\ \A p \in DOMAIN f : f[p] \in Text /\ Len(f[p]) < Width
      /\ \A p \in DOMAIN f : Allowed(p, f[p])
      /\ f["scheme"] # <<>>
  BY DEF Writable, Holdable, Sound
<1>2. EncodedPath(f["path"]) \in Text /\ Free(EncodedPath(f["path"]), {Question, Hash})
  BY <1>1, EncodeFacts DEF Undone
<1>3. /\ DOMAIN g = DOMAIN f /\ g["path"] = EncodedPath(f["path"])
      /\ \A p \in DOMAIN f \ {"path"} : g[p] = f[p]
  BY <1>1 DEF Sent
<1>4. \A p \in DOMAIN f : g[p] \in Text
  BY <1>1, <1>2, <1>3
<1>5. Free(f["scheme"], Byte \ SchemeByte)
  BY <1>1, AllowedScheme
<1>6. \A p \in DOMAIN f \intersect Checking : Free(f[p], StopOf(p))
  BY <1>1, AllowedIs DEF Free
<1>7. /\ "query" \in DOMAIN f => Free(f["query"], {Hash})
      /\ "authority" \in DOMAIN f => Free(f["authority"], {Slash, Question, Hash})
  BY <1>6 DEF Checking, StopOf
<1>8. g["scheme"] = f["scheme"]
  BY <1>1, <1>3
<1> QED
  BY <1>1, <1>2, <1>3, <1>4, <1>5, <1>7, <1>8, Zenon

\* toString() puts six texts together: brackets do not matter.
AnyBrackets(s, c, a, p, q, f) ==
    Cat(Cat(Cat(Cat(Cat(s, c), a), p), q), f) = Cat(s, Cat(c, Cat(a, Cat(p, Cat(q, f)))))

\* Six texts.
LEMMA SixTexts ==
    ASSUME NEW s \in Text, NEW c \in Text, NEW a \in Text, NEW p \in Text, NEW q \in Text,
           NEW f \in Text
    PROVE  AnyBrackets(s, c, a, p, q, f)
<1> PICK x : x = Cat(s, c)
  OBVIOUS
<1> PICK y : y = Cat(x, a)
  OBVIOUS
<1> PICK z : z = Cat(y, p)
  OBVIOUS
<1>1. x \in Text
  BY ConcatFacts
<1>2. y \in Text
  BY <1>1, ConcatFacts
<1>3. z \in Text /\ Cat(q, f) \in Text
  BY <1>2, ConcatFacts
<1>4. Cat(p, Cat(q, f)) \in Text
  BY <1>3, ConcatFacts
<1>5. Cat(a, Cat(p, Cat(q, f))) \in Text
  BY <1>4, ConcatFacts
<1>6. Cat(Cat(z, q), f) = Cat(z, Cat(q, f))
  BY <1>3, ThreeTexts
<1>7. Cat(z, Cat(q, f)) = Cat(y, Cat(p, Cat(q, f)))
  BY <1>2, <1>3, ThreeTexts
<1>8. Cat(y, Cat(p, Cat(q, f))) = Cat(x, Cat(a, Cat(p, Cat(q, f))))
  BY <1>1, <1>4, ThreeTexts
<1>9. Cat(x, Cat(a, Cat(p, Cat(q, f)))) = Cat(s, Cat(c, Cat(a, Cat(p, Cat(q, f)))))
  BY <1>5, ThreeTexts
<1> QED
  BY <1>6, <1>7, <1>8, <1>9, Zenon DEF AnyBrackets

\* A part with the delimiter before it.
Marked(f, p, delimiter) == IF p \in DOMAIN f THEN Cat(delimiter, f[p]) ELSE <<>>

\* toString() is put together from the parts.
LEMMA TextOfObject ==
    ASSUME NEW f, Writable(f)
    PROVE  toString(Built(f)) =
                Cat(Cat(Cat(Cat(Cat(f["scheme"], <<Colon>>), Marked(f, "authority", <<Slash, Slash>>)),
                            EncodedPath(f["path"])),
                        Marked(f, "query", <<Question>>)), Marked(f, "fragment", <<Hash>>))
<1> PICK u : u = Built(f)
  OBVIOUS
<1>1. Holdable(f) /\ {"scheme", "path"} \subseteq DOMAIN f /\ f["scheme"] # <<>>
        /\ f["scheme"] \in Text
  BY DEF Writable, Holdable
<1>2. \A p \in Parts : Get(u, p) = TextOf(f, p)
  BY <1>1, GetIsText
<1>3. \A p \in DOMAIN f : TextOf(f, p) = f[p]
  BY DEF TextOf
<1>4. \A p \in Optional : p \in u.has <=> p \in DOMAIN f
  BY DEF Built
<1>5. isValid(u)
  <2>1. u.len["scheme"] = Len(f["scheme"])
    BY <1>1, <1>3 DEF Built, Parts
  <2>2. Len(f["scheme"]) \in Nat /\ Len(f["scheme"]) # 0
    BY <1>1, TextFacts
  <2> QED
    BY <2>1, <2>2 DEF isValid
<1> DEFINE D(p, delimiter) == IF p \in u.has THEN delimiter \o Get(u, p) ELSE <<>>
<1>6. \A p \in Optional : \A d : D(p, d) = Marked(f, p, d)
  <2> SUFFICES ASSUME NEW p \in Optional, NEW d PROVE D(p, d) = Marked(f, p, d)
    OBVIOUS
  <2>1. CASE p \in DOMAIN f
    <3>1. Get(u, p) = f[p] /\ p \in u.has
      BY <1>2, <1>3, <1>4, <2>1 DEF Optional, Parts
    <3> QED
      BY <2>1, <3>1, Zenon DEF Marked, Cat
  <2>2. CASE p \notin DOMAIN f
    <3>1. p \notin u.has
      BY <1>4, <2>2
    <3> QED
      BY <2>2, <3>1, Zenon DEF Marked
  <2> QED
    BY <2>1, <2>2
<1>7. toString(u) = Get(u, "scheme") \o <<Colon>> \o D("authority", <<Slash, Slash>>)
                        \o encode(Get(u, "path"), {Slash})
                        \o D("query", <<Question>>) \o D("fragment", <<Hash>>)
  BY <1>5, Zenon DEF toString
<1>8. toString(u)
        = Cat(Cat(Cat(Cat(Cat(Get(u, "scheme"), <<Colon>>), D("authority", <<Slash, Slash>>)),
                                encode(Get(u, "path"), {Slash})),
                            D("query", <<Question>>)), D("fragment", <<Hash>>))
  <2> HIDE DEF D
  <2> QED
    BY <1>7, Zenon DEF Cat
<1> HIDE DEF D
<1>9. Get(u, "scheme") = f["scheme"] /\ Get(u, "path") = f["path"]
  <2>1. "scheme" \in Parts /\ "path" \in Parts
    BY DEF Parts
  <2> QED
    BY <1>1, <1>2, <1>3, <2>1
<1>10. encode(Get(u, "path"), {Slash}) = EncodedPath(f["path"])
  BY <1>9, Zenon DEF EncodedPath
<1>11. "authority" \in Optional /\ "query" \in Optional /\ "fragment" \in Optional
  BY DEF Optional
<1> QED
  BY <1>6, <1>8, <1>9, <1>10, <1>11, Zenon

\* It is the text of the parts that are written.
LEMMA WrittenObject ==
    ASSUME NEW f, Writable(f)
    PROVE  toString(Built(f)) = Written(Sent(f))
<1> PICK g : g = Sent(f)
  OBVIOUS
<1> PICK s : s = f["scheme"]
  OBVIOUS
<1> PICK c : c = <<Colon>>
  OBVIOUS
<1> PICK a : a = Marked(f, "authority", <<Slash, Slash>>)
  OBVIOUS
<1> PICK p : p = EncodedPath(f["path"])
  OBVIOUS
<1> PICK q : q = Marked(f, "query", <<Question>>)
  OBVIOUS
<1> PICK r : r = Marked(f, "fragment", <<Hash>>)
  OBVIOUS
<1>1. /\ DOMAIN g = DOMAIN f /\ {"scheme", "path"} \subseteq DOMAIN f
      /\ g["path"] = p /\ p \in Text /\ g["scheme"] = s /\ s \in Text
      /\ \A o \in DOMAIN f \ {"path"} : g[o] = f[o] /\ f[o] \in Text
  BY SentFacts DEF Writable, Holdable
<1>2. c \in Text /\ <<Question>> \in Text /\ <<Hash>> \in Text /\ <<Slash>> \in Text
  BY Delimiters, OneByte, EmptyText
<1>3. r = FragmentText(g) /\ r \in Text
  <2>1. CASE "fragment" \in DOMAIN f
    <3>1. f["fragment"] \in Text /\ g["fragment"] = f["fragment"]
      BY <1>1, <2>1
    <3>2. r = Cat(<<Hash>>, f["fragment"])
      BY <2>1, Zenon DEF Marked
    <3>3. FragmentText(g) = Cat(<<Hash>>, g["fragment"])
      BY <1>1, <2>1, Zenon DEF FragmentText
    <3>4. Cat(<<Hash>>, f["fragment"]) \in Text
      BY <1>2, <3>1, ConcatFacts
    <3> QED
      BY <3>1, <3>2, <3>3, <3>4, Zenon
  <2>2. CASE "fragment" \notin DOMAIN f
    <3>1. r = <<>> /\ FragmentText(g) = <<>>
      BY <1>1, <2>2 DEF Marked, FragmentText
    <3> QED
      BY <3>1, EmptyText
  <2> QED
    BY <2>1, <2>2
<1>4. Cat(q, r) = QueryText(g) /\ q \in Text
  <2>1. CASE "query" \in DOMAIN f
    <3>1. f["query"] \in Text /\ g["query"] = f["query"]
      BY <1>1, <2>1
    <3>2. q = Cat(<<Question>>, f["query"])
      BY <2>1, Zenon DEF Marked
    <3>3. QueryText(g) = Cat(<<Question>>, Cat(g["query"], r))
      BY <1>1, <1>3, <2>1, Zenon DEF QueryText
    <3>4. Cat(<<Question>>, f["query"]) \in Text
      BY <1>2, <3>1, ConcatFacts
    <3>5. Cat(Cat(<<Question>>, f["query"]), r) = Cat(<<Question>>, Cat(f["query"], r))
      BY <1>2, <1>3, <3>1, ThreeTexts
    <3> QED
      BY <3>1, <3>2, <3>3, <3>4, <3>5, Zenon
  <2>2. CASE "query" \notin DOMAIN f
    <3>1. q = <<>>
      BY <2>2 DEF Marked
    <3>2. QueryText(g) = r
      BY <1>1, <1>3, <2>2, Zenon DEF QueryText
    <3>3. Cat(<<>>, r) = r
      BY <1>3, EmptyText
    <3> QED
      BY <3>1, <3>2, <3>3, EmptyText, Zenon
  <2> QED
    BY <2>1, <2>2
<1>5. Cat(p, Cat(q, r)) = PathText(g) /\ PathText(g) \in Text
  <2>1. PathText(g) = Cat(g["path"], QueryText(g))
    BY Zenon DEF PathText
  <2>2. Cat(q, r) \in Text
    BY <1>3, <1>4, ConcatFacts
  <2>3. Cat(p, Cat(q, r)) \in Text
    BY <1>1, <2>2, ConcatFacts
  <2> QED
    BY <1>1, <1>4, <2>1, <2>3, Zenon
<1>6. Cat(a, PathText(g)) = AuthorityText(g) /\ a \in Text
  <2>1. CASE "authority" \in DOMAIN f
    <3>1. f["authority"] \in Text /\ g["authority"] = f["authority"]
      BY <1>1, <2>1
    <3>2. a = Cat(<<Slash, Slash>>, f["authority"])
      BY <2>1, Zenon DEF Marked
    <3>3. <<Slash, Slash>> = Cat(<<Slash>>, <<Slash>>)
      <4> PICK d : d = Slash
        OBVIOUS
      <4>1. <<d, d>> = <<d>> \o <<d>>
        OBVIOUS
      <4> QED
        BY <4>1 DEF Cat
    <3>4. Cat(Cat(<<Slash>>, <<Slash>>), f["authority"]) = Slashes(f["authority"])
      BY <1>2, <3>1, ThreeTexts DEF Slashes
    <3>5. a = Slashes(f["authority"])
      BY <3>2, <3>3, <3>4, Zenon
    <3>6. Slashes(f["authority"]) \in Text
      BY <3>1, SlashesFacts
    <3>7. Slashes(Cat(f["authority"], PathText(g))) = Cat(Slashes(f["authority"]), PathText(g))
      BY <1>5, <3>1, SlashesBefore
    <3>8. AuthorityText(g) = Slashes(Cat(g["authority"], PathText(g)))
      BY <1>1, <2>1, Zenon DEF AuthorityText
    <3> QED
      BY <3>1, <3>5, <3>6, <3>7, <3>8, Zenon
  <2>2. CASE "authority" \notin DOMAIN f
    <3>1. a = <<>>
      BY <2>2 DEF Marked
    <3>2. AuthorityText(g) = PathText(g)
      BY <1>1, <2>2, Zenon DEF AuthorityText
    <3>3. Cat(<<>>, PathText(g)) = PathText(g)
      BY <1>5, EmptyText
    <3> QED
      BY <3>1, <3>2, <3>3, EmptyText, Zenon
  <2> QED
    BY <2>1, <2>2
<1>7. toString(Built(f)) = Cat(Cat(Cat(Cat(Cat(s, c), a), p), q), r)
  <2>1. toString(Built(f)) =
                Cat(Cat(Cat(Cat(Cat(f["scheme"], <<Colon>>), Marked(f, "authority", <<Slash, Slash>>)),
                            EncodedPath(f["path"])),
                        Marked(f, "query", <<Question>>)), Marked(f, "fragment", <<Hash>>))
    BY TextOfObject, Zenon
  <2> QED
    BY <2>1, Zenon
<1>8. Cat(Cat(Cat(Cat(Cat(s, c), a), p), q), r) = Cat(s, Cat(c, Cat(a, Cat(p, Cat(q, r)))))
  <2>1. s \in Text /\ c \in Text /\ a \in Text /\ p \in Text /\ q \in Text /\ r \in Text
    BY <1>1, <1>2, <1>3, <1>4, <1>6
  <2>2. AnyBrackets(s, c, a, p, q, r)
    BY <2>1, SixTexts
  <2> QED
    BY <2>2, Zenon DEF AnyBrackets
<1>9. Written(g) = Cat(s, Cat(c, AuthorityText(g)))
  BY <1>1, Zenon DEF Written
<1> QED
  BY <1>5, <1>6, <1>7, <1>8, <1>9, Zenon

\* The path does not run into the authority, or become one.
Apart(f) ==
    IF "authority" \in DOMAIN f THEN f["path"] = <<>> \/ ByteAt(f["path"], 0, Slash)
    ELSE ~(ByteAt(f["path"], 0, Slash) /\ ByteAt(f["path"], 1, Slash))

\* What is behind the path.
LEMMA QueryOpens ==
    ASSUME NEW f, \A p \in DOMAIN f : f[p] \in Text
    PROVE  QueryText(f) \in Text /\ Opens(QueryText(f), {Question, Hash})
<1>1. FragmentText(f) \in Text /\ Opens(FragmentText(f), {Question, Hash})
  <2>1. CASE "fragment" \in DOMAIN f
    <3> PICK t : t = f["fragment"]
      OBVIOUS
    <3>1. t \in Text /\ Hash \in Byte
      BY <2>1, Delimiters
    <3>2. Cat(<<Hash>>, t) \in Text /\ Cat(<<Hash>>, t)[1] = Hash
      BY <3>1, OneByte
    <3>3. FragmentText(f) = Cat(<<Hash>>, t)
      BY <2>1, Zenon DEF FragmentText
    <3> QED
      BY <3>2, <3>3 DEF Opens
  <2>2. CASE "fragment" \notin DOMAIN f
    <3>1. FragmentText(f) = <<>>
      BY <2>2 DEF FragmentText
    <3> QED
      BY <3>1, EmptyText DEF Opens
  <2> QED
    BY <2>1, <2>2
<1>2. CASE "query" \in DOMAIN f
  <2> PICK t : t = Cat(f["query"], FragmentText(f))
    OBVIOUS
  <2>1. t \in Text /\ Question \in Byte
    BY <1>1, <1>2, ConcatFacts, Delimiters
  <2>2. Cat(<<Question>>, t) \in Text /\ Cat(<<Question>>, t)[1] = Question
    BY <2>1, OneByte
  <2>3. QueryText(f) = Cat(<<Question>>, t)
    BY <1>2, Zenon DEF QueryText
  <2> QED
    BY <2>2, <2>3 DEF Opens
<1>3. CASE "query" \notin DOMAIN f
  <2>1. QueryText(f) = FragmentText(f)
    BY <1>3, Zenon DEF QueryText
  <2> QED
    BY <1>1, <2>1
<1> QED
  BY <1>2, <1>3

\* The parts that are written can be told apart in their text.
LEMMA SentWellFormed ==
    ASSUME NEW f, Writable(f), Apart(f)
    PROVE  WellFormed(Sent(f))
<1> PICK g : g = Sent(f)
  OBVIOUS
<1> PICK x : x = f["path"]
  OBVIOUS
<1> PICK e : e = EncodedPath(x)
  OBVIOUS
<1>1. {"scheme", "path"} \subseteq DOMAIN f /\ DOMAIN f \subseteq Parts
  BY DEF Writable, Holdable
<1>2. /\ DOMAIN g = DOMAIN f /\ g["path"] = e /\ e \in Text /\ x \in Text
      /\ \A p \in DOMAIN f : g[p] \in Text
      /\ Free(g["path"], {Question, Hash})
      /\ g["scheme"] # <<>> /\ Free(g["scheme"], Byte \ SchemeByte)
      /\ "query" \in DOMAIN f => Free(g["query"], {Hash})
      /\ "authority" \in DOMAIN f => Free(g["authority"], {Slash, Question, Hash})
  BY <1>1, SentFacts
<1>3. ASSUME "authority" \in DOMAIN g PROVE Opens(g["path"], {Slash})
  <2>1. x = <<>> \/ ByteAt(x, 0, Slash)
    BY <1>2, <1>3 DEF Apart
  <2>2. e = <<>> \/ ByteAt(e, 0, Slash)
    BY <1>2, <2>1, EncodedHead
  <2>3. e = <<>> \/ e[1] = Slash
    BY <1>2, <2>2, FirstByte
  <2> QED
    BY <1>2, <2>3 DEF Opens
<1>4. ASSUME "authority" \notin DOMAIN g
      PROVE  ~(ByteAt(PathText(g), 0, Slash) /\ ByteAt(PathText(g), 1, Slash))
  <2>1. ~(ByteAt(x, 0, Slash) /\ ByteAt(x, 1, Slash))
    BY <1>2, <1>4 DEF Apart
  <2>2. ~(ByteAt(e, 0, Slash) /\ ByteAt(e, 1, Slash))
    BY <1>2, <2>1, EncodedSlashes
  <2>3. QueryText(g) \in Text /\ Opens(QueryText(g), {Question, Hash})
    BY <1>2, QueryOpens
  <2>4. ~(ByteAt(Cat(e, QueryText(g)), 0, Slash) /\ ByteAt(Cat(e, QueryText(g)), 1, Slash))
    BY <1>2, <2>2, <2>3, TwoBytesOfCat
  <2>5. PathText(g) = Cat(e, QueryText(g))
    BY <1>2, Zenon DEF PathText
  <2> QED
    BY <2>4, <2>5, Zenon
<1>5. WellFormed(g)
  BY <1>1, <1>2, <1>3, <1>4 DEF WellFormed
<1> QED
  BY <1>5

\* Which objects are read back, in terms of their parts.
LEMMA ReadableIs ==
    ASSUME NEW f, Writable(f)
    PROVE  Readable(Built(f)) <=>
                Len(EncodedPath(f["path"])) < Width /\ Apart(f) /\ ~Misplaced(Sent(f))
<1> PICK u : u = Built(f)
  OBVIOUS
<1> PICK x : x = f["path"]
  OBVIOUS
<1>1. {"scheme", "path"} \subseteq DOMAIN f /\ Holdable(f) /\ x \in Text /\ "path" \in Parts
  BY DEF Writable, Holdable, Parts
<1>2. Get(u, "path") = x
  <2>1. Get(u, "path") = TextOf(f, "path")
    BY <1>1, GetIsText
  <2> QED
    BY <1>1, <2>1 DEF TextOf
<1>3. u.has = DOMAIN f \intersect Optional
  BY DEF Built
<1>4. Readable(u) <=>
        /\ Len(EncodedPath(x)) < Width
        /\ IF "authority" \in u.has
           THEN \/ ByteAt(x, 0, Slash)
                \/ x = <<>> /\ u.has = {"authority"}
           ELSE ~IsPrefix(<<Slash, Slash>>, x)
  BY <1>2 DEF Readable, EncodedPath
<1>5. "authority" \in u.has <=> "authority" \in DOMAIN f
  BY <1>3 DEF Optional
<1>6. "authority" \in DOMAIN f
        => (u.has = {"authority"} <=> DOMAIN f \intersect {"query", "fragment"} = {})
  BY <1>3 DEF Optional
<1>7. IsPrefix(<<Slash, Slash>>, x) <=> ByteAt(x, 0, Slash) /\ ByteAt(x, 1, Slash)
  BY <1>1, TwoSlashes
<1>8. Misplaced(Sent(f)) <=>
        /\ "authority" \in DOMAIN f /\ x = <<>>
        /\ DOMAIN f \intersect {"query", "fragment"} # {}
  <2>1. Sent(f)["path"] = EncodedPath(x) /\ DOMAIN Sent(f) = DOMAIN f
    BY SentFacts
  <2>2. EncodedPath(x) = <<>> <=> x = <<>>
    BY <1>1, EncodedHead
  <2> QED
    BY <2>1, <2>2 DEF Misplaced
<1>9. ByteAt(x, 0, Slash) => x # <<>>
  BY <1>1, FirstByte
<1>10. Apart(f) <=> IF "authority" \in DOMAIN f THEN x = <<>> \/ ByteAt(x, 0, Slash)
                    ELSE ~(ByteAt(x, 0, Slash) /\ ByteAt(x, 1, Slash))
  BY DEF Apart
<1> QED
  BY <1>4, <1>5, <1>6, <1>7, <1>8, <1>9, <1>10

\* Objects with the same parts are the same.
LEMMA SameBuilt ==
    ASSUME NEW f, NEW g, DOMAIN f = DOMAIN g, \A p \in DOMAIN f : f[p] = g[p]
    PROVE  Built(f) = Built(g)
<1>1. \A p : TextOf(f, p) = TextOf(g, p)
  BY DEF TextOf
<1>2. Joined(f) = Joined(g)
  BY <1>1 DEF Joined
<1>3. [p \in Parts |-> Len(TextOf(f, p))] = [p \in Parts |-> Len(TextOf(g, p))]
  BY <1>1
<1> QED
  BY <1>2, <1>3 DEF Built

\* Those are.
LEMMA ReadableIsRead ==
    ASSUME NEW f, Writable(f), Readable(Built(f))
    PROVE  parse(toString(Built(f))) = Built(f)
<1> PICK g : g = Sent(f)
  OBVIOUS
<1>1. Len(EncodedPath(f["path"])) < Width /\ Apart(f) /\ ~Misplaced(g)
  BY ReadableIs
<1>2. WellFormed(g) /\ toString(Built(f)) = Written(g)
  BY <1>1, SentWellFormed, WrittenObject
<1>3. /\ DOMAIN g = DOMAIN f /\ g["path"] = EncodedPath(f["path"])
      /\ \A p \in DOMAIN f \ {"path"} : g[p] = f[p]
      /\ \A p \in DOMAIN f : f[p] \in Text /\ Len(f[p]) < Width
  BY SentFacts
<1>4. Short(g)
  BY <1>1, <1>3 DEF Short
<1>5. parse(Written(g)) = Built(Meaning(g))
  BY <1>1, <1>2, <1>4, ParseWritten
<1>6. ASSUME NEW p \in DOMAIN f PROVE Meaning(g)[p] = f[p]
  <2>1. Meaning(g)[p] = Meant(g, p)
    BY <1>3 DEF Meaning
  <2>2. CASE p = "path"
    <3>1. Meant(g, p) = decode(EncodedPath(f["path"]))
      BY <1>3, <2>2 DEF Meant
    <3>2. f["path"] \in Text
      BY <1>3, <2>2
    <3>3. decode(EncodedPath(f["path"])) = f["path"]
      BY <3>2, EncodeFacts DEF Undone
    <3> QED
      BY <2>1, <2>2, <3>1, <3>3, Zenon
  <2>3. CASE p # "path"
    <3>1. Meant(g, p) = Canonical(p, f[p])
      BY <1>3, <2>3 DEF Meant
    <3>2. Canonical(p, f[p]) = f[p]
      BY DEF Writable, Sound
    <3> QED
      BY <2>1, <3>1, <3>2, Zenon
  <2> QED
    BY <2>2, <2>3
<1>7. DOMAIN Meaning(g) = DOMAIN f
  BY <1>3 DEF Meaning
<1>8. Built(Meaning(g)) = Built(f)
  BY <1>6, <1>7, SameBuilt
<1> QED
  BY <1>2, <1>5, <1>8, Zenon

-----------------------------------------------------------------------------
(* What the steps of parse() leave alone *)

\* v has the length of p that u has, and not fewer parts.
Keeps(u, v, p) == DOMAIN v.len = DOMAIN u.len /\ u.has \subseteq v.has /\ v.len[p] = u.len[p]

\* The setter of another part.
LEMMA InsertKeeps ==
    ASSUME NEW u, NEW p, NEW text, NEW q \in DOMAIN u.len, q # p
    PROVE  Keeps(u, Insert(u, p, text), q)
<1> DEFINE v == Insert(u, p, text)
           n == Len(text) % Width
<1>1. v.len = [u.len EXCEPT ![p] = n] /\ u.has \subseteq v.has
  BY DEF Insert
<1> HIDE DEF v, n
<1>2. DOMAIN v.len = DOMAIN u.len /\ v.len[q] = u.len[q]
  BY <1>1
<1>3. Keeps(u, v, q)
  BY <1>1, <1>2 DEF Keeps
<1> QED
  BY <1>3 DEF v

\* And what it sets.
LEMMA InsertLength ==
    ASSUME NEW u, NEW p \in DOMAIN u.len, NEW text
    PROVE  Insert(u, p, text).len[p] = Len(text) % Width
             /\ DOMAIN Insert(u, p, text).len = DOMAIN u.len
<1> DEFINE v == Insert(u, p, text)
           n == Len(text) % Width
<1>1. v.len = [u.len EXCEPT ![p] = n]
  BY DEF Insert
<1> HIDE DEF v, n
<1>2. v.len[p] = n /\ DOMAIN v.len = DOMAIN u.len
  BY <1>1
<1> QED
  BY <1>2 DEF v, n

\* The step of the fragment.
LEMMA FragmentKeeps ==
    ASSUME NEW u, NEW s, NEW k, NEW q \in DOMAIN u.len, q # "fragment"
    PROVE  Keeps(u, ParsedFragment(u, s, k), q)
<1>1. ParsedFragment(u, s, k) = Insert(u, "fragment", From(s, k + 1)) \/ ParsedFragment(u, s, k) = u
  BY Zenon DEF ParsedFragment
<1>2. Keeps(u, Insert(u, "fragment", From(s, k + 1)), q)
  BY InsertKeeps
<1>3. Keeps(u, u, q)
  BY DEF Keeps
<1> QED
  BY <1>1, <1>2, <1>3, Zenon

\* The steps of the query and the fragment.
LEMMA QueryKeeps ==
    ASSUME NEW u, NEW s, NEW k, NEW q \in DOMAIN u.len, q # "fragment", q # "query"
    PROVE  Keeps(u, ParsedQuery(u, s, k), q)
<1> DEFINE n == parseUriQuery(From(s, k + 1))
           v == Insert(u, "query", SubSeq(s, k + 2, k + 1 + n))
<1>1. ParsedQuery(u, s, k) = ParsedFragment(v, s, k + 1 + n)
        \/ ParsedQuery(u, s, k) = ParsedFragment(u, s, k)
  BY Zenon DEF ParsedQuery
<1>2. Keeps(u, v, q)
  BY InsertKeeps
<1> HIDE DEF v, n
<1>3. q \in DOMAIN v.len
  BY <1>2 DEF Keeps
<1>4. Keeps(v, ParsedFragment(v, s, k + 1 + n), q) /\ Keeps(u, ParsedFragment(u, s, k), q)
  BY <1>3, FragmentKeeps
<1>5. Keeps(u, ParsedFragment(v, s, k + 1 + n), q)
  BY <1>2, <1>4 DEF Keeps
<1> QED
  BY <1>1, <1>4, <1>5, Zenon

\* The steps of the path, the query and the fragment, unless they refuse the text.
LEMMA PathKeeps ==
    ASSUME NEW u, NEW s, NEW k, "authority" \in DOMAIN u.len
    PROVE  ParsedPath(u, s, k) = NewUri \/ Keeps(u, ParsedPath(u, s, k), "authority")
<1> DEFINE n == parseUriPath(From(s, k))
           v == Insert(u, "path", decode(SubSeq(s, k + 1, k + n)))
<1>1. \/ ParsedPath(u, s, k) = u
      \/ ParsedPath(u, s, k) = NewUri
      \/ ParsedPath(u, s, k) = ParsedQuery(v, s, k + n)
  BY Zenon DEF ParsedPath
<1>2. Keeps(u, v, "authority")
  BY InsertKeeps
<1> HIDE DEF v, n
<1>3. "authority" \in DOMAIN v.len
  BY <1>2 DEF Keeps
<1>4. Keeps(v, ParsedQuery(v, s, k + n), "authority")
  BY <1>3, QueryKeeps
<1>5. Keeps(u, ParsedQuery(v, s, k + n), "authority") /\ Keeps(u, u, "authority")
  BY <1>2, <1>4 DEF Keeps
<1> QED
  BY <1>1, <1>5, Zenon

\* A length that comes round is that of a beginning.
LEMMA RoundFacts ==
    ASSUME NEW n \in Nat, n >= Width
    PROVE  n % Width \in 0 .. n /\ (n % Width) + Width <= n
<1> PICK w : w = Width
  OBVIOUS
<1>1. w \in Nat /\ w > 0 /\ n >= w
  BY WidthAssumption
<1> PICK q : q = n \div w
  OBVIOUS
<1> PICK r : r = n % w
  OBVIOUS
<1>2. q \in Int /\ r \in 0 .. w - 1 /\ n = w * q + r
  BY <1>1
<1>3. q >= 1
  BY <1>1, <1>2
<1>4. w * q >= w
  BY <1>1, <1>2, <1>3
<1>5. r \in 0 .. n /\ r + w <= n
  BY <1>1, <1>2, <1>4
<1> QED
  BY <1>5

\* A path that is too long is cut off: its length is that of a beginning.
LEMMA LongPath ==
    ASSUME NEW u, "path" \in DOMAIN u.len, NEW p \in Text, NEW r \in Text,
           Free(p, {Question, Hash}), Opens(r, {Question, Hash}), Len(p) >= Width
    PROVE  LET n == Len(p) % Width
               v == ParsedPath(u, Cat(p, r), 0)
           IN  v = NewUri \/ v.len["path"] = Len(decode(Sub(p, 1, n))) % Width
<1> PICK n : n = Len(p) % Width
  OBVIOUS
<1> PICK c : c = Cat(p, r)
  OBVIOUS
<1>1. Len(p) \in Nat /\ n \in 0 .. Len(p) /\ n + Width <= Len(p) /\ Width \in Nat
  <2>1. Len(p) \in Nat /\ Width \in Nat
    BY TextFacts, WidthAssumption
  <2>2. Len(p) % Width \in 0 .. Len(p) /\ (Len(p) % Width) + Width <= Len(p)
    BY <2>1, RoundFacts
  <2> QED
    BY <2>1, <2>2
<1>2. c \in Text /\ Span(c, {Question, Hash}) = Len(p)
  <2>1. Cat(p, r) \in Text
    BY ConcatFacts
  <2>2. \A i \in 1 .. Len(p) : p[i] \notin {Question, Hash}
    BY DEF Free
  <2>3. r = <<>> \/ r[1] \in {Question, Hash}
    BY DEF Opens
  <2>4. Span(Cat(p, r), {Question, Hash}) = Len(p)
    BY <2>2, <2>3, SpanOfCat
  <2> QED
    BY <2>1, <2>4, Zenon
<1>3. From(c, 0) = c
  BY <1>2, FromZero
<1>4. parseUriPath(From(c, 0)) = n
  BY <1>2, <1>3 DEF parseUriPath
<1>5. Sub(c, 1, n) = Sub(p, 1, n)
  BY <1>1, PrefixOfCat
<1> PICK d : d = decode(Sub(p, 1, n))
  OBVIOUS
<1>6. decode(SubSeq(c, 0 + 1, 0 + n)) = d
  <2>1. 0 + 1 = 1 /\ 0 + n = n
    BY <1>1
  <2>2. SubSeq(c, 1, n) = Sub(p, 1, n)
    BY <1>5, Zenon DEF Sub
  <2> QED
    BY <2>1, <2>2
<1> PICK v : v = Insert(u, "path", d)
  OBVIOUS
<1>7. ParsedPath(u, c, 0) \in {u, NewUri, ParsedQuery(v, c, 0 + n)} /\ (~(0 >= Len(c)) =>
            ParsedPath(u, c, 0) \in {NewUri, ParsedQuery(v, c, 0 + n)})
  BY <1>4, <1>6 DEF ParsedPath
<1>8. ~(0 >= Len(c))
  <2>1. Len(c) = Len(p) + Len(r) /\ Len(r) \in Nat
    BY ConcatFacts, TextFacts
  <2> QED
    BY <1>1, <2>1, WidthAssumption
<1>9. v.len["path"] = Len(d) % Width /\ "path" \in DOMAIN v.len
  <2>1. \A text : /\ Insert(u, "path", text).len["path"] = Len(text) % Width
                  /\ DOMAIN Insert(u, "path", text).len = DOMAIN u.len
    BY InsertLength
  <2> QED
    BY <2>1, Zenon
<1>10. Keeps(v, ParsedQuery(v, c, 0 + n), "path")
  BY <1>9, QueryKeeps
<1>11. ParsedQuery(v, c, 0 + n).len["path"] = Len(d) % Width
  BY <1>9, <1>10 DEF Keeps
<1>12. ParsedPath(u, c, 0) = NewUri \/ ParsedPath(u, c, 0).len["path"] = Len(d) % Width
  BY <1>7, <1>8, <1>11
<1> QED
  BY <1>12

-----------------------------------------------------------------------------
(* What is not read back *)

\* An object that has only a scheme.
SchemeOnly(f) == Insert(NewUri, "scheme", f["scheme"])

\* parse() finds the scheme of a text that is written.
LEMMA ParseSent ==
    ASSUME NEW f, Writable(f), AuthorityText(Sent(f)) \in Text
    PROVE  /\ parse(toString(Built(f))) = ParsedAuthority(SchemeOnly(f), AuthorityText(Sent(f)), 0)
           /\ DOMAIN SchemeOnly(f).len = Parts
<1> PICK c : c = f["scheme"]
  OBVIOUS
<1> PICK r : r = AuthorityText(Sent(f))
  OBVIOUS
<1>1. {"scheme", "path"} \subseteq DOMAIN f /\ "scheme" # "path" /\ r \in Text
  BY DEF Writable, Holdable
<1>2. Sent(f)["scheme"] = c /\ c \in Text /\ Len(c) < Width /\ c # <<>>
        /\ Free(c, Byte \ SchemeByte)
  BY <1>1, SentFacts
<1>3. parse(Cat(c, Cat(<<Colon>>, r))) =
                IF Len(c) < Width THEN ParsedAuthority(Insert(NewUri, "scheme", c), r, 0)
                        ELSE NewUri
  BY <1>1, <1>2, SchemeIs
<1>4. toString(Built(f)) = Cat(c, Cat(<<Colon>>, r))
  <2>1. toString(Built(f)) = Written(Sent(f))
    BY WrittenObject
  <2>2. Written(Sent(f)) = Cat(Sent(f)["scheme"], Cat(<<Colon>>, r))
    BY Zenon DEF Written
  <2> QED
    BY <1>2, <2>1, <2>2, Zenon
<1>5. parse(toString(Built(f))) = ParsedAuthority(SchemeOnly(f), r, 0)
  <2>1. parse(Cat(c, Cat(<<Colon>>, r))) = ParsedAuthority(Insert(NewUri, "scheme", c), r, 0)
    BY <1>2, <1>3
  <2>2. SchemeOnly(f) = Insert(NewUri, "scheme", c)
    BY Zenon DEF SchemeOnly
  <2> QED
    BY <1>4, <2>1, <2>2, Zenon
<1>6. DOMAIN SchemeOnly(f).len = Parts
  <2>1. DOMAIN NewUri.len = Parts /\ "scheme" \in Parts
    BY DEF NewUri, Parts
  <2>2. DOMAIN Insert(NewUri, "scheme", f["scheme"]).len = DOMAIN NewUri.len
    BY <2>1, InsertLength
  <2> QED
    BY <2>1, <2>2, Zenon DEF SchemeOnly
<1> QED
  BY <1>5, <1>6

\* An object with a scheme has parts.
LEMMA NotNew ==
    ASSUME NEW f, Writable(f)
    PROVE  Built(f) # NewUri
<1>1. f["scheme"] \in Text /\ f["scheme"] # <<>> /\ "scheme" \in DOMAIN f
  BY DEF Writable, Holdable
<1>2. Len(f["scheme"]) # 0
  BY <1>1, TextFacts
<1>3. Built(f).len["scheme"] = Len(f["scheme"])
  BY <1>1 DEF Built, TextOf, Parts
<1>4. NewUri.len["scheme"] = 0
  BY DEF NewUri, Parts
<1> QED
  BY <1>2, <1>3, <1>4

\* The texts that are written.
LEMMA SentTexts ==
    ASSUME NEW f, Writable(f)
    PROVE  LET g == Sent(f) IN
           /\ QueryText(g) \in Text /\ Opens(QueryText(g), {Question, Hash})
           /\ PathText(g) \in Text /\ PathText(g) = Cat(EncodedPath(f["path"]), QueryText(g))
           /\ AuthorityText(g) \in Text
           /\ AuthorityText(g) = IF "authority" \in DOMAIN f
                   THEN Slashes(Cat(f["authority"], PathText(g)))
                                 ELSE PathText(g)
<1> PICK g : g = Sent(f)
  OBVIOUS
<1> PICK e : e = EncodedPath(f["path"])
  OBVIOUS
<1>1. /\ DOMAIN g = DOMAIN f /\ g["path"] = e /\ e \in Text
      /\ \A p \in DOMAIN f \ {"path"} : g[p] = f[p]
      /\ \A p \in DOMAIN f : g[p] \in Text
  BY SentFacts
<1>2. QueryText(g) \in Text /\ Opens(QueryText(g), {Question, Hash})
  BY <1>1, QueryOpens
<1>3. PathText(g) = Cat(e, QueryText(g))
  BY <1>1, Zenon DEF PathText
<1>4. PathText(g) \in Text
  <2>1. Cat(e, QueryText(g)) \in Text
    BY <1>1, <1>2, ConcatFacts
  <2> QED
    BY <1>3, <2>1, Zenon
<1>5. CASE "authority" \in DOMAIN f
  <2>1. g["authority"] = f["authority"] /\ f["authority"] \in Text
    BY <1>1, <1>5
  <2>2. AuthorityText(g) = Slashes(Cat(f["authority"], PathText(g)))
    BY <1>1, <1>5, <2>1, Zenon DEF AuthorityText
  <2>3. Cat(f["authority"], PathText(g)) \in Text
    BY <1>4, <2>1, ConcatFacts
  <2>4. Slashes(Cat(f["authority"], PathText(g))) \in Text
    BY <2>3, SlashesFacts
  <2>5. AuthorityText(g) \in Text
    BY <2>2, <2>4, Zenon
  <2> QED
    BY <1>2, <1>3, <1>4, <1>5, <2>2, <2>5, Zenon
<1>6. CASE "authority" \notin DOMAIN f
  <2>1. AuthorityText(g) = PathText(g)
    BY <1>1, <1>6, Zenon DEF AuthorityText
  <2> QED
    BY <1>2, <1>3, <1>4, <1>6, <2>1, Zenon
<1> QED
  BY <1>5, <1>6

\* The text of the authority ends elsewhere than the authority.
OtherAuthority(f, b, t) ==
    /\ b \in Text /\ Free(b, {Slash, Question, Hash}) /\ Len(b) # Len(f["authority"])
    /\ t \in Text /\ Opens(t, {Slash, Question, Hash})
    /\ AuthorityText(Sent(f)) = Slashes(Cat(b, t))

\* Then another authority is read.
LEMMA OtherIsRead ==
    ASSUME NEW f, Writable(f), "authority" \in DOMAIN f, NEW b, NEW t, OtherAuthority(f, b, t)
    PROVE  parse(toString(Built(f))) # Built(f)
<1> PICK u : u = SchemeOnly(f)
  OBVIOUS
<1>1. /\ b \in Text /\ Free(b, {Slash, Question, Hash}) /\ Len(b) # Len(f["authority"])
      /\ t \in Text /\ Opens(t, {Slash, Question, Hash})
      /\ AuthorityText(Sent(f)) = Slashes(Cat(b, t))
  BY DEF OtherAuthority
<1>2. ParsedAuthority(u, Slashes(Cat(b, t)), 0) =
                IF Len(b) < Width THEN ParsedPath(Insert(u, "authority", b), t, 0) ELSE NewUri
  BY <1>1, AuthorityIs
<1>3. parse(toString(Built(f))) = ParsedAuthority(u, Slashes(Cat(b, t)), 0) /\ DOMAIN u.len = Parts
  <2>1. AuthorityText(Sent(f)) \in Text
    BY SentTexts
  <2>2. /\ parse(toString(Built(f))) = ParsedAuthority(u, AuthorityText(Sent(f)), 0)
        /\ DOMAIN u.len = Parts
    BY <2>1, ParseSent
  <2> QED
    BY <1>1, <2>2, Zenon
<1> PICK v : v = ParsedPath(Insert(u, "authority", b), t, 0)
  OBVIOUS
<1>4. ASSUME Len(b) < Width, v # NewUri
      PROVE  v.len["authority"] = Len(b)
  <2>1. "authority" \in DOMAIN u.len
    BY <1>3 DEF Parts
  <2>2. /\ Insert(u, "authority", b).len["authority"] = Len(b) % Width
        /\ DOMAIN Insert(u, "authority", b).len = DOMAIN u.len
    BY <2>1, InsertLength
  <2>3. "authority" \in DOMAIN Insert(u, "authority", b).len
    BY <2>1, <2>2, Zenon
  <2>4. Keeps(Insert(u, "authority", b), v, "authority")
    BY <1>4, <2>3, PathKeeps
  <2>5. v.len["authority"] = Len(b) % Width
    BY <2>2, <2>4, Zenon DEF Keeps
  <2>6. Len(b) \in Nat
    BY <1>1, TextFacts
  <2>7. Len(b) % Width = Len(b)
    BY <1>4, <2>6, ModFacts
  <2> QED
    BY <2>5, <2>7, Zenon
<1>5. Built(f).len["authority"] = Len(f["authority"])
  BY DEF Built, TextOf, Parts
<1>6. ASSUME parse(toString(Built(f))) = Built(f) PROVE FALSE
  <2>1. Built(f) # NewUri
    BY NotNew
  <2>2. Len(b) < Width /\ Built(f) = v
    BY <1>2, <1>3, <1>6, <2>1
  <2>3. Built(f).len["authority"] = Len(b)
    BY <1>4, <2>1, <2>2
  <2> QED
    BY <1>1, <1>5, <2>3, Zenon
<1> QED
  BY <1>6

\* A path that does not begin with a slash has become a part of the authority.
LEMMA PathIntoAuthority ==
    ASSUME NEW f, Writable(f), "authority" \in DOMAIN f,
           f["path"] # <<>>, ~ByteAt(f["path"], 0, Slash)
    PROVE  parse(toString(Built(f))) # Built(f)
<1> PICK a : a = f["authority"]
  OBVIOUS
<1> PICK e : e = EncodedPath(f["path"])
  OBVIOUS
<1> PICK q : q = QueryText(Sent(f))
  OBVIOUS
<1> PICK stop : stop = {Slash, Question, Hash}
  OBVIOUS
<1>1. /\ a \in Text /\ Free(a, stop) /\ e \in Text /\ Free(e, {Question, Hash})
      /\ f["path"] \in Text
  <2>1. "authority" # "path" /\ "path" \in DOMAIN f
    BY DEF Writable, Holdable
  <2> QED
    BY <2>1, SentFacts
<1>2. /\ q \in Text /\ Opens(q, {Question, Hash})
      /\ AuthorityText(Sent(f)) = Slashes(Cat(a, Cat(e, q))) /\ AuthorityText(Sent(f)) \in Text
  BY SentTexts
<1> PICK n : n = Span(e, stop)
  OBVIOUS
<1> PICK w : w = Sub(e, 1, n)
  OBVIOUS
<1> PICK r : r = From(e, n)
  OBVIOUS
<1>3. n \in 0 .. Len(e) /\ (\A i \in 1 .. n : e[i] \notin stop) /\ (n < Len(e) => e[n + 1] \in stop)
  BY <1>1, SpanFacts
<1>4. w \in Text /\ Len(w) = n /\ r \in Text /\ e = Cat(w, r)
  BY <1>1, <1>3, SplitAt
<1>5. \A i \in 1 .. n : w[i] = e[i]
  BY <1>1, <1>3, HeadFacts
<1>6. Free(w, stop)
  <2>1. \A i \in 1 .. n : w[i] \notin stop
    BY <1>3, <1>5, Zenon
  <2> QED
    BY <1>4, <2>1, Zenon DEF Free
<1>7. Len(r) = Len(e) - n /\ \A i \in 1 .. Len(e) - n : r[i] = e[n + i]
  <2>1. e \in Text /\ n \in 0 .. Len(e)
    BY <1>1, <1>3
  <2>2. /\ Len(From(e, n)) = Len(e) - n
        /\ \A i \in 1 .. Len(e) - n : From(e, n)[i] = e[n + i]
    BY <2>1, FromFacts
  <2> QED
    BY <2>2
<1>8. Opens(r, stop)
  <2>1. CASE n < Len(e)
    <3>1. 1 \in 1 .. Len(e) - n
      BY <1>3, <2>1
    <3>2. r[1] \in stop
      BY <1>3, <1>7, <2>1, <3>1
    <3> QED
      BY <3>2 DEF Opens
  <2>2. CASE ~(n < Len(e))
    <3>1. Len(r) = 0
      BY <1>1, <1>3, <1>7, <2>2, TextFacts
    <3> QED
      BY <1>4, <3>1, TextFacts DEF Opens
  <2> QED
    BY <2>1, <2>2
<1>9. n # 0
  <2>1. e # <<>> /\ ~ByteAt(e, 0, Slash)
    BY <1>1, EncodedHead
  <2>2. e[1] # Slash /\ Len(e) \in Nat \ {0}
    BY <1>1, <2>1, FirstByte
  <2>3. e[1] \notin {Question, Hash}
    BY <1>1, <2>2 DEF Free
  <2> QED
    BY <1>3, <2>2, <2>3
<1>10. Cat(r, q) \in Text /\ Opens(Cat(r, q), stop)
  <2>1. Cat(r, q) \in Text
    BY <1>2, <1>4, ConcatFacts
  <2>2. CASE r = <<>>
    <3>1. Cat(r, q) = q
      BY <1>2, <2>2, EmptyText
    <3>2. Opens(q, stop)
      BY <1>2 DEF Opens
    <3> QED
      BY <2>1, <3>1, <3>2
  <2>3. CASE r # <<>>
    <3>1. Cat(r, q)[1] = r[1]
      BY <1>2, <1>4, <2>3, CatFirst
    <3>2. r[1] \in stop
      BY <1>8, <2>3 DEF Opens
    <3>3. Cat(r, q)[1] \in stop
      BY <3>1, <3>2, Zenon
    <3> QED
      BY <2>1, <3>3 DEF Opens
  <2> QED
    BY <2>2, <2>3
<1> PICK b : b = Cat(a, w)
  OBVIOUS
<1> PICK t : t = Cat(r, q)
  OBVIOUS
<1>11. b \in Text /\ Free(b, stop) /\ Len(b) = Len(a) + n
  <2>1. Cat(a, w) \in Text /\ Len(Cat(a, w)) = Len(a) + Len(w)
    <3>1. \A x \in Text : \A y \in Text : Cat(x, y) \in Text /\ Len(Cat(x, y)) = Len(x) + Len(y)
      BY ConcatFacts
    <3> QED
      BY <1>1, <1>4, <3>1, Zenon
  <2>2. Free(Cat(a, w), stop)
    BY <1>1, <1>4, <1>6, ClosedCat
  <2> QED
    BY <1>4, <2>1, <2>2
<1>12. Cat(a, Cat(e, q)) = Cat(b, t)
  <2>1. Cat(a, Cat(Cat(w, r), q)) = Cat(Cat(a, w), Cat(r, q))
    <3>1. a \in Text /\ w \in Text /\ r \in Text /\ q \in Text
      BY <1>1, <1>2, <1>4, Zenon
    <3> QED
      BY <3>1, FourTexts
  <2> QED
    BY <1>4, <2>1, Zenon
<1>13. AuthorityText(Sent(f)) = Slashes(Cat(b, t))
  BY <1>2, <1>12, Zenon
<1>14. Len(b) # Len(a)
  <2>1. Len(a) \in Nat /\ n \in Nat
    BY <1>1, <1>3, TextFacts
  <2> QED
    BY <1>9, <1>11, <2>1
<1>15. OtherAuthority(f, b, t)
  <2>1. b \in Text /\ t \in Text /\ Free(b, stop) /\ Opens(t, stop)
    BY <1>10, <1>11, Zenon
  <2> QED
    BY <1>13, <1>14, <2>1, Zenon DEF OtherAuthority
<1> QED
  BY <1>15, OtherIsRead

\* Two slashes before a path without an authority have become those of an authority.
LEMMA PathAsAuthority ==
    ASSUME NEW f, Writable(f), "authority" \notin DOMAIN f,
           ByteAt(f["path"], 0, Slash), ByteAt(f["path"], 1, Slash)
    PROVE  parse(toString(Built(f))) # Built(f)
<1> PICK e : e = EncodedPath(f["path"])
  OBVIOUS
<1> PICK q : q = QueryText(Sent(f))
  OBVIOUS
<1> PICK s : s = AuthorityText(Sent(f))
  OBVIOUS
<1>1. e \in Text /\ f["path"] \in Text
  <2>1. "path" \in DOMAIN f
    BY DEF Writable, Holdable
  <2> QED
    BY <2>1, SentFacts
<1>2. q \in Text /\ s = Cat(e, q) /\ s \in Text
  <2>1. AuthorityText(Sent(f)) = PathText(Sent(f)) /\ PathText(Sent(f)) = Cat(e, q) /\ q \in Text
    BY SentTexts
  <2> QED
    BY <2>1, SentTexts
<1>3. ByteAt(s, 0, Slash) /\ ByteAt(s, 1, Slash)
  <2>1. ByteAt(e, 0, Slash) /\ ByteAt(e, 1, Slash)
    BY <1>1, EncodedSlashes
  <2>2. \A i \in 1 .. Len(e) : Cat(e, q)[i] = e[i]
    BY <1>1, <1>2, ConcatFacts
  <2>3. Len(Cat(e, q)) = Len(e) + Len(q) /\ Len(e) \in Nat /\ Len(q) \in Nat
    BY <1>1, <1>2, ConcatFacts, TextFacts
  <2>4. 0 < Len(e) /\ e[1] = Slash /\ 1 < Len(e) /\ e[2] = Slash
    BY <2>1 DEF ByteAt
  <2>5. 0 < Len(Cat(e, q)) /\ 1 < Len(Cat(e, q)) /\ Cat(e, q)[1] = Slash /\ Cat(e, q)[2] = Slash
    BY <2>2, <2>3, <2>4
  <2>6. ByteAt(Cat(e, q), 0, Slash) /\ ByteAt(Cat(e, q), 1, Slash)
    BY <2>5 DEF ByteAt
  <2> QED
    BY <1>2, <2>6, Zenon
<1> PICK u : u = SchemeOnly(f)
  OBVIOUS
<1>4. parse(toString(Built(f))) = ParsedAuthority(u, s, 0) /\ DOMAIN u.len = Parts
  BY <1>2, ParseSent
<1> DEFINE n == parseUriAuthority(From(s, 0 + 2))
           v == Insert(u, "authority", SubSeq(s, 0 + 3, 0 + 2 + n))
<1>5. ParsedAuthority(u, s, 0) = ParsedPath(v, s, 0 + 2 + n)
  <2>1. ByteAt(s, 0 + 1, Slash)
    BY <1>3
  <2> QED
    BY <1>3, <2>1, Zenon DEF ParsedAuthority
<1>6. "authority" \in v.has
  BY DEF Insert, Optional
<1>7. "authority" \in DOMAIN v.len
  <2>1. "authority" \in DOMAIN u.len
    BY <1>4 DEF Parts
  <2>2. \A text : DOMAIN Insert(u, "authority", text).len = DOMAIN u.len
    BY <2>1, InsertLength
  <2> QED
    BY <2>1, <2>2, Zenon
<1> HIDE DEF v, n
<1>8. \/ ParsedPath(v, s, 0 + 2 + n) = NewUri
      \/ "authority" \in ParsedPath(v, s, 0 + 2 + n).has
  BY <1>6, <1>7, PathKeeps DEF Keeps
<1>9. "authority" \notin Built(f).has
  BY DEF Built
<1> QED
  BY <1>4, <1>5, <1>8, <1>9, NotNew

\* A path that has become too long is cut off.
LEMMA PathIsCut ==
    ASSUME NEW f, Writable(f), Apart(f), ~Misplaced(Sent(f)), Len(EncodedPath(f["path"])) >= Width
    PROVE  parse(toString(Built(f))) # Built(f)
<1> PICK g : g = Sent(f)
  OBVIOUS
<1> PICK x : x = f["path"]
  OBVIOUS
<1> PICK e : e = EncodedPath(x)
  OBVIOUS
<1> PICK q : q = QueryText(g)
  OBVIOUS
<1>1. {"scheme", "path"} \subseteq DOMAIN f /\ DOMAIN f \subseteq Parts
  BY DEF Writable, Holdable
<1>2. /\ DOMAIN g = DOMAIN f /\ x \in Text /\ Len(x) < Width /\ e \in Text /\ g["path"] = e
      /\ Free(e, {Question, Hash})
      /\ \A p \in DOMAIN f \ {"path"} : g[p] = f[p]
      /\ \A p \in DOMAIN f : f[p] \in Text /\ Len(f[p]) < Width
      /\ "authority" \in DOMAIN f => Free(g["authority"], {Slash, Question, Hash})
  BY <1>1, SentFacts
<1>3. WellFormed(g)
  BY SentWellFormed
<1>4. /\ q \in Text /\ Opens(q, {Question, Hash})
      /\ PathText(g) = Cat(e, q) /\ PathText(g) \in Text /\ AuthorityText(g) \in Text
      /\ AuthorityText(g) = IF "authority" \in DOMAIN f
              THEN Slashes(Cat(f["authority"], PathText(g)))
                            ELSE PathText(g)
  BY SentTexts
<1> PICK u : u = SchemeOnly(f)
  OBVIOUS
<1>5. parse(toString(Built(f))) = ParsedAuthority(u, AuthorityText(g), 0) /\ DOMAIN u.len = Parts
  BY <1>4, ParseSent
<1>6. \E v : "path" \in DOMAIN v.len /\ parse(toString(Built(f))) = ParsedPath(v, PathText(g), 0)
  <2>1. CASE "authority" \in DOMAIN f
    <3> PICK a : a = f["authority"]
      OBVIOUS
    <3>1. a \in Text /\ Len(a) < Width /\ Free(a, {Slash, Question, Hash})
      <4>1. g["authority"] = f["authority"]
        BY <1>2, <2>1
      <4> QED
        BY <1>2, <2>1, <4>1
    <3>2. Opens(PathText(g), {Slash, Question, Hash})
      <4>1. Opens(g["path"], {Slash})
        BY <1>2, <1>3, <2>1 DEF WellFormed
      <4> QED
        BY <1>3, <4>1, PathOpens
    <3>3. ParsedAuthority(u, Slashes(Cat(a, PathText(g))), 0) =
                IF Len(a) < Width THEN ParsedPath(Insert(u, "authority", a), PathText(g), 0)
                        ELSE NewUri
      BY <1>4, <3>1, <3>2, AuthorityIs
    <3>4. AuthorityText(g) = Slashes(Cat(a, PathText(g)))
      BY <1>4, <2>1, Zenon
    <3>5. parse(toString(Built(f))) = ParsedPath(Insert(u, "authority", a), PathText(g), 0)
      BY <1>5, <3>1, <3>3, <3>4, Zenon
    <3>6. "path" \in DOMAIN Insert(u, "authority", a).len
      <4>1. "authority" \in DOMAIN u.len /\ "path" \in DOMAIN u.len
        BY <1>5 DEF Parts
      <4>2. \A text : DOMAIN Insert(u, "authority", text).len = DOMAIN u.len
        BY <4>1, InsertLength
      <4> QED
        BY <4>1, <4>2, Zenon
    <3> QED
      BY <3>5, <3>6, Zenon
  <2>2. CASE "authority" \notin DOMAIN f
    <3>1. ~(ByteAt(PathText(g), 0, Slash) /\ ByteAt(PathText(g), 1, Slash))
      BY <1>2, <1>3, <2>2 DEF WellFormed
    <3>2. ParsedAuthority(u, PathText(g), 0) = ParsedPath(u, PathText(g), 0)
      BY <1>4, <3>1, NoAuthority
    <3>3. AuthorityText(g) = PathText(g)
      BY <1>4, <2>2, Zenon
    <3>4. "path" \in DOMAIN u.len
      BY <1>5 DEF Parts
    <3> QED
      BY <1>5, <3>2, <3>3, <3>4, Zenon
  <2> QED
    BY <2>1, <2>2
<1>7. PICK v : "path" \in DOMAIN v.len /\ parse(toString(Built(f))) = ParsedPath(v, PathText(g), 0)
  BY <1>6
<1> PICK n : n = Len(e) % Width
  OBVIOUS
<1>8. n \in 0 .. Len(e) /\ n + Width <= Len(e)
  <2>1. Len(e) \in Nat /\ Len(e) >= Width
    BY <1>2, TextFacts
  <2>2. Len(e) % Width \in 0 .. Len(e) /\ (Len(e) % Width) + Width <= Len(e)
    BY <2>1, RoundFacts
  <2> QED
    BY <2>2
<1> PICK w : w = ParsedPath(v, PathText(g), 0)
  OBVIOUS
<1> PICK d : d = decode(Sub(e, 1, n))
  OBVIOUS
<1>9. w = NewUri \/ w.len["path"] = Len(d) % Width
  <2>1. \/ ParsedPath(v, Cat(e, q), 0) = NewUri
        \/ ParsedPath(v, Cat(e, q), 0).len["path"] = Len(decode(Sub(e, 1, Len(e) % Width))) % Width
    <3>1. /\ "path" \in DOMAIN v.len /\ e \in Text /\ q \in Text /\ Len(e) >= Width
          /\ Free(e, {Question, Hash}) /\ Opens(q, {Question, Hash})
      BY <1>2, <1>4, <1>7
    <3> QED
      BY <3>1, LongPath, Zenon
  <2> QED
    BY <1>4, <2>1, Zenon
<1>10. d \in Text /\ Len(d) < Len(x)
  <2>1. n \in 0 .. Len(EncodedPath(x)) /\ n + Width <= Len(EncodedPath(x))
    BY <1>8
  <2>2. /\ decode(Sub(EncodedPath(x), 1, n)) \in Text
        /\ Len(decode(Sub(EncodedPath(x), 1, n))) < Len(x)
    BY <1>2, <2>1, CutIsShorter
  <2> QED
    BY <2>2
<1>11. Len(d) % Width < Len(x)
  <2>1. Len(d) \in Nat /\ Len(x) \in Nat
    BY <1>2, <1>10, TextFacts
  <2>2. Len(d) % Width \in Int /\ Len(d) % Width <= Len(d)
    BY <2>1, ModFacts
  <2> QED
    BY <1>10, <2>1, <2>2
<1>12. Built(f).len["path"] = Len(x)
  BY <1>1 DEF Built, TextOf, Parts
<1>13. Len(x) \in Nat
  BY <1>2, TextFacts
<1>14. ASSUME parse(toString(Built(f))) = Built(f) PROVE FALSE
  <2>1. w = Built(f) /\ Built(f) # NewUri
    BY <1>7, <1>14, NotNew
  <2>2. Len(x) = Len(d) % Width
    BY <1>9, <1>12, <2>1
  <2> QED
    BY <1>11, <1>13, <2>2
<1> QED
  BY <1>14

\* Which objects are read back from their text.
LEMMA ReadBackIff ==
    ASSUME NEW f, Writable(f)
    PROVE  parse(toString(Built(f))) = Built(f) <=> Readable(Built(f))
<1>1. ASSUME Readable(Built(f)) PROVE parse(toString(Built(f))) = Built(f)
  BY <1>1, ReadableIsRead
<1>2. ASSUME ~Readable(Built(f)) PROVE parse(toString(Built(f))) # Built(f)
  <2>1. ~(Len(EncodedPath(f["path"])) < Width) \/ ~Apart(f) \/ Misplaced(Sent(f))
    BY <1>2, ReadableIs
  <2>2. CASE ~Apart(f)
    <3>1. CASE "authority" \in DOMAIN f
      <4>1. f["path"] # <<>> /\ ~ByteAt(f["path"], 0, Slash)
        BY <2>2, <3>1 DEF Apart
      <4> QED
        BY <3>1, <4>1, PathIntoAuthority
    <3>2. CASE "authority" \notin DOMAIN f
      <4>1. ByteAt(f["path"], 0, Slash) /\ ByteAt(f["path"], 1, Slash)
        BY <2>2, <3>2 DEF Apart
      <4> QED
        BY <3>2, <4>1, PathAsAuthority
    <3> QED
      BY <3>1, <3>2
  <2>3. CASE Apart(f) /\ Misplaced(Sent(f))
    <3>1. WellFormed(Sent(f)) /\ toString(Built(f)) = Written(Sent(f))
      BY <2>3, SentWellFormed, WrittenObject
    <3>2. parse(Written(Sent(f))) = NewUri
      BY <2>3, <3>1, ParseWritten
    <3>3. parse(toString(Built(f))) = NewUri
      BY <3>1, <3>2, Zenon
    <3> QED
      BY <3>3, NotNew
  <2>4. CASE Apart(f) /\ ~Misplaced(Sent(f))
    <3>1. ~(Len(EncodedPath(f["path"])) < Width)
      BY <2>1, <2>4
    <3>2. EncodedPath(f["path"]) \in Text
      BY SentFacts
    <3>3. Len(EncodedPath(f["path"])) \in Nat /\ Width \in Nat
      BY <3>2, TextFacts, WidthAssumption
    <3>4. Len(EncodedPath(f["path"])) >= Width
      BY <3>1, <3>3
    <3> QED
      BY <2>4, <3>4, PathIsCut
  <2> QED
    BY <2>2, <2>3, <2>4
<1> QED
  BY <1>1, <1>2

\* src/lsp/uri.cpp:114-177, 274-384: each part is as its setter leaves it.
THEOREM PartsAreCanonical == Spec => []IsSound
<1>1. Init => IsSound
  BY NothingSound DEF Init, IsSound
<1> QED
  BY <1>1, SoundStep, PTL DEF Spec

\* src/lsp/uri.cpp:114-177, 386-420: toString() and parse() are inverse for exactly the
\* objects that Readable tells.
THEOREM TextIsReadBack == Spec => []ReadBack
<1>1. IInv /\ IsSound => ReadBack
  <2> SUFFICES ASSUME IInv, IsSound, isValid(uri), ~tooLong
               PROVE  parse(toString(uri)) = uri <=> Readable(uri)
    BY DEF ReadBack
  <2>1. Holdable(parts) /\ uri = Built(parts) /\ Sound(parts)
    BY DEF IInv, IsBuilt, IsSound
  <2>2. parts["scheme"] # <<>>
    <3>1. Built(parts).len["scheme"] = Len(TextOf(parts, "scheme"))
      BY DEF Built, Parts
    <3>2. TextOf(parts, "scheme") = parts["scheme"]
      BY <2>1 DEF TextOf, Holdable
    <3>3. Len(parts["scheme"]) # 0
      <4>1. uri.len["scheme"] > 0
        BY DEF isValid
      <4>2. uri.len["scheme"] = Len(parts["scheme"])
        BY <2>1, <3>1, <3>2, Zenon
      <4> QED
        BY <4>1, <4>2
    <3> QED
      BY <3>3, EmptyText
  <2>3. Writable(parts)
    BY <2>1, <2>2 DEF Writable
  <2>4. parse(toString(Built(parts))) = Built(parts) <=> Readable(Built(parts))
    BY <2>3, ReadBackIff
  <2> QED
    BY <2>1, <2>4, Zenon
<1> QED
  BY <1>1, UriInvariant, PartsAreCanonical, PTL

-----------------------------------------------------------------------------
(* JSON-RPC: what is accepted *)

\* A member that is put into an object is there, and the others are as before.
LEMMA PutFacts ==
    ASSUME NEW json, NEW key, NEW value
    PROVE  /\ Put(json, key, value).kind = "object"
           /\ Keys(Put(json, key, value)) = Keys(json) \union {key}
           /\ Put(json, key, value).v[key] = value
           /\ \A k \in Keys(json) : k # key => Put(json, key, value).v[k] = json.v[k]
BY DEF Put, Object, Value, Keys

\* An option is put in if it is there.
LEMMA PutSomeFacts ==
    ASSUME NEW json, json.kind = "object", NEW key, NEW option
    PROVE  /\ PutSome(json, key, option).kind = "object"
           /\ Keys(PutSome(json, key, option))
                = Keys(json) \union (IF option = Nothing THEN {} ELSE {key})
           /\ option # Nothing => PutSome(json, key, option).v[key] = option[1]
           /\ \A k \in Keys(json) : k # key => PutSome(json, key, option).v[k] = json.v[k]
BY PutFacts DEF PutSome

\* A request that is read has no failure.
LEMMA RequestAccepted ==
    ASSUME NEW json, json.kind = "object", "method" \in Keys(json)
    PROVE  (RequestFailure(json) = "none") <=> IsMessage(json)
BY DEF RequestFailure, ValidVersion, ValidId, IsMessage, IsRequest, IsResponse, Has, MayHave

\* The checks of an error object are those of its definition.
LEMMA ErrorAccepted ==
    ASSUME NEW error
    PROVE  (ErrorFailure(error) = "none")
            <=> /\ error.kind \in {"object"}
                /\ Has(error, "code", {"number"})
                /\ Has(error, "message", {"string"})
BY DEF ErrorFailure, Has

\* So are those of a response.
LEMMA ResponseAccepted ==
    ASSUME NEW json, json.kind = "object", "method" \notin Keys(json)
    PROVE  (ResponseFailure(json) = "none") <=> IsMessage(json)
<1> DEFINE error == json.v["error"]
           Good == ErrorFailure(error) = "none"
           Version == ValidVersion(json)
           Id == "id" \in Keys(json) => ValidId(json.v["id"])
           R == "result" \in Keys(json)
           E == "error" \in Keys(json)
<1>1. (ResponseFailure(json) = "none") <=> Version /\ Id /\ (E => Good) /\ OneOutcome(json)
  BY DEF ResponseFailure
<1>2. OneOutcome(json) <=> (R /\ ~E) \/ (~R /\ E)
  BY DEF OneOutcome
<1>3. IsMessage(json)
        <=> /\ Version /\ Id
            /\ (R /\ ~E) \/ (~R /\ E /\ Good)
  <2>1. IsResponse(json) <=> (R /\ ~E) \/ (~R /\ E /\ Good)
    BY ErrorAccepted DEF IsResponse, Has
  <2>2. ~IsRequest(json)
    BY DEF IsRequest, Has
  <2> QED
    BY <2>1, <2>2 DEF IsMessage, ValidVersion, ValidId, Has, MayHave
<1> QED
  BY <1>1, <1>2, <1>3

\* Exactly the messages are read.
LEMMA MessageAccepted ==
    ASSUME NEW json, json.kind = "object"
    PROVE  messageFromJson(json).ok <=> IsMessage(json)
<1>1. CASE "method" \in Keys(json)
  BY <1>1, RequestAccepted DEF messageFromJson, requestFromJson, Ok, Failure
<1>2. CASE "method" \notin Keys(json)
  BY <1>2, ResponseAccepted DEF messageFromJson, responseFromJson, Ok, Failure
<1> QED
  BY <1>1, <1>2

\* And among the elements of a batch nothing else.
LEMMA ElementAccepted ==
    ASSUME NEW json
    PROVE  /\ ElementFromJson(json).ok \in BOOLEAN
           /\ ElementFromJson(json).ok <=> IsMessage(json)
<1>1. CASE json.kind = "object"
  <2>1. messageFromJson(json).ok \in BOOLEAN
    BY DEF messageFromJson, requestFromJson, responseFromJson, Ok, Failure
  <2> QED
    BY <1>1, <2>1, MessageAccepted DEF ElementFromJson
<1>2. CASE json.kind # "object"
  BY <1>2 DEF ElementFromJson, IsMessage, Failure
<1> QED
  BY <1>1, <1>2

\* Of the failures in a batch there is a first one.
LEMMA FirstFailure ==
    ASSUME NEW bad \in SUBSET Nat, bad # {}
    PROVE  \E i \in bad : \A j \in bad : i <= j
<1>1. PICK m \in bad : \A n \in bad : <<n, m>> \notin OpToRel(<, Nat)
  BY NatLessThanWellFounded, WFMin, Zenon
<1>2. ASSUME NEW n \in bad PROVE m <= n
  <2>1. ~(n < m)
    BY <1>1 DEF OpToRel
  <2> QED
    BY <2>1
<1> QED
  BY <1>2

\* A batch is read if it is not empty and all of it is.
LEMMA BatchAccepted ==
    ASSUME NEW json, json.kind = "array", NEW S, json.v \in Seq(S)
    PROVE  messageBatchFromJson(json).ok
            <=> json.v # <<>> /\ \A i \in DOMAIN json.v : IsMessage(json.v[i])
<1> DEFINE D == DOMAIN json.v
           decoded == [i \in D |-> ElementFromJson(json.v[i])]
           bad == {i \in D : ~decoded[i].ok}
           first == CHOOSE i \in bad : \A j \in bad : i <= j
<1>1. D \subseteq Nat
  OBVIOUS
<1>2. \A i \in D : (i \in bad) <=> ~IsMessage(json.v[i])
  BY ElementAccepted
<1>3. messageBatchFromJson(json)
        = IF json.v = <<>> THEN Failure("ProtocolError")
          ELSE IF bad = {} THEN Ok([i \in DOMAIN decoded |-> decoded[i].value])
          ELSE decoded[first]
  BY DEF messageBatchFromJson
<1>4. CASE json.v = <<>>
  BY <1>3, <1>4 DEF Failure
<1>5. CASE json.v # <<>> /\ bad = {}
  <2>1. messageBatchFromJson(json).ok
    BY <1>3, <1>5 DEF Ok
  <2> QED
    BY <2>1, <1>2, <1>5
<1>6. CASE json.v # <<>> /\ bad # {}
  <2>1. first \in bad
    <3>1. \E i \in bad : \A j \in bad : i <= j
      BY <1>1, <1>6, FirstFailure
    <3> QED
      BY <3>1
  <2>2. ~decoded[first].ok
    BY <2>1
  <2> QED
    BY <2>1, <2>2, <1>2, <1>3, <1>6
<1> QED
  BY <1>4, <1>5, <1>6

-----------------------------------------------------------------------------
(* JSON-RPC: what is sent is read back *)

\* Integers stay, and with them ids.
LEMMA IdKept ==
    /\ \A n \in Int : Truncate(2 * n) = n
    /\ \A id : IsId(id) => messageIdFromJson(id) = id /\ ValidId(id)
<1>1. \A n \in Int : Truncate(2 * n) = n
  BY DEF Truncate
<1>2. ASSUME NEW id, IsId(id) PROVE messageIdFromJson(id) = id /\ ValidId(id)
  <2>1. CASE id.kind = "number"
    <3>1. PICK n \in Int : id.v = 2 * n
      <4>1. id.v \in Int /\ id.v % 2 = 0
        BY <1>2, <2>1 DEF IsId
      <4>2. id.v \div 2 \in Int /\ id.v = 2 * (id.v \div 2)
        BY <4>1
      <4> QED
        BY <4>2
    <3>2. Truncate(id.v) = n
      BY <1>1, <3>1
    <3>3. id = Value("number", 2 * n)
      BY <1>2, <2>1, <3>1 DEF IsId
    <3>4. messageIdFromJson(id) = Value("number", 2 * n)
      BY <2>1, <3>2 DEF messageIdFromJson, Number
    <3> QED
      BY <3>3, <3>4, <2>1 DEF ValidId
  <2>2. CASE id.kind # "number"
    BY <1>2, <2>2 DEF IsId, messageIdFromJson, ValidId
  <2> QED
    BY <2>1, <2>2
<1> QED
  BY <1>1, <1>2

\* The version that is sent is the one that is asked for.
LEMMA VersionedFacts ==
    /\ Versioned.kind = "object" /\ Keys(Versioned) = {"jsonrpc"}
    /\ Versioned.v["jsonrpc"] = String("2.0")
<1>1. Keys(Object(<<>>)) = {}
  BY DEF Keys, Object, Value
<1> QED
  BY <1>1, PutFacts DEF Versioned, ProtocolVersion

\* A request or a notification is read as it was.
LEMMA RequestReadBack ==
    ASSUME NEW m, m.type = "request", MayBeSent(m)
    PROVE  /\ messageToJson(m).kind = "object"
           /\ messageFromJson(messageToJson(m)) = Ok(m)
<1> DEFINE a == PutSome(Versioned, "id", m.id)
           b == Put(a, "method", m.method)
           json == PutSome(b, "params", m.params)
<1>1. /\ m = [type |-> "request", id |-> m.id, method |-> m.method, params |-> m.params]
      /\ m.id = Nothing \/ (m.id = Some(m.id[1]) /\ IsId(m.id[1]))
      /\ m.method.kind = "string"
      /\ \/ m.params = Nothing
         \/ m.params = Some(m.params[1]) /\ m.params[1].kind \in {"object", "array"}
  BY DEF MayBeSent
<1>2. messageToJson(m) = json
  BY DEF messageToJson, RequestToJson
<1>3. /\ a.kind = "object"
      /\ Keys(a) = {"jsonrpc"} \union (IF m.id = Nothing THEN {} ELSE {"id"})
      /\ a.v["jsonrpc"] = String("2.0")
      /\ m.id # Nothing => a.v["id"] = m.id[1]
  BY VersionedFacts, PutSomeFacts
<1> HIDE DEF a
<1>4. /\ b.kind = "object"
      /\ Keys(b) = Keys(a) \union {"method"}
      /\ b.v["method"] = m.method /\ b.v["jsonrpc"] = String("2.0")
      /\ m.id # Nothing => b.v["id"] = m.id[1]
  BY <1>3, PutFacts
<1> HIDE DEF b
<1>5. /\ json.kind = "object"
      /\ Keys(json) = Keys(b) \union (IF m.params = Nothing THEN {} ELSE {"params"})
      /\ json.v["method"] = m.method /\ json.v["jsonrpc"] = String("2.0")
      /\ m.id # Nothing => json.v["id"] = m.id[1]
      /\ m.params # Nothing => json.v["params"] = m.params[1]
  BY <1>3, <1>4, PutSomeFacts
<1> HIDE DEF json
<1>6. /\ "method" \in Keys(json) /\ "jsonrpc" \in Keys(json)
      /\ ("id" \in Keys(json)) <=> m.id # Nothing
      /\ ("params" \in Keys(json)) <=> m.params # Nothing
  BY <1>3, <1>4, <1>5
<1>7. m.id # Nothing => ValidId(m.id[1]) /\ Some(messageIdFromJson(m.id[1])) = m.id
  BY <1>1, IdKept
<1>8. RequestFailure(json) = "none"
  BY <1>1, <1>5, <1>6, <1>7 DEF RequestFailure, ValidVersion, String, Value
<1>9. IdOf(json) = m.id
  BY <1>5, <1>6, <1>7 DEF IdOf
<1>10. ParamsOf(json) = m.params
  <2>1. CASE m.params = Nothing
    BY <2>1, <1>6 DEF ParamsOf, At
  <2>2. CASE m.params # Nothing
    <3>1. At(json, "params") = m.params
      BY <2>2, <1>1, <1>5, <1>6 DEF At
    <3>2. m.params[1].kind # "null"
      BY <2>2, <1>1
    <3> QED
      BY <3>1, <3>2 DEF ParamsOf
  <2> QED
    BY <2>1, <2>2
<1>11. messageFromJson(json)
         = Ok([type |-> "request", id |-> m.id, method |-> m.method, params |-> m.params])
  BY <1>5, <1>6, <1>8, <1>9, <1>10 DEF messageFromJson, requestFromJson
<1> QED
  BY <1>1, <1>2, <1>5, <1>11

\* Neither does a response lose its result.
LEMMA ResultReadBack ==
    ASSUME NEW m, m.type = "response", m.error = Nothing, MayBeSent(m)
    PROVE  /\ messageToJson(m).kind = "object"
           /\ messageFromJson(messageToJson(m)) = Ok(m)
<1> DEFINE a == Put(Versioned, "id", m.id[1])
           json == PutSome(a, "result", m.result)
<1>1. /\ m = createResponse(m.id[1], m.result[1])
      /\ IsId(m.id[1])
  BY DEF MayBeSent
<1>2. /\ m.result = Some(m.result[1]) /\ m.result # Nothing
      /\ m.id = Some(m.id[1]) /\ m.id # Nothing
  <2> DEFINE x == m.id[1]
             y == m.result[1]
  <2>1. m = createResponse(x, y)
    BY <1>1
  <2> HIDE DEF x, y
  <2>2. m.id = Some(x) /\ m.result = Some(y)
    BY <2>1 DEF createResponse
  <2> USE DEF x, y
  <2> QED
    BY <2>2 DEF Some, Nothing
<1>3. messageToJson(m) = json
  BY DEF messageToJson, ResponseToJson
<1>4. /\ a.kind = "object" /\ Keys(a) = {"jsonrpc", "id"}
      /\ a.v["jsonrpc"] = String("2.0") /\ a.v["id"] = m.id[1]
  BY VersionedFacts, PutFacts
<1> HIDE DEF a
<1>5. /\ json.kind = "object" /\ Keys(json) = {"jsonrpc", "id", "result"}
      /\ json.v["jsonrpc"] = String("2.0") /\ json.v["id"] = m.id[1]
      /\ json.v["result"] = m.result[1]
  BY <1>2, <1>4, PutSomeFacts
<1> HIDE DEF json
<1>6. ValidId(m.id[1]) /\ Some(messageIdFromJson(m.id[1])) = m.id
  BY <1>1, <1>2, IdKept
<1>7. ResponseFailure(json) = "none"
  BY <1>5, <1>6 DEF ResponseFailure, ValidVersion, OneOutcome, String, Value
<1>8. IdOf(json) = m.id /\ At(json, "result") = m.result /\ ErrorOf(json) = Nothing
  BY <1>2, <1>5, <1>6 DEF IdOf, At, ErrorOf
<1>9. messageFromJson(json)
        = Ok([type |-> "response", id |-> m.id, result |-> m.result, error |-> Nothing])
  BY <1>2, <1>5, <1>7, <1>8 DEF messageFromJson, responseFromJson
<1>10. m = [type |-> "response", id |-> m.id, result |-> m.result, error |-> Nothing]
  BY <1>1, <1>2 DEF createResponse
<1> QED
  BY <1>3, <1>5, <1>9, <1>10

\* An error loses its data only.
LEMMA ErrorReadBack ==
    ASSUME NEW m, m.type = "response", m.error # Nothing, MayBeSent(m)
    PROVE  /\ messageToJson(m).kind = "object"
           /\ messageFromJson(messageToJson(m)) = Ok(WithoutData(m))
<1> DEFINE error == m.error[1]
           a == Put(Versioned, "id", m.id[1])
           withData == PutSome(a, "data", error.data)
           withCode == Put(Object(<<>>), "code", Number(2 * error.code))
           fields == Put(withCode, "message", String(error.message))
           json == Put(withData, "error", fields)
           read == [code |-> error.code, message |-> error.message, data |-> Nothing]
<1>1. /\ m = createErrorResponse(m.id[1], error.code, error.message, error.data)
      /\ error.code \in Int /\ IsId(m.id[1])
  BY DEF MayBeSent
<1>2. /\ m.result = Nothing
      /\ m.id = Some(m.id[1]) /\ m.id # Nothing
      /\ m.error = Some([code |-> error.code, message |-> error.message, data |-> error.data])
      /\ m = [type |-> "response", id |-> m.id, result |-> Nothing, error |-> m.error]
  <2> DEFINE x == m.id[1]
             c == error.code
             t == error.message
             d == error.data
  <2>1. m = createErrorResponse(x, c, t, d)
    BY <1>1
  <2> HIDE DEF x, c, t, d
  <2>2. /\ m.id = Some(x) /\ m.result = Nothing
        /\ m.error = Some([code |-> c, message |-> t, data |-> d])
        /\ m = [type |-> "response", id |-> m.id, result |-> Nothing, error |-> m.error]
    BY <2>1 DEF createErrorResponse
  <2>3. m.id # Nothing
    BY <2>2 DEF Some, Nothing
  <2> USE DEF x, c, t, d
  <2> QED
    BY <2>2, <2>3
<1>3. messageToJson(m) = json
  <2>1. PutSome(a, "result", m.result) = a
    BY <1>2 DEF PutSome
  <2>2. messageToJson(m) = ErrorToJson(a, error)
    BY <2>1 DEF messageToJson, ResponseToJson
  <2>3. ErrorToJson(a, error) = json
    BY DEF ErrorToJson
  <2> QED
    BY <2>2, <2>3
<1>4. /\ a.kind = "object" /\ Keys(a) = {"jsonrpc", "id"}
      /\ a.v["jsonrpc"] = String("2.0") /\ a.v["id"] = m.id[1]
  BY VersionedFacts, PutFacts
<1> HIDE DEF a
<1>5. /\ Keys(withData) \subseteq {"jsonrpc", "id", "data"}
      /\ {"jsonrpc", "id"} \subseteq Keys(withData)
      /\ withData.v["jsonrpc"] = String("2.0") /\ withData.v["id"] = m.id[1]
  BY <1>4, PutSomeFacts
<1> HIDE DEF withData
<1>6. Keys(withCode) = {"code"} /\ withCode.v["code"] = Number(2 * error.code)
  <2>1. Keys(Object(<<>>)) = {}
    BY DEF Keys, Object, Value
  <2> QED
    BY <2>1, PutFacts
<1> HIDE DEF withCode
<1>7. /\ fields.kind = "object" /\ Keys(fields) = {"code", "message"}
      /\ fields.v["code"] = Number(2 * error.code)
      /\ fields.v["message"] = String(error.message)
  BY <1>6, PutFacts
<1> HIDE DEF fields
<1>8. /\ json.kind = "object"
      /\ Keys(json) = Keys(withData) \union {"error"}
      /\ json.v["error"] = fields
      /\ json.v["jsonrpc"] = String("2.0") /\ json.v["id"] = m.id[1]
  BY <1>5, PutFacts
<1> HIDE DEF json
<1>9. /\ {"jsonrpc", "id", "error"} \subseteq Keys(json)
      /\ "method" \notin Keys(json) /\ "result" \notin Keys(json)
  BY <1>5, <1>8
<1>10. ValidId(m.id[1]) /\ Some(messageIdFromJson(m.id[1])) = m.id
  BY <1>1, <1>2, IdKept
<1>11. ErrorFailure(fields) = "none"
  BY <1>7 DEF ErrorFailure, Number, String, Value
<1>12. ResponseFailure(json) = "none"
  BY <1>8, <1>9, <1>10, <1>11 DEF ResponseFailure, ValidVersion, OneOutcome, String, Value
<1>13. ErrorOf(json) = Some(read)
  <2>1. /\ Truncate(fields.v["code"].v) = error.code
        /\ fields.v["message"].v = error.message
        /\ At(fields, "data") = Nothing
    <3>1. fields.v["code"].v = 2 * error.code /\ fields.v["message"].v = error.message
      BY <1>7 DEF Number, String, Value
    <3>2. Truncate(2 * error.code) = error.code
      BY <1>1, IdKept
    <3> QED
      BY <3>1, <3>2, <1>7 DEF At
  <2> QED
    BY <2>1, <1>8, <1>9 DEF ErrorOf
<1>14. IdOf(json) = m.id /\ At(json, "result") = Nothing
  BY <1>8, <1>9, <1>10 DEF IdOf, At
<1>15. messageFromJson(json)
         = Ok([type |-> "response", id |-> m.id, result |-> Nothing, error |-> Some(read)])
  BY <1>2, <1>9, <1>12, <1>13, <1>14 DEF messageFromJson, responseFromJson
<1>16. WithoutData(m)
         = [type |-> "response", id |-> m.id, result |-> Nothing, error |-> Some(read)]
  <2>1. [error EXCEPT !.data = Nothing] = read
    BY <1>2 DEF Some
  <2>2. WithoutData(m) = [m EXCEPT !.error = Some(read)]
    BY <2>1 DEF WithoutData
  <2> QED
    BY <2>2, <1>2
<1> QED
  BY <1>3, <1>8, <1>15, <1>16

\* What is left out stays left out.
LEMMA WithoutDataTwice ==
    ASSUME NEW m, MayBeSent(m)
    PROVE  WithoutData(WithoutData(m)) = WithoutData(m)
<1>1. CASE m.type = "response" /\ m.error # Nothing
  <2> DEFINE error == m.error[1]
             short == [m EXCEPT !.error = Some([error EXCEPT !.data = Nothing])]
  <2>1. /\ m = [type |-> m.type, id |-> m.id, result |-> m.result, error |-> m.error]
        /\ error = [code |-> error.code, message |-> error.message, data |-> error.data]
    BY <1>1 DEF MayBeSent, createErrorResponse, Some
  <2>2. WithoutData(m) = short
    BY <1>1 DEF WithoutData
  <2>3. short.type = "response" /\ short.error = Some([error EXCEPT !.data = Nothing])
    BY <1>1, <2>1
  <2>4. short.error # Nothing /\ short.error[1] = [error EXCEPT !.data = Nothing]
    BY <2>3 DEF Some, Nothing
  <2>5. [short.error[1] EXCEPT !.data = Nothing] = [error EXCEPT !.data = Nothing]
    BY <2>1, <2>4
  <2>6. [short EXCEPT !.error = Some([error EXCEPT !.data = Nothing])] = short
    BY <2>1
  <2>7. WithoutData(short) = short
    BY <2>3, <2>4, <2>5, <2>6 DEF WithoutData
  <2> QED
    BY <2>2, <2>7
<1>2. CASE ~(m.type = "response" /\ m.error # Nothing)
  BY <1>2 DEF WithoutData
<1> QED
  BY <1>1, <1>2

\* Every message that is sent is read, and it is the one that was sent.
LEMMA MessageReadBack ==
    ASSUME NEW m, MayBeSent(m)
    PROVE  /\ messageToJson(m).kind = "object"
           /\ messageFromJson(messageToJson(m)).ok
           /\ WithoutData(messageFromJson(messageToJson(m)).value) = WithoutData(m)
<1>1. CASE m.type = "request"
  BY <1>1, RequestReadBack DEF Ok
<1>2. CASE m.type = "response" /\ m.error = Nothing
  BY <1>2, ResultReadBack DEF Ok
<1>3. CASE m.type = "response" /\ m.error # Nothing
  BY <1>3, ErrorReadBack, WithoutDataTwice DEF Ok
<1> QED
  BY <1>1, <1>2, <1>3 DEF MayBeSent

\* So is every batch.
LEMMA BatchReadBack ==
    ASSUME NEW b \in Batches
    PROVE  LET json == messageBatchToJson(b)
               read == messageBatchFromJson(json)
           IN  /\ json.kind = "array" /\ json.v \in Seq({json.v[i] : i \in DOMAIN json.v})
               /\ read.ok
               /\ [i \in DOMAIN read.value |-> WithoutData(read.value[i])]
                    = [i \in DOMAIN b |-> WithoutData(b[i])]
<1> DEFINE json == messageBatchToJson(b)
           D == DOMAIN b
           decoded == [i \in DOMAIN json.v |-> ElementFromJson(json.v[i])]
<1>1. b \in Seq(Messages) /\ b # <<>> /\ \A i \in D : MayBeSent(b[i])
  <2>1. b \in Seq(Messages) /\ b # <<>>
    BY BatchesAssumption
  <2> QED
    BY <2>1, MessagesAssumption
<1>2. /\ json.kind = "array" /\ json.v = [i \in D |-> messageToJson(b[i])]
  BY DEF messageBatchToJson, Array, Value
<1> HIDE DEF json
<1>3. D = 1 .. Len(b) /\ Len(b) \in Nat /\ Len(b) # 0
  BY <1>1
<1>4. json.v \in Seq({json.v[i] : i \in DOMAIN json.v}) /\ DOMAIN json.v = D /\ json.v # <<>>
  <2>1. DOMAIN json.v = D /\ json.v = [i \in 1 .. Len(b) |-> json.v[i]]
    BY <1>2, <1>3
  <2>2. json.v \in Seq({json.v[i] : i \in DOMAIN json.v})
    BY <2>1, <1>3
  <2>3. 1 \in DOMAIN json.v
    BY <2>1, <1>3
  <2> QED
    BY <2>1, <2>2, <2>3
<1>5. \A i \in D : /\ decoded[i].ok
                   /\ WithoutData(decoded[i].value) = WithoutData(b[i])
  <2> SUFFICES ASSUME NEW i \in D
               PROVE  decoded[i].ok /\ WithoutData(decoded[i].value) = WithoutData(b[i])
    OBVIOUS
  <2>1. json.v[i] = messageToJson(b[i]) /\ MayBeSent(b[i])
    BY <1>1, <1>2
  <2>2. decoded[i] = messageFromJson(messageToJson(b[i]))
    BY <1>4, <2>1, MessageReadBack DEF ElementFromJson
  <2> QED
    BY <2>1, <2>2, MessageReadBack
<1>6. messageBatchFromJson(json) = Ok([i \in D |-> decoded[i].value])
  <2>1. {i \in DOMAIN decoded : ~decoded[i].ok} = {} /\ DOMAIN decoded = D
    BY <1>4, <1>5
  <2> QED
    BY <1>4, <2>1 DEF messageBatchFromJson
<1> DEFINE read == messageBatchFromJson(json)
<1>7. /\ read.ok /\ DOMAIN read.value = D
      /\ \A i \in D : WithoutData(read.value[i]) = WithoutData(b[i])
  <2> HIDE DEF decoded
  <2>1. read.ok /\ read.value = [i \in D |-> decoded[i].value]
    BY <1>6 DEF Ok
  <2> HIDE DEF read
  <2> QED
    BY <1>5, <2>1
<1> HIDE DEF read
<1>8. [i \in DOMAIN read.value |-> WithoutData(read.value[i])] = [i \in D |-> WithoutData(b[i])]
  BY <1>7
<1> QED
  BY <1>2, <1>4, <1>7, <1>8 DEF json, read

-----------------------------------------------------------------------------
(* JSON-RPC: the invariants *)

\* What is on its way was sent here or by another peer.
Origin ==
    \/ sent = Nothing /\ wire \in Received
    \/ \E m \in Messages : sent = Some(m) /\ wire = messageToJson(m)
    \/ \E b \in Batches : sent = Some(b) /\ wire = messageBatchToJson(b)

\* The inductive invariant: nothing is read but what is on its way.
RpcInv ==
    /\ stage \in {"send", "wire", "read"}
    /\ stage = "send" => sent = Nothing
    /\ stage # "send" => Origin
    /\ stage = "read" => got = FromJson(wire)

\* Sending, arriving and reading, src/lsp/jsonrpc/jsonrpc.cpp, keep it.
THEOREM RpcInvariant == RpcSpec => []RpcInv
<1>1. RpcInit => RpcInv
  BY DEF RpcInit, RpcInv
<1>2. RpcInv /\ [RpcNext]_rpcVars => RpcInv'
  <2> SUFFICES ASSUME RpcInv, [RpcNext]_rpcVars PROVE RpcInv'
    OBVIOUS
  <2>1. CASE SendMessage
    BY <2>1 DEF RpcInv, SendMessage, Origin
  <2>2. CASE SendBatch
    BY <2>2 DEF RpcInv, SendBatch, Origin
  <2>3. CASE Arrive
    BY <2>3 DEF RpcInv, Arrive, Origin
  <2>4. CASE Read
    <3>1. Origin'
      <4>1. Origin /\ sent' = sent /\ wire' = wire
        BY <2>4 DEF RpcInv, Read
      <4> QED
        BY <4>1 DEF Origin
    <3>2. got' = FromJson(wire') /\ stage' = "read"
      BY <2>4 DEF Read, FromJson
    <3> QED
      BY <3>1, <3>2 DEF RpcInv
  <2>5. CASE UNCHANGED rpcVars
    BY <2>5 DEF RpcInv, rpcVars, Origin, FromJson
  <2> QED
    BY <2>1, <2>2, <2>3, <2>4, <2>5 DEF RpcNext
<1> QED
  BY <1>1, <1>2, PTL DEF RpcSpec

\* The v of every array that is read is a sequence.
LEMMA WireFacts ==
    ASSUME RpcInv, stage = "read", wire.kind = "array"
    PROVE  wire.v \in Seq({wire.v[i] : i \in DOMAIN wire.v})
<1>1. CASE wire \in Received
  BY <1>1, ReceivedAssumption
<1>2. ASSUME NEW m \in Messages, wire = messageToJson(m) PROVE FALSE
  BY <1>2, MessageReadBack, MessagesAssumption
<1>3. ASSUME NEW b \in Batches, wire = messageBatchToJson(b)
      PROVE  wire.v \in Seq({wire.v[i] : i \in DOMAIN wire.v})
  BY <1>3, BatchReadBack
<1> QED
  BY <1>1, <1>2, <1>3 DEF RpcInv, Origin

\* src/lsp/jsonrpc/jsonrpc.cpp:37-132: whatever JSON arrives, it is taken for a message or
\* a batch exactly if it is one.
THEOREM OnlyTheProtocol == RpcSpec => []AcceptsTheProtocol
<1>1. RpcInv => AcceptsTheProtocol
  <2> SUFFICES ASSUME RpcInv, stage = "read"
               PROVE  got.ok <=> \/ IsMessage(wire)
                                 \/ /\ wire.kind = "array" /\ wire.v # <<>>
                                    /\ \A i \in DOMAIN wire.v : IsMessage(wire.v[i])
    BY DEF AcceptsTheProtocol
  <2>1. got = FromJson(wire)
    BY DEF RpcInv
  <2>2. CASE wire.kind = "object"
    <3>1. got = messageFromJson(wire)
      BY <2>1, <2>2 DEF FromJson
    <3> QED
      BY <2>2, <3>1, MessageAccepted
  <2>3. CASE wire.kind = "array"
    <3>1. got = messageBatchFromJson(wire)
      BY <2>1, <2>3 DEF FromJson
    <3>2. ~IsMessage(wire)
      BY <2>3 DEF IsMessage
    <3> QED
      BY <2>3, <3>1, <3>2, WireFacts, BatchAccepted
  <2>4. CASE wire.kind \notin {"object", "array"}
    BY <2>1, <2>4 DEF FromJson, Failure, IsMessage
  <2> QED
    BY <2>2, <2>3, <2>4
<1> QED
  BY <1>1, RpcInvariant, PTL

\* src/lsp/jsonrpc/jsonrpc.cpp:134-186: a message or batch of this framework is read as
\* what was sent.
THEOREM SentIsReceived == RpcSpec => []RoundTrip
<1>1. RpcInv => RoundTrip
  <2> SUFFICES ASSUME RpcInv, stage = "read", sent # Nothing
               PROVE  /\ got.ok
                      /\ IF wire.kind = "object"
                         THEN WithoutData(got.value) = WithoutData(sent[1])
                         ELSE [i \in DOMAIN got.value |-> WithoutData(got.value[i])]
                                = [i \in DOMAIN sent[1] |-> WithoutData(sent[1][i])]
    BY DEF RoundTrip
  <2>1. got = FromJson(wire)
    BY DEF RpcInv
  <2>2. CASE \E m \in Messages : sent = Some(m) /\ wire = messageToJson(m)
    <3>1. PICK m \in Messages : sent = Some(m) /\ wire = messageToJson(m)
      BY <2>2
    <3>2. /\ messageToJson(m).kind = "object"
          /\ messageFromJson(messageToJson(m)).ok
          /\ WithoutData(messageFromJson(messageToJson(m)).value) = WithoutData(m)
      <4>1. MayBeSent(m)
        BY MessagesAssumption
      <4> QED
        BY <4>1, MessageReadBack, Zenon
    <3>3. got = messageFromJson(messageToJson(m)) /\ sent[1] = m
      BY <2>1, <3>1, <3>2 DEF FromJson, Some
    <3>4. wire.kind = "object" /\ got.ok /\ WithoutData(got.value) = WithoutData(sent[1])
      BY <3>1, <3>2, <3>3, Zenon
    <3> QED
      BY <3>4
  <2>3. CASE \E b \in Batches : sent = Some(b) /\ wire = messageBatchToJson(b)
    <3>1. PICK b \in Batches : sent = Some(b) /\ wire = messageBatchToJson(b)
      BY <2>3
    <3> DEFINE read == messageBatchFromJson(messageBatchToJson(b))
    <3>2. /\ messageBatchToJson(b).kind = "array" /\ read.ok
          /\ [i \in DOMAIN read.value |-> WithoutData(read.value[i])]
               = [i \in DOMAIN b |-> WithoutData(b[i])]
      BY BatchReadBack, Zenon
    <3>3. wire.kind = "array" /\ got = read /\ sent[1] = b
      BY <2>1, <3>1, <3>2 DEF FromJson, Some
    <3> HIDE DEF read
    <3>4. /\ wire.kind # "object" /\ got.ok
          /\ [i \in DOMAIN got.value |-> WithoutData(got.value[i])]
               = [i \in DOMAIN sent[1] |-> WithoutData(sent[1][i])]
      <4>1. wire.kind # "object"
        BY <3>3
      <4> QED
        BY <3>2, <3>3, <4>1, Zenon
    <3> QED
      BY <3>4, Zenon
  <2> QED
    BY <2>2, <2>3 DEF RpcInv, Origin
<1> QED
  BY <1>1, RpcInvariant, PTL

=============================================================================
