-------------------------- MODULE ConnectionProofs --------------------------
(***************************************************************************)
(* Proofs about Connection, for any number of readers and writers, any     *)
(* contents and any bound.                                                 *)
(***************************************************************************)
EXTENDS Connection, FiniteSetTheorems, SequenceTheorems, WellFoundedInduction, TLAPS

-----------------------------------------------------------------------------
(* Sequences of sequences, one after the other *)

\* Induction, for a set: its smallest exception would not be one.
LEMMA SetInduction ==
    ASSUME NEW T, 0 \in T, \A n \in Nat : n \in T => n + 1 \in T
    PROVE  Nat \subseteq T
<1> SUFFICES ASSUME Nat \ T # {} PROVE FALSE
  OBVIOUS
<1> PICK X : X = Nat \ T
  OBVIOUS
<1>1. X \subseteq Nat /\ X # {}
  OBVIOUS
<1>2. PICK m \in X : \A n \in X : <<n, m>> \notin OpToRel(<, Nat)
  BY <1>1, NatLessThanWellFounded, WFMin, Zenon
<1>3. ASSUME NEW k \in Nat, NEW n \in Nat, <<n, k>> \notin OpToRel(<, Nat)
      PROVE  ~(n < k)
  BY <1>3 DEF OpToRel
<1>4. m \in Nat /\ m \notin T /\ \A n \in Nat : n \notin T => ~(n < m)
  <2>1. \A n \in X : n \in Nat /\ ~(n < m)
    BY <1>1, <1>2, <1>3, Zenon
  <2> QED
    BY <2>1
<1>5. m # 0 /\ m - 1 \in Nat /\ m - 1 < m /\ (m - 1) + 1 = m
  BY <1>4
<1> QED
  BY <1>4, <1>5

\* The length and the elements of a sequence.
LEMMA SeqFacts ==
    ASSUME NEW Q, NEW s \in Seq(Q)
    PROVE  /\ Len(s) \in Nat /\ DOMAIN s = 1 .. Len(s)
           /\ \A i \in 1 .. Len(s) : s[i] \in Q
           /\ s # <<>> <=> Len(s) # 0
OBVIOUS

\* And with one more.
LEMMA AppendFacts ==
    ASSUME NEW Q, NEW s \in Seq(Q), NEW x \in Q
    PROVE  /\ Append(s, x) \in Seq(Q) /\ Len(Append(s, x)) = Len(s) + 1
           /\ Append(s, x)[Len(s) + 1] = x /\ Append(s, x) # <<>>
           /\ \A i \in 1 .. Len(s) : Append(s, x)[i] = s[i]
OBVIOUS

\* f is the concatenation of the first n of the sequences, for each n.
Joins(s, f) ==
    /\ DOMAIN f = 1 .. Len(s)
    /\ \A i \in 1 .. Len(s) : f[i] = IF i = 1 THEN s[i] ELSE f[i - 1] \o s[i]

\* The same for the first k of them.
JoinsUpto(s, k, f) ==
    \A i \in 1 .. k : f[i] = IF i = 1 THEN s[i] ELSE f[i - 1] \o s[i]
HasJoins(S, s, k) == \E f \in [1 .. k -> Seq(S)] : JoinsUpto(s, k, f)

\* There is one concatenation of them all.
LEMMA JoinsExists ==
    ASSUME NEW S, NEW s \in Seq(Seq(S))
    PROVE  \E f \in [1 .. Len(s) -> Seq(S)] : Joins(s, f)
<1> PICK n : n = Len(s)
  OBVIOUS
<1>1. n \in Nat /\ \A i \in 1 .. n : s[i] \in Seq(S)
  BY SeqFacts
<1> DEFINE T == {k \in Nat : k <= n => HasJoins(S, s, k)}
<1>2. 0 \in T
  <2>1. \E f : f \in [1 .. 0 -> Seq(S)]
    <3>1. [i \in 1 .. 0 |-> <<>>] \in [1 .. 0 -> Seq(S)]
      OBVIOUS
    <3> QED
      BY <3>1
  <2>2. \A f : JoinsUpto(s, 0, f)
    BY DEF JoinsUpto
  <2>3. HasJoins(S, s, 0)
    BY <2>1, <2>2 DEF HasJoins
  <2> QED
    BY <2>3
<1>3. ASSUME NEW k \in Nat, k <= n => HasJoins(S, s, k), k + 1 <= n
      PROVE  HasJoins(S, s, k + 1)
  <2>1. k <= n
    BY <1>1, <1>3
  <2>2. PICK f \in [1 .. k -> Seq(S)] : JoinsUpto(s, k, f)
    BY <1>3, <2>1 DEF HasJoins
  <2> PICK last : last = IF k = 0 THEN s[1] ELSE f[k] \o s[k + 1]
    OBVIOUS
  <2> PICK g : g = [i \in 1 .. k + 1 |-> IF i = k + 1 THEN last ELSE f[i]]
    OBVIOUS
  <2>3. last \in Seq(S)
    <3>1. k # 0 => f[k] \in Seq(S) /\ s[k + 1] \in Seq(S)
      BY <1>1, <1>3
    <3>2. k # 0 => f[k] \o s[k + 1] \in Seq(S)
      BY <3>1
    <3>3. k = 0 => s[1] \in Seq(S)
      BY <1>1, <1>3
    <3> QED
      BY <3>2, <3>3
  <2>4. \A i \in 1 .. k : i \in 1 .. k + 1 /\ i # k + 1 /\ (i # 1 => i - 1 \in 1 .. k)
    OBVIOUS
  <2>5. \A i \in 1 .. k : g[i] = f[i]
    BY <2>4
  <2>6. \A i \in 1 .. k : i # 1 => g[i - 1] = f[i - 1]
    BY <2>4, <2>5
  <2>7. g[k + 1] = last /\ k + 1 \in 1 .. k + 1
    OBVIOUS
  <2>8. k # 0 => g[k] = f[k]
    BY <2>5
  <2>9. \A i \in 1 .. k : g[i] = IF i = 1 THEN s[i] ELSE g[i - 1] \o s[i]
    BY <2>2, <2>5, <2>6 DEF JoinsUpto
  <2>10. (k + 1) - 1 = k /\ (k + 1 = 1 <=> k = 0)
    OBVIOUS
  <2>11. g[k + 1] = IF k + 1 = 1 THEN s[k + 1] ELSE g[(k + 1) - 1] \o s[k + 1]
    BY <2>7, <2>8, <2>10
  <2>12. \A i \in 1 .. k + 1 : i \in 1 .. k \/ i = k + 1
    OBVIOUS
  <2>13. JoinsUpto(s, k + 1, g)
    BY <2>9, <2>11, <2>12, Zenon DEF JoinsUpto
  <2>14. g \in [1 .. k + 1 -> Seq(S)]
    <3>1. \A i \in 1 .. k + 1 : g[i] \in Seq(S)
      BY <2>3, <2>5, <2>7, <2>12
    <3> QED
      BY <3>1
  <2> QED
    BY <2>13, <2>14 DEF HasJoins
<1>4. Nat \subseteq T
  <2>1. \A k \in Nat : k \in T => k + 1 \in T
    BY <1>3
  <2> HIDE DEF T
  <2> QED
    BY <1>2, <2>1, SetInduction
<1>5. HasJoins(S, s, n)
  BY <1>1, <1>4
<1> QED
  BY <1>5 DEF HasJoins, JoinsUpto, Joins

\* The sequences s are the first of the sequences t.
Begins(s, t) ==
    /\ Len(s) \in Nat /\ Len(t) \in Nat /\ Len(s) <= Len(t)
    /\ \A i \in 1 .. Len(s) : s[i] = t[i]

Same(s, f, g) == \A i \in 1 .. Len(s) : f[i] = g[i]

\* And no other: of sequences that begin alike the concatenations begin alike.
LEMMA JoinsAgree ==
    \A s, t, f, g : Begins(s, t) /\ Joins(s, f) /\ Joins(t, g) => Same(s, f, g)
<1> SUFFICES ASSUME NEW s, NEW t, NEW f, NEW g, Begins(s, t), Joins(s, f), Joins(t, g)
             PROVE  \A i \in 1 .. Len(s) : f[i] = g[i]
  BY DEF Same
<1> USE DEF Begins
<1> PICK n : n = Len(s)
  OBVIOUS
<1> DEFINE T == {k \in Nat : k \in 1 .. n => f[k] = g[k]}
<1>1. 0 \in T
  OBVIOUS
<1>2. ASSUME NEW k \in Nat, k \in T PROVE k + 1 \in T
  <2> SUFFICES ASSUME k + 1 \in 1 .. n PROVE f[k + 1] = g[k + 1]
    OBVIOUS
  <2>1. k # 0 => f[k] = g[k]
    BY <1>2
  <2>2. k + 1 \in 1 .. Len(s) /\ k + 1 \in 1 .. Len(t) /\ s[k + 1] = t[k + 1]
    OBVIOUS
  <2>3. /\ f[k + 1] = IF k + 1 = 1 THEN s[k + 1] ELSE f[(k + 1) - 1] \o s[k + 1]
        /\ g[k + 1] = IF k + 1 = 1 THEN t[k + 1] ELSE g[(k + 1) - 1] \o t[k + 1]
    BY <2>2 DEF Joins
  <2>4. (k + 1) - 1 = k
    OBVIOUS
  <2> QED
    BY <2>1, <2>2, <2>3, <2>4
<1>3. Nat \subseteq T
  <2> HIDE DEF T
  <2> QED
    BY <1>1, <1>2, SetInduction
<1> QED
  BY <1>3

\* FlattenSeq is the last of them.
LEMMA FlattenIsJoin ==
    ASSUME NEW S, NEW s \in Seq(Seq(S)), s # <<>>, NEW f, Joins(s, f)
    PROVE  FlattenSeq(s) = f[Len(s)]
<1> DEFINE flatten == CHOOSE g : g = [i \in 1 .. Len(s) |->
                            IF i = 1 THEN s[i] ELSE g[i - 1] \o s[i]]
<1>1. Len(s) \in Nat /\ Len(s) # 0
  OBVIOUS
<1>2. FlattenSeq(s) = flatten[Len(s)]
  BY <1>1 DEF FlattenSeq
<1>3. PICK h \in [1 .. Len(s) -> Seq(S)] : Joins(s, h)
  BY JoinsExists
<1>4. h = [i \in 1 .. Len(s) |-> IF i = 1 THEN s[i] ELSE h[i - 1] \o s[i]]
  BY <1>3 DEF Joins
<1>5. flatten = [i \in 1 .. Len(s) |-> IF i = 1 THEN s[i] ELSE flatten[i - 1] \o s[i]]
  BY <1>4
<1> HIDE DEF flatten
<1>6. Joins(s, flatten)
  BY <1>5 DEF Joins
<1>7. \A i \in 1 .. Len(s) : flatten[i] = f[i]
  <2>1. Begins(s, s)
    BY <1>1 DEF Begins
  <2> QED
    BY <1>6, <2>1, JoinsAgree DEF Same
<1> QED
  BY <1>1, <1>2, <1>7

\* What is put together from sequences is one.
LEMMA FlattenType ==
    ASSUME NEW S, NEW s \in Seq(Seq(S))
    PROVE  FlattenSeq(s) \in Seq(S)
<1>1. CASE s = <<>>
  BY <1>1 DEF FlattenSeq
<1>2. CASE s # <<>>
  <2>1. PICK f \in [1 .. Len(s) -> Seq(S)] : Joins(s, f)
    BY JoinsExists
  <2>2. FlattenSeq(s) = f[Len(s)]
    BY <1>2, <2>1, FlattenIsJoin
  <2>3. Len(s) \in 1 .. Len(s)
    BY <1>2, SeqFacts
  <2> QED
    BY <2>1, <2>2, <2>3
<1> QED
  BY <1>1, <1>2

\* One more sequence at the end of the sequences.
LEMMA FlattenFacts ==
    ASSUME NEW S, NEW s \in Seq(Seq(S)), NEW x \in Seq(S)
    PROVE  /\ FlattenSeq(s) \in Seq(S)
           /\ FlattenSeq(Append(s, x)) = FlattenSeq(s) \o x
<1> PICK n : n = Len(s)
  OBVIOUS
<1> PICK t : t = Append(s, x)
  OBVIOUS
<1>1. /\ n \in Nat /\ t \in Seq(Seq(S)) /\ Len(t) = n + 1 /\ t[n + 1] = x /\ t # <<>>
      /\ \A i \in 1 .. n : t[i] = s[i]
  BY SeqFacts, AppendFacts
<1>2. PICK g \in [1 .. n + 1 -> Seq(S)] : Joins(t, g)
  BY <1>1, JoinsExists
<1>3. FlattenSeq(t) = g[n + 1]
  BY <1>1, <1>2, FlattenIsJoin
<1>4. CASE s = <<>>
  <2>1. n = 0 /\ FlattenSeq(s) = <<>>
    BY <1>4 DEF FlattenSeq
  <2>2. g[n + 1] = x
    BY <1>1, <1>2, <2>1 DEF Joins
  <2> QED
    BY <1>3, <2>1, <2>2
<1>5. CASE s # <<>>
  <2>1. PICK f \in [1 .. n -> Seq(S)] : Joins(s, f)
    BY JoinsExists
  <2>2. FlattenSeq(s) = f[n] /\ n \in 1 .. n
    BY <1>1, <1>5, <2>1, FlattenIsJoin
  <2>3. \A i \in 1 .. n : f[i] = g[i]
    <3>1. Begins(s, t)
      BY <1>1 DEF Begins
    <3>2. Same(s, f, g)
      BY <1>2, <2>1, <3>1, JoinsAgree
    <3> QED
      BY <3>2, Zenon DEF Same
  <2>4. g[n + 1] = g[n] \o x
    <3>1. n + 1 \in 1 .. Len(t) /\ n + 1 # 1 /\ (n + 1) - 1 = n
      BY <1>1, <2>2
    <3>2. g[n + 1] = g[(n + 1) - 1] \o t[n + 1]
      BY <1>2, <3>1 DEF Joins
    <3> QED
      BY <1>1, <3>1, <3>2
  <2> QED
    BY <1>3, <2>1, <2>2, <2>3, <2>4
<1> QED
  BY <1>4, <1>5

-----------------------------------------------------------------------------
(* Characters and frames *)

\* The marks and the header lines are characters, and so is every byte of a content.
LEMMA CharsFacts ==
    /\ CR \in Chars /\ LF \in Chars /\ Eof \in Chars /\ Nul \in Chars
    /\ Lines \subseteq Chars /\ \A n \in Nat : Length(n) \in Lines
    /\ GoodType \in Lines
    /\ \A c \in Contents : \A n \in Nat : Char(c, n) \in Chars
<1>1. /\ LF \in Lines /\ Eof \in Lines /\ GoodType \in Lines
      /\ \A n \in Nat : Length(n) \in Lines
  BY DEF Lines, FieldLines, Length, Char
<1> QED
  BY <1>1 DEF Chars, Char

\* The bytes of a content are characters.
LEMMA BytesFacts ==
    ASSUME NEW c \in Contents
    PROVE  Bytes(c) \in Seq(Chars) /\ Len(Bytes(c)) = Size[c] /\ Size[c] \in Nat
<1>1. Size[c] \in Nat
  BY ContentsAssumption
<1>2. \A i \in 1 .. Size[c] : Char(c, i) \in Chars
  BY <1>1, CharsFacts
<1> QED
  BY <1>1, <1>2 DEF Bytes

\* The lines of a header with their line ends.
Ended(lines) == [i \in DOMAIN lines |-> <<lines[i], CR, LF>>]

\* A frame is its lines, the empty line and the bytes of its content.
LEMMA EncodeFacts ==
    ASSUME NEW lines \in Seq(Lines), NEW c \in Contents
    PROVE  /\ Ended(lines) \in Seq(Seq(Chars))
           /\ FlattenSeq(Ended(lines)) \in Seq(Chars)
           /\ Encode(lines, c) = FlattenSeq(Ended(lines)) \o <<CR, LF>> \o Bytes(c)
           /\ Encode(lines, c) \in Seq(Chars)
<1>1. \A i \in DOMAIN lines : <<lines[i], CR, LF>> \in Seq(Chars)
  BY CharsFacts
<1>2. Ended(lines) \in Seq(Seq(Chars))
  <2> PICK Q : Q = Seq(Chars)
    OBVIOUS
  <2>1. DOMAIN lines = 1 .. Len(lines) /\ Len(lines) \in Nat
    OBVIOUS
  <2>2. \A i \in 1 .. Len(lines) : <<lines[i], CR, LF>> \in Q
    BY <1>1, <2>1
  <2>3. [i \in 1 .. Len(lines) |-> <<lines[i], CR, LF>>] \in Seq(Q)
    BY <2>1, <2>2
  <2> QED
    BY <2>1, <2>3 DEF Ended
<1>3. FlattenSeq(Ended(lines)) \in Seq(Chars)
  BY <1>2, FlattenType
<1>4. Encode(lines, c) = FlattenSeq(Ended(lines)) \o <<CR, LF>> \o Bytes(c)
  BY DEF Encode, Ended
<1>5. <<CR, LF>> \in Seq(Chars)
  BY CharsFacts
<1>6. FlattenSeq(Ended(lines)) \o <<CR, LF>> \in Seq(Chars)
  BY <1>3, <1>5
<1>7. Bytes(c) \in Seq(Chars)
  BY BytesFacts
<1> QED
  BY <1>2, <1>3, <1>4, <1>6, <1>7

\* What our own writer and the peer send are characters.
LEMMA FrameFacts ==
    /\ \A c \in Contents : FrameOf(c) \in Seq(Chars)
    /\ \A f \in Frames : Encode(f.lines, f.content) \in Seq(Chars)
<1>1. ASSUME NEW c \in Contents PROVE FrameOf(c) \in Seq(Chars)
  <2>1. Length(Size[c]) \in Lines /\ GoodType \in Lines
    BY BytesFacts, CharsFacts
  <2>2. <<Length(Size[c]), GoodType>> \in Seq(Lines)
    BY <2>1
  <2> QED
    BY <2>2, EncodeFacts DEF FrameOf
<1>2. \A f \in Frames : Encode(f.lines, f.content) \in Seq(Chars)
  BY CharsAssumption, EncodeFacts
<1> QED
  BY <1>1, <1>2


-----------------------------------------------------------------------------
(* The two mutexes *)

Ends == {"none", "message", "written", "ConnectionError", "ParseError", "ProtocolError"}

\* Who is where, and holds which mutex: the part of TypeOK that is about threads.
Places ==
    /\ pc \in [Threads -> {"idle", "parse", "report", "write"} \union Reading]
    /\ ended \in [Threads -> Ends]
    /\ readLock \in {<<>>} \union {<<r>> : r \in Readers}
    /\ writeLock \in {<<>>} \union {<<t>> : t \in Threads}
    /\ \A w \in Writers : pc[w] \in {"idle", "write"}
    /\ \A r \in Readers : pc[r] \in Reading <=> readLock = <<r>>
    /\ \A t \in Threads : pc[t] = "write" <=> writeLock = <<t>>
    /\ \A t \in Threads : buffer[t] # <<>> => pc[t] = "write"

\* The places in readMessage under the mutex are not those without it.
LEMMA ReadingFacts ==
    /\ Reading = {"start", "header", "field", "fieldEnd", "headerEnd", "body"}
    /\ "idle" \notin Reading /\ "parse" \notin Reading /\ "report" \notin Reading
    /\ "write" \notin Reading
BY DEF Reading, InHeader

\* A reader that moves on under the mutex keeps it.
LEMMA GoOnPlaces ==
    ASSUME Places, NEW r \in Readers, pc[r] \in Reading, NEW place \in Reading,
           pc' = [pc EXCEPT ![r] = place], UNCHANGED <<readLock, ended, writeLock, buffer>>
    PROVE  Places'
<1>1. r \in Threads /\ r \notin Writers
  BY ThreadsAssumption DEF Threads
<1> QED
  BY <1>1, ReadingFacts DEF Places

\* A reader that leaves the part under the mutex releases it.
LEMMA LeavePlaces ==
    ASSUME Places, NEW r \in Readers, pc[r] \in Reading,
           NEW place \in {"idle", "parse"}, pc' = [pc EXCEPT ![r] = place],
           readLock' = <<>>, NEW e \in Ends,
           ended' = ended \/ ended' = [ended EXCEPT ![r] = e],
           UNCHANGED <<writeLock, buffer>>
    PROVE  Places'
<1>1. r \in Threads /\ r \notin Writers
  BY ThreadsAssumption DEF Threads
<1>2. readLock = <<r>>
  BY DEF Places
<1>3. \A q \in Readers : q # r => pc[q] \notin Reading
  BY <1>2 DEF Places
<1>4. \A q \in Threads : q # r => pc'[q] = pc[q]
  BY <1>1 DEF Places
<1>5. pc'[r] = place /\ place \notin Reading
  BY <1>1, ReadingFacts DEF Places
<1>6. \A q \in Readers : readLock' # <<q>> /\ pc'[q] \notin Reading
  BY <1>3, <1>4, <1>5 DEF Threads
<1>7. ended' \in [Threads -> Ends]
  BY <1>1 DEF Places
<1>8. pc' \in [Threads -> {"idle", "parse", "report", "write"} \union Reading]
  BY <1>1 DEF Places
<1>9. \A t \in Threads : pc'[t] = "write" <=> pc[t] = "write"
  BY <1>4, <1>5, ReadingFacts
<1>10. \A w \in Writers : pc'[w] = pc[w]
  BY <1>1, <1>4 DEF Threads
<1> QED
  BY <1>6, <1>7, <1>8, <1>9, <1>10 DEF Places

\* An exception under the mutex.
LEMMA ThrowPlaces ==
    ASSUME Places, NEW r \in Readers, pc[r] \in Reading, Throw(r, "ConnectionError"),
           UNCHANGED <<writeLock, buffer>>
    PROVE  Places'
<1>1. readLock' = <<>>
  BY DEF Throw, Places
<1>2. /\ pc' = [pc EXCEPT ![r] = "idle"]
      /\ ended' = [ended EXCEPT ![r] = "ConnectionError"]
  BY DEF Throw
<1> QED
  BY <1>1, <1>2, LeavePlaces DEF Ends

\* A reader moves outside both mutexes.
LEMMA FreePlaces ==
    ASSUME Places, NEW r \in Readers, pc[r] = "parse",
           NEW place \in {"idle", "report"}, pc' = [pc EXCEPT ![r] = place],
           NEW e \in Ends, ended' = [ended EXCEPT ![r] = e],
           UNCHANGED <<readLock, writeLock, buffer>>
    PROVE  Places'
<1>1. r \in Threads /\ r \notin Writers
  BY ThreadsAssumption DEF Threads
<1> QED
  BY <1>1, ReadingFacts DEF Places

\* A thread enters writeMessage's mutex.
LEMMA BeginWritePlaces ==
    ASSUME Places, NEW t \in Threads, pc[t] \in {"idle", "report"}, NEW c, BeginWrite(t, c),
           NEW e \in Ends, ended' = ended \/ ended' = [ended EXCEPT ![t] = e]
    PROVE  Places'
<1>1. /\ writeLock = <<>> /\ writeLock' = <<t>>
      /\ buffer' = [buffer EXCEPT ![t] = FrameOf(c)]
      /\ pc' = [pc EXCEPT ![t] = "write"] /\ readLock' = readLock
  BY DEF BeginWrite, MayWrite, readVars
<1>2. \A u \in Threads : pc[u] # "write" /\ buffer[u] = <<>>
  BY <1>1 DEF Places
<1>3. \A u \in Threads : u # t => pc'[u] = pc[u]
  BY <1>1 DEF Places
<1>4. pc'[t] = "write"
  BY <1>1 DEF Places
<1>5. \A u \in Threads : u # t => buffer'[u] = buffer[u]
  BY <1>1
<1>6. \A u \in Threads : pc'[u] = "write" <=> writeLock' = <<u>>
  BY <1>1, <1>2, <1>3, <1>4
<1>7. \A u \in Threads : buffer'[u] # <<>> => pc'[u] = "write"
  BY <1>2, <1>4, <1>5
<1>8. \A r \in Readers : pc'[r] \in Reading <=> pc[r] \in Reading
  BY <1>3, <1>4, ReadingFacts DEF Threads
<1>9. ended' \in [Threads -> Ends]
  BY DEF Places
<1>10. pc' \in [Threads -> {"idle", "parse", "report", "write"} \union Reading]
  BY <1>1 DEF Places
<1>11. \A w \in Writers : pc'[w] \in {"idle", "write"}
  BY <1>3, <1>4 DEF Places, Threads
<1>12. writeLock' \in {<<>>} \union {<<u>> : u \in Threads}
  BY <1>1
<1> QED
  BY <1>1, <1>6, <1>7, <1>8, <1>9, <1>10, <1>11, <1>12 DEF Places

\* And leaves it.
LEMMA EndWritePlaces ==
    ASSUME Places, DOMAIN buffer = Threads,
           NEW t \in Threads, pc[t] = "write", NEW e \in Ends,
           writeLock' = WriteUnlock, pc' = [pc EXCEPT ![t] = "idle"],
           ended' = [ended EXCEPT ![t] = e], readLock' = readLock,
           buffer' = [buffer EXCEPT ![t] = <<>>] \/ (buffer[t] = <<>> /\ buffer' = buffer)
    PROVE  Places'
<1>1. writeLock = <<t>> /\ writeLock' = <<>>
  BY DEF Places, WriteUnlock
<1>2. \A u \in Threads : u # t => pc'[u] = pc[u] /\ pc[u] # "write"
  BY <1>1 DEF Places
<1>3. pc'[t] = "idle"
  BY DEF Places
<1>4. \A u \in Threads : buffer'[u] = <<>>
  <2>1. \A u \in Threads : u # t => buffer[u] = <<>>
    BY <1>2 DEF Places
  <2>2. CASE buffer' = [buffer EXCEPT ![t] = <<>>]
    BY <2>1, <2>2
  <2> QED
    BY <2>1, <2>2
<1>5. \A r \in Readers : pc'[r] \in Reading <=> pc[r] \in Reading
  BY <1>2, <1>3, ReadingFacts DEF Threads
<1>6. \A u \in Threads : pc'[u] # "write"
  BY <1>2, <1>3
<1>7. \A u \in Threads : writeLock' # <<u>>
  BY <1>1
<1>8. ended' \in [Threads -> Ends]
  BY DEF Places
<1>9. pc' \in [Threads -> {"idle", "parse", "report", "write"} \union Reading]
  BY DEF Places
<1>10. \A w \in Writers : pc'[w] \in {"idle", "write"}
  BY <1>2, <1>3 DEF Places, Threads
<1> QED
  BY <1>1, <1>4, <1>5, <1>6, <1>7, <1>8, <1>9, <1>10 DEF Places


-----------------------------------------------------------------------------
(* Types *)

HeaderType == [length : Nat, type : {0, 1}, line : Seq(Chars), content : Seq(Chars)]
MessageType == [bytes : Seq(Chars), type : {0, 1}]

\* The rest of TypeOK: what is sent, read and written.
Data ==
    /\ input \in Seq(Chars) /\ output \in Seq(Chars)
    /\ sent \in Seq(Seq(Chars)) /\ written \in Seq(Contents)
    /\ local \in [Readers -> HeaderType]
    /\ read \in Seq(MessageType)
    /\ buffer \in [Threads -> Seq(Chars)]

Booleans ==
    /\ buildVars \in Builds
    /\ closed \in BOOLEAN /\ broken \in BOOLEAN

\* A line that is being read has a character when its CR comes: there is none only
\* before the first, and at the end of the input, which is read again and again.
LineIsBegun ==
    \A r \in Readers : pc[r] = "field" /\ local[r].line = <<>> =>
        IF input = <<>> THEN closed ELSE Head(input) # CR

Typed == Booleans /\ Data /\ Places /\ LineIsBegun

\* TypeOK in three parts.
LEMMA TypeParts == TypeOK <=> Booleans /\ Data /\ Places
BY DEF TypeOK, Booleans, Data, Places, Ends, HeaderType, MessageType

\* What readMessage starts with.
LEMMA FreshType == Fresh \in HeaderType
BY DEF Fresh, HeaderType

\* The peer adds to the input, or nothing changes in it.
LEMMA InputGrows ==
    ASSUME Data, LineIsBegun, NEW x \in Seq(Chars), input' = input \o x, ~closed,
           UNCHANGED <<output, written, local, read, buffer, pc>>,
           sent' \in Seq(Seq(Chars))
    PROVE  Data' /\ LineIsBegun'
<1>1. input' \in Seq(Chars)
  BY DEF Data
<1>2. input # <<>> => input' # <<>> /\ Head(input') = Head(input)
  BY DEF Data
<1>3. \A r \in Readers : pc[r] = "field" /\ local[r].line = <<>> => input # <<>>
  BY DEF LineIsBegun
<1>4. LineIsBegun'
  BY <1>2, <1>3 DEF LineIsBegun
<1> QED
  BY <1>1, <1>4 DEF Data

\* The peer's steps, and the end of the output.
LEMMA PeerType ==
    ASSUME Typed, PeerSends \/ PeerCloses \/ OutputBreaks
    PROVE  Typed'
<1>1. Places'
  BY DEF Typed, PeerSends, PeerCloses, OutputBreaks, readVars, outVars, inVars, Places
<1>2. Booleans'
  BY DEF Typed, PeerSends, PeerCloses, OutputBreaks, inVars, outVars, Booleans, buildVars
<1>3. ASSUME PeerSends PROVE Data' /\ LineIsBegun'
  <2>1. PICK f \in Frames : /\ input' = input \o Encode(f.lines, f.content)
                            /\ sent' = Append(sent, Bytes(f.content))
    BY <1>3 DEF PeerSends
  <2>2. Encode(f.lines, f.content) \in Seq(Chars)
    BY FrameFacts
  <2>3. sent' \in Seq(Seq(Chars))
    BY <2>1, BytesFacts, CharsAssumption, AppendFacts DEF Typed, Data
  <2> QED
    BY <1>3, <2>1, <2>2, <2>3, InputGrows DEF Typed, PeerSends, readVars, outVars
<1>4. ASSUME PeerCloses PROVE Data' /\ LineIsBegun'
  <2>1. CASE UNCHANGED <<input, sent>>
    BY <1>4, <2>1 DEF Typed, PeerCloses, readVars, outVars, Data, LineIsBegun
  <2>2. CASE \E f \in Frames : \E n \in 1 .. Len(Encode(f.lines, f.content)) - 1 :
                input' = input \o SubSeq(Encode(f.lines, f.content), 1, n)
    <3>1. PICK f \in Frames : \E n \in 1 .. Len(Encode(f.lines, f.content)) - 1 :
                input' = input \o SubSeq(Encode(f.lines, f.content), 1, n)
      BY <2>2
    <3> PICK e : e = Encode(f.lines, f.content)
      OBVIOUS
    <3> PICK n \in 1 .. Len(e) - 1 : input' = input \o SubSeq(e, 1, n)
      BY <3>1
    <3>2. e \in Seq(Chars)
      BY FrameFacts
    <3>3. SubSeq(e, 1, n) \in Seq(Chars)
      BY <3>2
    <3>4. sent' = sent
      BY <1>4 DEF PeerCloses
    <3> QED
      BY <1>4, <3>3, <3>4, InputGrows DEF Typed, PeerCloses, readVars, outVars, Data
  <2> QED
    BY <1>4, <2>1, <2>2 DEF PeerCloses
<1>5. ASSUME OutputBreaks PROVE Data' /\ LineIsBegun'
  BY <1>5 DEF Typed, OutputBreaks, inVars, readVars, Data, LineIsBegun
<1> QED
  BY <1>1, <1>2, <1>3, <1>4, <1>5 DEF Typed


\* A step of the reader that holds the mutex.
LEMMA ReaderData ==
    ASSUME Typed, NEW r \in Readers, pc[r] \in Reading, NEW place, NEW l \in HeaderType,
           pc' = [pc EXCEPT ![r] = place], local' = [local EXCEPT ![r] = l],
           place = "field" /\ l.line = <<>> =>
                IF input' = <<>> THEN closed ELSE Head(input') # CR,
           input' \in Seq(Chars), read' \in Seq(MessageType),
           UNCHANGED <<output, sent, written, buffer, closed>>
    PROVE  Data' /\ LineIsBegun'
<1>1. r \in Threads /\ r \in DOMAIN pc /\ r \in DOMAIN local
  BY DEF Threads, Typed, Places, Data
<1>2. \A q \in Readers : q # r => pc'[q] # "field"
  <2>1. readLock = <<r>>
    BY DEF Typed, Places
  <2>2. \A q \in Readers : q # r => pc[q] \notin Reading
    BY <2>1 DEF Typed, Places
  <2> QED
    BY <2>2, ReadingFacts
<1>3. pc'[r] = place /\ local'[r] = l
  BY <1>1
<1>4. LineIsBegun'
  BY <1>2, <1>3 DEF LineIsBegun
<1>5. local' \in [Readers -> HeaderType]
  BY DEF Typed, Data
<1> QED
  BY <1>4, <1>5 DEF Typed, Data

\* What is read from the input.
LEMMA NextFacts ==
    ASSUME Typed
    PROVE  /\ NextChar \in Chars
           /\ Consume => input' \in Seq(Chars)
           /\ input # <<>> => Head(input) \in Chars /\ Tail(input) \in Seq(Chars)
<1>1. input \in Seq(Chars)
  BY DEF Typed, Data
<1>2. input # <<>> => Head(input) \in Chars /\ Tail(input) \in Seq(Chars)
  BY <1>1
<1>3. <<>> \in Seq(Chars)
  OBVIOUS
<1> QED
  BY <1>1, <1>2, <1>3, CharsFacts DEF NextChar, Consume

\* An exception in the part under the mutex.
LEMMA ThrowType ==
    ASSUME Typed, NEW r \in Readers, pc[r] \in Reading, Throw(r, "ConnectionError"),
           input' \in Seq(Chars), UNCHANGED <<buildVars, closed, sent, read, outVars>>
    PROVE  Typed'
<1>1. /\ pc' = [pc EXCEPT ![r] = "idle"] /\ local' = [local EXCEPT ![r] = Fresh]
      /\ UNCHANGED <<output, sent, written, buffer, closed, writeLock, broken>>
      /\ read' = read
  BY DEF Throw, outVars
<1>2. read' \in Seq(MessageType)
  BY <1>1 DEF Typed, Data
<1>3. Data' /\ LineIsBegun'
  BY <1>1, <1>2, FreshType, ReaderData
<1>4. Places'
  BY <1>1, ThrowPlaces DEF Typed
<1>5. Booleans'
  BY <1>1 DEF Typed, Booleans, buildVars
<1> QED
  BY <1>3, <1>4, <1>5 DEF Typed

\* A reader goes on under the mutex.
LEMMA GoOnType ==
    ASSUME Typed, NEW r \in Readers, pc[r] \in Reading, NEW place \in Reading,
           NEW l \in HeaderType, GoOn(r, place, l),
           place = "field" /\ l.line = <<>> =>
                IF input' = <<>> THEN closed ELSE Head(input') # CR,
           input' \in Seq(Chars), UNCHANGED <<buildVars, closed, sent, read, outVars>>
    PROVE  Typed'
<1>1. /\ pc' = [pc EXCEPT ![r] = place] /\ local' = [local EXCEPT ![r] = l]
      /\ UNCHANGED <<output, sent, written, buffer, closed, writeLock, broken>>
      /\ read' = read /\ UNCHANGED <<readLock, ended>>
  BY DEF GoOn, outVars
<1>2. read' \in Seq(MessageType)
  BY <1>1 DEF Typed, Data
<1>3. Data' /\ LineIsBegun'
  BY <1>1, <1>2, ReaderData
<1>4. Places'
  BY <1>1, GoOnPlaces DEF Typed
<1>5. Booleans'
  BY <1>1 DEF Typed, Booleans, buildVars
<1> QED
  BY <1>3, <1>4, <1>5 DEF Typed

\* The length and the type of a message are never anything else.
LEMMA HeaderValueType ==
    ASSUME NEW l \in HeaderType, l.line # <<>>, l.line[1] # BadLength
    PROVE  HeaderValue(l) \in HeaderType
<1> PICK x : x = Head(l.line)
  OBVIOUS
<1> PICK next : next = [l EXCEPT !.line = <<>>]
  OBVIOUS
<1>1. /\ l.line \in Seq(Chars) /\ l.length \in Nat /\ l.type \in {0, 1}
      /\ l.content \in Seq(Chars)
      /\ l = [length |-> l.length, type |-> l.type, line |-> l.line, content |-> l.content]
  BY DEF HeaderType
<1>2. x \in Chars /\ x # BadLength
  BY <1>1
<1>3. x.c = "Content-Length" => x.n \in Nat
  BY <1>2, CharsAssumption DEF Chars, Lines, FieldLines, BadLength, GoodType, BadType,
     OtherField, LF, Eof, CR, Nul, Char
<1>4. x.c = "Content-Type" => x.n \in {0, 1}
  BY <1>2, CharsAssumption DEF Chars, Lines, FieldLines, BadLength, GoodType, BadType,
     OtherField, LF, Eof, CR, Nul, Char
<1>5. next \in HeaderType
  <2>1. <<>> \in Seq(Chars)
    OBVIOUS
  <2>2. next = [length |-> l.length, type |-> l.type, line |-> <<>>, content |-> l.content]
    BY <1>1
  <2> QED
    BY <1>1, <2>1, <2>2 DEF HeaderType
<1>6. HeaderValue(l) = CASE x.c = "Content-Length" -> [next EXCEPT !.length = x.n]
                         [] x.c = "Content-Type" -> [next EXCEPT !.type = x.n]
                         [] OTHER -> next
  BY DEF HeaderValue
<1>7. CASE x.c = "Content-Length"
  <2>1. HeaderValue(l) = [next EXCEPT !.length = x.n]
    BY <1>6, <1>7
  <2> QED
    BY <1>3, <1>5, <1>7, <2>1 DEF HeaderType
<1>8. CASE x.c = "Content-Type"
  <2>1. HeaderValue(l) = [next EXCEPT !.type = x.n]
    BY <1>6, <1>8
  <2> QED
    BY <1>4, <1>5, <1>8, <2>1 DEF HeaderType
<1>9. CASE x.c # "Content-Length" /\ x.c # "Content-Type"
  BY <1>5, <1>6, <1>9
<1> QED
  BY <1>7, <1>8, <1>9

\* Each step of readMessage under the mutex.
LEMMA BeginReadType ==
    ASSUME Typed, NEW r \in Readers, BeginRead(r)
    PROVE  Typed'
<1>1. /\ pc[r] = "idle" /\ readLock = <<>> /\ readLock' = <<r>>
      /\ pc' = [pc EXCEPT ![r] = "start"] /\ ended' = [ended EXCEPT ![r] = "none"]
      /\ local' = local /\ read' = read
      /\ UNCHANGED <<stream, signed, input, closed, sent>>
      /\ UNCHANGED <<writeLock, buffer, output, written, broken>>
  BY DEF BeginRead, MayLock, inVars, buildVars, outVars
<1>2. r \in Threads /\ r \notin Writers /\ DOMAIN pc = Threads
  BY ThreadsAssumption DEF Threads, Typed, Places
<1>3. \A t \in Threads : t # r => pc'[t] = pc[t]
  BY <1>1, <1>2
<1>4. pc'[r] = "start"
  BY <1>1, <1>2
<1>5. \A q \in Readers : pc[q] \notin Reading
  BY <1>1 DEF Typed, Places
<1>6. Places'
  <2>1. \A q \in Readers : pc'[q] \in Reading <=> readLock' = <<q>>
    <3>1. \A q \in Readers : q # r => pc'[q] \notin Reading
      BY <1>3, <1>5 DEF Threads
    <3>2. pc'[r] \in Reading
      BY <1>4, ReadingFacts
    <3> QED
      BY <1>1, <3>1, <3>2
  <2>2. \A t \in Threads : pc'[t] = "write" <=> pc[t] = "write"
    BY <1>1, <1>3, <1>4
  <2>3. pc' \in [Threads -> {"idle", "parse", "report", "write"} \union Reading]
    BY <1>1, ReadingFacts DEF Typed, Places
  <2>4. ended' \in [Threads -> Ends]
    BY <1>1 DEF Typed, Places, Ends
  <2>5. \A w \in Writers : pc'[w] = pc[w]
    BY <1>2, <1>3 DEF Threads
  <2> QED
    BY <1>1, <2>1, <2>2, <2>3, <2>4, <2>5 DEF Typed, Places
<1>7. Data' /\ Booleans'
  BY <1>1 DEF Typed, Data, Booleans, buildVars
<1>8. LineIsBegun'
  BY <1>1, <1>3, <1>4 DEF Typed, LineIsBegun, Threads
<1> QED
  BY <1>6, <1>7, <1>8 DEF Typed

\* The header of the reader's message.
LEMMA LocalFacts ==
    ASSUME Typed, NEW r \in Readers
    PROVE  /\ local[r] \in HeaderType
           /\ local[r].line \in Seq(Chars) /\ local[r].length \in Nat
           /\ local[r].type \in {0, 1} /\ local[r].content \in Seq(Chars)
           /\ \A x \in Seq(Chars) : /\ [local[r] EXCEPT !.line = x] \in HeaderType
                                    /\ [local[r] EXCEPT !.content = x] \in HeaderType
                                    /\ [local[r] EXCEPT !.line = x].line = x
<1> PICK l : l = local[r]
  OBVIOUS
<1>1. l \in HeaderType
  BY DEF Typed, Data
<1>2. /\ l.line \in Seq(Chars) /\ l.length \in Nat /\ l.type \in {0, 1}
      /\ l.content \in Seq(Chars)
  BY <1>1 DEF HeaderType
<1>3. l = [length |-> l.length, type |-> l.type, line |-> l.line, content |-> l.content]
  BY <1>1 DEF HeaderType
<1>4. ASSUME NEW x \in Seq(Chars)
      PROVE  /\ [l EXCEPT !.line = x] \in HeaderType
             /\ [l EXCEPT !.content = x] \in HeaderType
             /\ [l EXCEPT !.line = x].line = x
  <2>1. [l EXCEPT !.line = x]
          = [length |-> l.length, type |-> l.type, line |-> x, content |-> l.content]
    BY <1>3
  <2>2. [l EXCEPT !.content = x]
          = [length |-> l.length, type |-> l.type, line |-> l.line, content |-> x]
    BY <1>3
  <2> QED
    BY <1>2, <2>1, <2>2 DEF HeaderType
<1> QED
  BY <1>1, <1>2, <1>4

\* A reader looks at a character of the header, and reads it or not.
LEMMA HeaderStepsType ==
    ASSUME Typed, NEW r \in Readers, Start(r) \/ Header(r) \/ FieldChar(r)
    PROVE  Typed'
<1>1. pc[r] \in Reading
  BY ReadingFacts DEF Start, Header, FieldChar
<1>2. input \in Seq(Chars)
  BY DEF Typed, Data
<1>3. local[r] \in HeaderType
  BY LocalFacts
<1>4. UNCHANGED <<buildVars, closed, sent, read, outVars>>
  BY DEF Start, Header, FieldChar
<1>5. input = <<>> => closed
  BY DEF Start, Header, FieldChar, Readable, AtEnd
<1>6. input # <<>> => NextChar = Head(input)
  BY DEF NextChar
<1>7. input' = input \/ Consume => input' \in Seq(Chars)
  BY <1>2, NextFacts
<1>8. CASE Throw(r, "ConnectionError") /\ Consume
  BY <1>1, <1>4, <1>7, <1>8, ThrowType
<1>9. CASE GoOn(r, "header", local[r]) /\ UNCHANGED input
  BY <1>1, <1>2, <1>3, <1>4, <1>9, GoOnType, ReadingFacts
<1>10. CASE GoOn(r, "headerEnd", local[r]) /\ Consume
  BY <1>1, <1>3, <1>4, <1>7, <1>10, GoOnType, ReadingFacts
<1>11. CASE Header(r) /\ NextChar # CR /\ GoOn(r, "field", local[r]) /\ UNCHANGED input
  <2>1. IF input' = <<>> THEN closed ELSE Head(input') # CR
    BY <1>5, <1>6, <1>11
  <2>2. input' \in Seq(Chars)
    BY <1>2, <1>11
  <2>3. "field" \in Reading
    BY ReadingFacts
  <2> QED
    BY <1>1, <1>3, <1>4, <1>11, <2>1, <2>2, <2>3, GoOnType
<1>12. CASE FieldChar(r) /\ input = <<>> /\ GoOn(r, "field", local[r])
  <2>1. input' = <<>>
    BY <1>12 DEF FieldChar, Consume
  <2>2. closed
    BY <1>5, <1>12
  <2>3. "field" \in Reading /\ <<>> \in Seq(Chars)
    BY ReadingFacts
  <2> QED
    BY <1>1, <1>3, <1>4, <1>12, <2>1, <2>2, <2>3, GoOnType
<1>13. CASE /\ FieldChar(r)
            /\ GoOn(r, "field", [local[r] EXCEPT !.line = Append(@, NextChar)])
  <2> PICK x : x = Append(local[r].line, NextChar)
    OBVIOUS
  <2>1. x \in Seq(Chars) /\ x # <<>>
    BY LocalFacts, NextFacts, AppendFacts
  <2>2. [local[r] EXCEPT !.line = Append(@, NextChar)] = [local[r] EXCEPT !.line = x]
    OBVIOUS
  <2>3. PICK l : l = [local[r] EXCEPT !.line = x]
    OBVIOUS
  <2>4. l \in HeaderType /\ l.line = x
    BY <2>1, <2>3, LocalFacts
  <2>5. GoOn(r, "field", l)
    BY <1>13, <2>2, <2>3
  <2>6. "field" \in Reading /\ input' \in Seq(Chars)
    BY <1>7, <1>13, ReadingFacts DEF FieldChar
  <2> QED
    BY <1>1, <1>4, <2>1, <2>4, <2>5, <2>6, GoOnType
<1>14. CASE Start(r)
  BY <1>8, <1>9, <1>14 DEF Start
<1>15. CASE Header(r)
  BY <1>8, <1>10, <1>11, <1>15 DEF Header
<1>16. CASE FieldChar(r)
  BY <1>8, <1>12, <1>13, <1>16 DEF FieldChar
<1> QED
  BY <1>14, <1>15, <1>16

\* The line ends of the header.  With LineIsBegun the line that ends has a first character.
LEMMA LineEndType ==
    ASSUME Typed, NEW r \in Readers, FieldCR(r) \/ LineFeed(r)
    PROVE  Typed'
<1>1. pc[r] \in Reading
  BY ReadingFacts DEF FieldCR, LineFeed
<1>2. input' \in Seq(Chars)
  BY NextFacts DEF FieldCR, LineFeed
<1>3. UNCHANGED <<buildVars, closed, sent, read, outVars>>
  BY DEF FieldCR, LineFeed
<1>4. CASE Throw(r, "ConnectionError")
  BY <1>1, <1>2, <1>3, <1>4, ThrowType
<1>5. CASE FieldCR(r) /\ local[r].line[1] # BadLength
           /\ GoOn(r, "fieldEnd", HeaderValue(local[r]))
  <2>1. local[r].line # <<>>
    BY <1>5, CharsAssumption DEF FieldCR, NextChar, Typed, LineIsBegun, CR, Eof, Char
  <2>2. HeaderValue(local[r]) \in HeaderType
    BY <1>5, <2>1, LocalFacts, HeaderValueType
  <2>3. "fieldEnd" \in Reading
    BY ReadingFacts
  <2> QED
    BY <1>1, <1>2, <1>3, <1>5, <2>2, <2>3, GoOnType
<1>6. CASE \E place \in {"header", "body"} : GoOn(r, place, local[r])
  <2>1. PICK place \in {"header", "body"} : GoOn(r, place, local[r])
    BY <1>6
  <2>2. place \in Reading /\ place # "field"
    BY ReadingFacts
  <2> QED
    BY <1>1, <1>2, <1>3, <2>1, <2>2, GoOnType, LocalFacts
<1>7. CASE FieldCR(r)
  BY <1>4, <1>5, <1>7 DEF FieldCR
<1>8. CASE LineFeed(r)
  BY <1>4, <1>6, <1>8 DEF LineFeed
<1> QED
  BY <1>7, <1>8

\* The smaller of two numbers.
LEMMA Smaller ==
    ASSUME NEW n \in Nat, NEW m \in Nat
    PROVE  \E k \in Nat : /\ k = Min({n, m}) /\ k <= n /\ k <= m
                          /\ k = n \/ k = m
<1> PICK k : k = IF n <= m THEN n ELSE m
  OBVIOUS
<1>1. /\ k \in {n, m} /\ \A y \in {n, m} : k <= y
      /\ \A x \in {n, m} : (\A y \in {n, m} : x <= y) => x = k
  OBVIOUS
<1>2. Min({n, m}) = k
  BY <1>1, Zenon DEF Min
<1> QED
  BY <1>1, <1>2

\* What is taken from a sequence, filled up, and what is left of it.
Padding(s, n, k, bytes) ==
    /\ bytes = [i \in 1 .. n |-> IF i <= k THEN s[i] ELSE Nul]
    /\ Len(bytes) = n
    /\ \A i \in 1 .. n : bytes[i] = IF i <= k THEN s[i] ELSE Nul

LEMMA TakeFacts ==
    ASSUME NEW s \in Seq(Chars), NEW n \in Nat, NEW k \in Nat, k <= n, k <= Len(s)
    PROVE  /\ \E bytes \in Seq(Chars) : Padding(s, n, k, bytes)
           /\ SubSeq(s, k + 1, Len(s)) \in Seq(Chars)
<1> PICK bytes : bytes = [i \in 1 .. n |-> IF i <= k THEN s[i] ELSE Nul]
  OBVIOUS
<1>1. \A i \in 1 .. n : i <= k => s[i] \in Chars
  OBVIOUS
<1>2. \A i \in 1 .. n : bytes[i] = IF i <= k THEN s[i] ELSE Nul
  OBVIOUS
<1>3. \A i \in 1 .. n : bytes[i] \in Chars
  BY <1>1, <1>2, CharsFacts
<1>4. bytes \in Seq(Chars) /\ Len(bytes) = n
  BY <1>3
<1>5. SubSeq(s, k + 1, Len(s)) \in Seq(Chars)
  OBVIOUS
<1>6. Padding(s, n, k, bytes)
  BY <1>2, <1>4, Zenon DEF Padding
<1> QED
  BY <1>4, <1>5, <1>6

\* What ReadBody takes from the input: n characters, or what there is of them.
Taken(r, n, k, bytes) ==
    /\ n = local[r].length /\ k <= n /\ k <= Len(input)
    /\ k = n \/ (k = Len(input) /\ closed /\ stream = "standardIO")
    /\ Len(bytes) = n
    /\ \A i \in 1 .. n : bytes[i] = IF i <= k THEN input[i] ELSE Nul
    /\ input' = SubSeq(input, k + 1, Len(input)) /\ input' \in Seq(Chars)
    /\ read' = Append(read, [bytes |-> bytes, type |-> local[r].type])
    /\ local' = [local EXCEPT ![r].content = bytes]

LEMMA BodyFacts ==
    ASSUME Typed, NEW r \in Readers, ReadBody(r)
    PROVE  \E n \in Nat : \E k \in Nat : \E bytes \in Seq(Chars) : Taken(r, n, k, bytes)
<1>1. PICK n \in Nat : n = ContentRead(r) /\ n = local[r].length
  BY LocalFacts DEF ContentRead
<1>2. input \in Seq(Chars) /\ Len(input) \in Nat
  BY DEF Typed, Data
<1>3. PICK k \in Nat : k = Min({n, Len(input)}) /\ k <= n /\ k <= Len(input)
                      /\ (k = n \/ k = Len(input))
  BY <1>2, Smaller
<1>4. PICK bytes \in Seq(Chars) : Padding(input, n, k, bytes)
  BY <1>2, <1>3, TakeFacts, Zenon
<1>5. SubSeq(input, k + 1, Len(input)) \in Seq(Chars)
  BY <1>2, <1>3, TakeFacts, Zenon
<1>6. /\ k = n \/ (closed /\ stream = "standardIO")
      /\ input' = SubSeq(input, k + 1, Len(input))
      /\ read' = Append(read, [bytes |-> bytes, type |-> local[r].type])
      /\ local' = [local EXCEPT ![r].content = bytes]
  BY <1>1, <1>3, <1>4 DEF ReadBody, Padding
<1>7. Taken(r, n, k, bytes)
  BY <1>1, <1>3, <1>4, <1>5, <1>6, Zenon DEF Taken, Padding
<1> QED
  BY <1>7

\* The content is read, and the mutex released.
LEMMA ReadBodyType ==
    ASSUME Typed, NEW r \in Readers, ReadBody(r)
    PROVE  Typed'
<1>1. PICK n \in Nat : \E k \in Nat : \E bytes \in Seq(Chars) : Taken(r, n, k, bytes)
  BY BodyFacts
<1>2. PICK bytes \in Seq(Chars) :
              /\ input' \in Seq(Chars)
              /\ read' = Append(read, [bytes |-> bytes, type |-> local[r].type])
              /\ local' = [local EXCEPT ![r].content = bytes]
  BY <1>1, Zenon DEF Taken
<1>3. /\ pc[r] = "body" /\ pc' = [pc EXCEPT ![r] = "parse"] /\ readLock' = <<>>
      /\ UNCHANGED <<stream, signed, closed, sent, ended, writeLock, buffer, output,
                     written, broken>>
  BY DEF ReadBody, buildVars, outVars
<1>4. pc[r] \in Reading
  BY <1>3, ReadingFacts
<1>5. PICK l : l = [local[r] EXCEPT !.content = bytes]
  OBVIOUS
<1>6. l \in HeaderType /\ local' = [local EXCEPT ![r] = l]
  BY <1>2, <1>5, LocalFacts
<1>7. read' \in Seq(MessageType)
  <2>1. [bytes |-> bytes, type |-> local[r].type] \in MessageType
    BY LocalFacts DEF MessageType
  <2> QED
    BY <1>2, <2>1, AppendFacts DEF Typed, Data
<1>8. Data' /\ LineIsBegun'
  BY <1>2, <1>3, <1>4, <1>6, <1>7, ReaderData
<1>9. Places'
  BY <1>3, <1>4, LeavePlaces DEF Typed, Ends
<1>10. Booleans'
  BY <1>3 DEF Typed, Booleans, buildVars
<1> QED
  BY <1>8, <1>9, <1>10 DEF Typed

\* The socket sees the end of the input.
LEMMA SocketType ==
    ASSUME Typed, NEW r \in Readers, SocketThrows(r)
    PROVE  Typed'
<1>1. pc[r] \in Reading
  BY ReadingFacts DEF SocketThrows, InHeader
<1>2. input' \in Seq(Chars)
  BY DEF SocketThrows
<1> QED
  BY <1>1, <1>2, ThrowType DEF SocketThrows

\* The steps of readMessage without the mutex.
LEMMA ParseType ==
    ASSUME Typed, NEW r \in Readers, ReturnMessage(r) \/ RejectMessage(r) \/ ReportError(r)
    PROVE  /\ Typed'
           /\ pc[r] = "parse" /\ pc' \in {[pc EXCEPT ![r] = "idle"], [pc EXCEPT ![r] = "report"]}
           /\ local' = [local EXCEPT ![r] = Fresh] /\ r \in Threads
           /\ UNCHANGED <<inVars, read, outVars>>
<1>1. /\ pc[r] = "parse"
      /\ pc' \in {[pc EXCEPT ![r] = "idle"], [pc EXCEPT ![r] = "report"]}
      /\ local' = [local EXCEPT ![r] = Fresh]
      /\ UNCHANGED <<inVars, read, outVars>>
  BY DEF ReturnMessage, RejectMessage, ReportError, Throw
<1>2. r \in Threads /\ pc[r] \notin Reading
  BY <1>1, ReadingFacts DEF Threads
<1>3. readLock # <<r>>
  BY <1>2 DEF Typed, Places
<1>4. readLock' = readLock
  BY <1>3 DEF ReturnMessage, RejectMessage, ReportError, Throw
<1>5. PICK place \in {"idle", "report"} : pc' = [pc EXCEPT ![r] = place]
  BY <1>1
<1>6. PICK e \in Ends : ended' = [ended EXCEPT ![r] = e]
  <2>1. CASE ReturnMessage(r) \/ RejectMessage(r)
    BY <2>1 DEF ReturnMessage, RejectMessage, Throw, Ends
  <2>2. CASE ReportError(r)
    <3>1. Parsed(local[r].content) \in Ends
      BY <2>2 DEF ReportError, Bad, Ends
    <3> QED
      BY <2>2, <3>1 DEF ReportError
  <2> QED
    BY <2>1, <2>2
<1>7. Places'
  BY <1>1, <1>4, <1>5, <1>6, FreePlaces DEF Typed, outVars
<1>8. Data' /\ Booleans'
  BY <1>1, FreshType DEF Typed, Data, Booleans, inVars, outVars, buildVars
<1>9. LineIsBegun'
  <2>1. pc'[r] # "field"
    BY <1>2, <1>5 DEF Typed, Places
  <2>2. \A q \in Readers : q # r => local'[q] = local[q]
    BY <1>1 DEF Typed, Data
  <2>3. \A q \in Readers : q # r => pc'[q] = pc[q]
    BY <1>5 DEF Typed, Places, Threads
  <2> QED
    BY <1>1, <2>1, <2>2, <2>3 DEF Typed, LineIsBegun, inVars
<1> QED
  BY <1>1, <1>2, <1>7, <1>8, <1>9 DEF Typed

-----------------------------------------------------------------------------
(* Writers *)

\* Where nothing is read, no line begins.
LEMMA WriteKeepsLines ==
    ASSUME Typed, NEW t \in Threads, NEW place \in {"idle", "write"},
           pc' = [pc EXCEPT ![t] = place], UNCHANGED <<inVars, readVars>>
    PROVE  LineIsBegun'
<1>1. \A r \in Readers : pc'[r] = "field" => pc[r] = "field"
  BY DEF Typed, Places, Threads
<1> QED
  BY <1>1 DEF Typed, LineIsBegun, inVars, readVars

\* A frame goes into a thread's buffer.
LEMMA BeginWriteType ==
    ASSUME Typed, NEW t \in Threads, pc[t] \in {"idle", "report"}, NEW c \in Contents,
           BeginWrite(t, c), NEW e \in Ends,
           ended' = ended \/ ended' = [ended EXCEPT ![t] = e]
    PROVE  Typed'
<1>1. /\ buffer' = [buffer EXCEPT ![t] = FrameOf(c)] /\ written' = Append(written, c)
      /\ pc' = [pc EXCEPT ![t] = "write"]
      /\ UNCHANGED <<inVars, readVars, output, broken>>
  BY DEF BeginWrite
<1>2. Places'
  BY BeginWritePlaces DEF Typed
<1>3. LineIsBegun'
  BY <1>1, WriteKeepsLines
<1>4. buffer' \in [Threads -> Seq(Chars)]
  BY <1>1, FrameFacts DEF Typed, Data
<1>5. written' \in Seq(Contents)
  BY <1>1, AppendFacts DEF Typed, Data
<1>6. Data' /\ Booleans'
  BY <1>1, <1>4, <1>5 DEF Typed, Data, Booleans, inVars, readVars, buildVars
<1> QED
  BY <1>2, <1>3, <1>6 DEF Typed

\* From a writer, or from a reader that has an error to report.
LEMMA WriteStartType ==
    ASSUME Typed
    PROVE  /\ \A w \in Writers : writeMessage(w) => Typed'
           /\ \A r \in Readers : WriteError(r) => Typed'
<1>1. ASSUME NEW w \in Writers, writeMessage(w) PROVE Typed'
  <2>1. PICK c \in Contents : BeginWrite(w, c)
    BY <1>1 DEF writeMessage
  <2> QED
    BY <1>1, <2>1, BeginWriteType DEF writeMessage, Threads, Ends
<1>2. ASSUME NEW r \in Readers, WriteError(r) PROVE Typed'
  BY <1>2, BeginWriteType, ContentsAssumption DEF WriteError, Threads, Ends
<1> QED
  BY <1>1, <1>2

\* The frame goes out, or the write fails.
LEMMA WriteStepType ==
    ASSUME Typed, NEW t \in Threads, WriteStep(t)
    PROVE  Typed'
<1>1. CASE WriteSome(t)
  <2>1. /\ pc[t] = "write" /\ buffer[t] # <<>>
        /\ output' = Append(output, Head(buffer[t]))
        /\ buffer' = [buffer EXCEPT ![t] = Tail(@)]
        /\ UNCHANGED <<inVars, readVars, pc, ended, writeLock, written, broken>>
    BY <1>1 DEF WriteSome
  <2>2. Head(buffer[t]) \in Chars /\ Tail(buffer[t]) \in Seq(Chars)
    BY <2>1 DEF Typed, Data
  <2>3. buffer' \in [Threads -> Seq(Chars)] /\ output' \in Seq(Chars)
    BY <2>1, <2>2, AppendFacts DEF Typed, Data
  <2>4. Data' /\ Booleans' /\ LineIsBegun'
    BY <2>1, <2>3 DEF Typed, Data, Booleans, inVars, readVars, buildVars, LineIsBegun
  <2>5. \A u \in Threads : buffer'[u] # <<>> => pc[u] = "write"
    BY <2>1 DEF Typed, Places, Data
  <2>6. Places'
    BY <2>1, <2>5 DEF Typed, Places, readVars
  <2> QED
    BY <2>4, <2>6 DEF Typed
<1>2. CASE WriteEnds(t) \/ WriteFails(t)
  <2>1. /\ pc[t] = "write" /\ writeLock' = WriteUnlock /\ pc' = [pc EXCEPT ![t] = "idle"]
        /\ UNCHANGED <<inVars, readVars, output, written, broken>>
    BY <1>2 DEF WriteEnds, WriteFails
  <2>2. \/ buffer' = [buffer EXCEPT ![t] = <<>>]
        \/ buffer[t] = <<>> /\ buffer' = buffer
    BY <1>2 DEF WriteEnds, WriteFails
  <2>3. PICK e \in Ends : ended' = [ended EXCEPT ![t] = e]
    <3>1. ended[t] \in Ends /\ "written" \in Ends /\ "ConnectionError" \in Ends
      BY DEF Typed, Places, Ends
    <3> QED
      BY <1>2, <3>1 DEF WriteEnds, WriteFails
  <2>4. Places'
    BY <2>1, <2>2, <2>3, EndWritePlaces DEF Typed, Data, readVars
  <2>5. LineIsBegun'
    BY <2>1, WriteKeepsLines
  <2>6. buffer' \in [Threads -> Seq(Chars)]
    <3>1. <<>> \in Seq(Chars)
      OBVIOUS
    <3> QED
      BY <2>2, <3>1 DEF Typed, Data
  <2>7. Data' /\ Booleans'
    BY <2>1, <2>6 DEF Typed, Data, Booleans, inVars, readVars, buildVars
  <2> QED
    BY <2>4, <2>5, <2>7 DEF Typed
<1> QED
  BY <1>1, <1>2 DEF WriteStep

\* The invariant holds in the beginning,
LEMMA InitTyped == Init => Typed
<1> SUFFICES ASSUME Init PROVE Typed
  OBVIOUS
<1>1. Booleans
  <2>1. PICK b \in Builds : stream = b[1] /\ signed = b[2]
    BY DEF Init
  <2>2. b = <<b[1], b[2]>>
    BY BuildsAssumption
  <2> QED
    BY <2>1, <2>2 DEF Booleans, Init, buildVars
<1>2. Data
  BY FreshType DEF Init, Data
<1>3. Places
  BY ReadingFacts DEF Init, Places, Ends, Threads
<1>4. LineIsBegun
  BY DEF Init, LineIsBegun, Threads
<1> QED
  BY <1>1, <1>2, <1>3, <1>4 DEF Typed

\* and every step keeps it.
LEMMA NextTyped == Typed /\ [Next]_vars => Typed'
<1> SUFFICES ASSUME Typed, [Next]_vars PROVE Typed'
  OBVIOUS
<1>1. ASSUME NEW r \in Readers, BeginRead(r) \/ ReadStep(r) PROVE Typed'
  BY <1>1, BeginReadType, HeaderStepsType, LineEndType, ReadBodyType, SocketType,
     ParseType, WriteStartType DEF ReadStep
<1>2. CASE UNCHANGED vars
  <2>1. UNCHANGED <<inVars, readVars, pc, ended, outVars>>
    BY <1>2 DEF vars
  <2> QED
    BY <2>1 DEF Typed, Booleans, Data, Places, LineIsBegun, inVars, readVars, outVars,
       buildVars
<1> QED
  BY <1>1, <1>2, PeerType, WriteStartType, WriteStepType DEF Next

\* The types, the two mutexes, and that no line ends before it begins: in every state
\* that a connection reaches.
THEOREM Invariance == Spec => []Typed
BY InitTyped, NextTyped, PTL DEF Spec

\* Every variable has its type, each mutex is held by exactly the thread that is in its
\* part of the code, and only that thread has something to write.
THEOREM TypeCorrect == Spec => []TypeOK
<1>1. Typed => TypeOK
  BY TypeParts DEF Typed
<1> QED
  BY <1>1, Invariance, PTL

-----------------------------------------------------------------------------
(* ErrorsAreReported: the errors written and to come are as many as the bad     *)
(* contents that were read.                                                     *)

ErrorsOf(s) == {i \in DOMAIN s : s[i] = Error}
BadOf(s) == {i \in DOMAIN s : s[i].type = 1 /\ Bad(s[i].bytes)}
Errors == ErrorsOf(written)
BadRead == BadOf(read)
IsComing(place, l) == place = "report" \/ (place = "parse" /\ l.type = 1 /\ Bad(l.content))
Coming == {r \in Readers : IsComing(pc[r], local[r])}

Counted ==
    /\ IsFiniteSet(Errors) /\ IsFiniteSet(Coming) /\ IsFiniteSet(BadRead)
    /\ Cardinality(Errors) + Cardinality(Coming) = Cardinality(BadRead)

\* The invariant is the property, with sets that are finite.
LEMMA CountedIsReported == Counted => ErrorsAreReported
BY DEF Counted, ErrorsAreReported, Errors, ErrorsOf, BadOf, BadRead, Coming, IsComing

\* One more, and one less.
LEMMA CountFacts ==
    ASSUME NEW S, IsFiniteSet(S), NEW x
    PROVE  /\ Cardinality(S) \in Nat
           /\ x \notin S => /\ IsFiniteSet(S \union {x})
                            /\ Cardinality(S \union {x}) = Cardinality(S) + 1
           /\ x \in S => /\ IsFiniteSet(S \ {x})
                         /\ Cardinality(S \ {x}) = Cardinality(S) - 1
BY FS_CardinalityType, FS_AddElement, FS_RemoveElement

\* A content that is written is one more error, or none.
LEMMA ErrorsGrow ==
    ASSUME NEW s \in Seq(Contents), NEW c \in Contents
    PROVE  /\ c = Error => \E i : i \notin ErrorsOf(s)
                               /\ ErrorsOf(Append(s, c)) = ErrorsOf(s) \union {i}
           /\ c # Error => ErrorsOf(Append(s, c)) = ErrorsOf(s)
<1> PICK n \in Nat : n = Len(s)
  OBVIOUS
<1> PICK t : t = Append(s, c)
  OBVIOUS
<1>1. /\ DOMAIN s = 1 .. n /\ DOMAIN t = 1 .. n + 1 /\ t[n + 1] = c
      /\ \A i \in 1 .. n : t[i] = s[i]
  OBVIOUS
<1>2. c = Error => ErrorsOf(t) = ErrorsOf(s) \union {n + 1} /\ n + 1 \notin ErrorsOf(s)
  BY <1>1 DEF ErrorsOf
<1>3. c # Error => ErrorsOf(t) = ErrorsOf(s)
  BY <1>1 DEF ErrorsOf
<1> QED
  BY <1>2, <1>3

\* A content that is read is one more bad one, or none.
LEMMA BadGrows ==
    ASSUME NEW s \in Seq(MessageType), NEW m \in MessageType
    PROVE  /\ m.type = 1 /\ Bad(m.bytes) =>
                \E i : i \notin BadOf(s) /\ BadOf(Append(s, m)) = BadOf(s) \union {i}
           /\ ~(m.type = 1 /\ Bad(m.bytes)) => BadOf(Append(s, m)) = BadOf(s)
<1> PICK n \in Nat : n = Len(s)
  OBVIOUS
<1> PICK t : t = Append(s, m)
  OBVIOUS
<1>1. /\ DOMAIN s = 1 .. n /\ DOMAIN t = 1 .. n + 1 /\ t[n + 1] = m
      /\ \A i \in 1 .. n : t[i] = s[i]
  OBVIOUS
<1>2. /\ \A i : i \in BadOf(s) <=> i \in 1 .. n /\ s[i].type = 1 /\ Bad(s[i].bytes)
      /\ \A i : i \in BadOf(t) <=> i \in 1 .. n + 1 /\ t[i].type = 1 /\ Bad(t[i].bytes)
  BY <1>1, Zenon DEF BadOf
<1>3. /\ \A i : i \in 1 .. n + 1 <=> i \in 1 .. n \/ i = n + 1
      /\ n + 1 \notin 1 .. n
  OBVIOUS
<1>4. ASSUME NEW i, i # n + 1 PROVE i \in BadOf(t) <=> i \in BadOf(s)
  <2>1. CASE i \in 1 .. n
    <3>1. t[i] = s[i] /\ i \in 1 .. n + 1
      BY <1>1, <2>1
    <3> QED
      BY <1>2, <2>1, <3>1, Zenon
  <2>2. CASE i \notin 1 .. n
    <3>1. i \notin 1 .. n + 1
      BY <1>3, <1>4, <2>2
    <3> QED
      BY <1>2, <2>2, <3>1, Zenon
  <2> QED
    BY <2>1, <2>2
<1>5. n + 1 \notin BadOf(s) /\ (n + 1 \in BadOf(t) <=> m.type = 1 /\ Bad(m.bytes))
  BY <1>1, <1>2, <1>3, Zenon
<1>6. CASE n + 1 \in BadOf(t)
  <2>1. BadOf(t) = BadOf(s) \union {n + 1}
    BY <1>4, <1>5, <1>6
  <2> QED
    BY <1>5, <1>6, <2>1, Zenon
<1>7. CASE n + 1 \notin BadOf(t)
  <2>1. \A i : i \in BadOf(t) <=> i \in BadOf(s)
    BY <1>4, <1>5, <1>7, Zenon
  <2>2. BadOf(t) = BadOf(s)
    BY <1>2, <2>1
  <2> QED
    BY <1>5, <1>7, <2>2, Zenon
<1> QED
  BY <1>6, <1>7

\* A step of one thread leaves the others' errors as they are.
Moves(t, place) ==
    /\ \A q \in Readers : q # t => (q \in Coming' <=> q \in Coming)
    /\ t \in Readers => (t \in Coming' <=> IsComing(place, local'[t]))
    /\ t \in Readers => (t \in Coming <=> IsComing(pc[t], local[t]))
    /\ Coming \subseteq Readers /\ Coming' \subseteq Readers

LEMMA ComingMoves ==
    ASSUME Typed, NEW t \in Threads, NEW place, pc' = [pc EXCEPT ![t] = place],
           \A q \in Readers : q # t => local'[q] = local[q]
    PROVE  Moves(t, place)
<1>1. pc'[t] = place /\ \A q \in Readers : q # t => pc'[q] = pc[q]
  BY DEF Typed, Places, Threads
<1> QED
  BY <1>1, Zenon DEF Coming, Moves

\* What that does to the set.
LEMMA MovesFacts ==
    ASSUME NEW r \in Readers, NEW place, Moves(r, place)
    PROVE  /\ r \in Coming' <=> IsComing(place, local'[r])
           /\ r \in Coming <=> IsComing(pc[r], local[r])
           /\ (r \in Coming' <=> r \in Coming) => Coming' = Coming
           /\ r \in Coming' => Coming' = Coming \union {r}
           /\ r \notin Coming' => Coming' = Coming \ {r}
<1>1. \A q : q # r => (q \in Coming' <=> q \in Coming)
  BY DEF Moves
<1>2. /\ r \in Coming' <=> IsComing(place, local'[r])
      /\ r \in Coming <=> IsComing(pc[r], local[r])
  BY Zenon DEF Moves
<1>3. (r \in Coming' <=> r \in Coming) => Coming' = Coming
  BY <1>1
<1>4. r \in Coming' => Coming' = Coming \union {r}
  BY <1>1
<1>5. r \notin Coming' => Coming' = Coming \ {r}
  BY <1>1
<1> QED
  BY <1>2, <1>3, <1>4, <1>5, Zenon

\* Where neither the old nor the new place of the thread is one before an error.
LEMMA ComingKept ==
    ASSUME Typed, NEW t \in Threads, NEW place, pc' = [pc EXCEPT ![t] = place],
           \A q \in Readers : q # t => local'[q] = local[q],
           pc[t] \notin {"parse", "report"}, place \notin {"parse", "report"}
    PROVE  Coming' = Coming
<1>1. Moves(t, place)
  BY ComingMoves
<1>2. t \in Readers => t \notin Coming' /\ t \notin Coming
  BY <1>1 DEF IsComing, Moves
<1>3. \A q \in Readers : q \in Coming' <=> q \in Coming
  BY <1>1, <1>2 DEF Moves
<1> QED
  BY <1>1, <1>3 DEF Moves

\* Where no set changes.
LEMMA CountedKept ==
    ASSUME Counted, Coming' = Coming, written' = written, read' = read
    PROVE  Counted'
<1>1. Errors' = Errors /\ BadRead' = BadRead
  BY DEF Errors, BadRead
<1> QED
  BY <1>1 DEF Counted

\* Where a thread moves between places that are not before an error.
LEMMA CountedPlace ==
    ASSUME Counted, Typed, NEW t \in Threads, NEW place, pc' = [pc EXCEPT ![t] = place],
           \A q \in Readers : q # t => local'[q] = local[q],
           pc[t] \notin {"parse", "report"}, place \notin {"parse", "report"},
           written' = written, read' = read
    PROVE  Counted'
BY ComingKept, CountedKept

\* The header: nothing is read whole, nothing is written.
LEMMA ReadingCounted ==
    ASSUME Counted, Typed, NEW r \in Readers,
           BeginRead(r) \/ Start(r) \/ Header(r) \/ FieldChar(r) \/ FieldCR(r)
              \/ LineFeed(r) \/ SocketThrows(r)
    PROVE  Counted'
<1>1. r \in Threads /\ pc[r] \notin {"parse", "report"}
  BY DEF Threads, BeginRead, Start, Header, FieldChar, FieldCR, LineFeed, SocketThrows,
     InHeader
<1>2. written' = written /\ read' = read
  BY DEF BeginRead, Start, Header, FieldChar, FieldCR, LineFeed, SocketThrows, outVars
<1>3. CASE Throw(r, "ConnectionError")
  <2>1. pc' = [pc EXCEPT ![r] = "idle"] /\ local' = [local EXCEPT ![r] = Fresh]
    BY <1>3 DEF Throw
  <2>2. \A q \in Readers : q # r => local'[q] = local[q]
    BY <2>1 DEF Typed, Data
  <2> QED
    BY <1>1, <1>2, <2>1, <2>2, CountedPlace
<1>4. CASE \E place \in Reading : \E l : GoOn(r, place, l)
  <2>1. PICK place \in Reading : \E l : GoOn(r, place, l)
    BY <1>4
  <2>2. PICK l : GoOn(r, place, l)
    BY <2>1
  <2>3. pc' = [pc EXCEPT ![r] = place] /\ local' = [local EXCEPT ![r] = l]
    BY <2>2 DEF GoOn
  <2>4. \A q \in Readers : q # r => local'[q] = local[q]
    BY <2>3 DEF Typed, Data
  <2>5. place \notin {"parse", "report"}
    BY ReadingFacts
  <2> QED
    BY <1>1, <1>2, <2>3, <2>4, <2>5, CountedPlace
<1>5. CASE BeginRead(r)
  <2>1. pc' = [pc EXCEPT ![r] = "start"] /\ local' = local
    BY <1>5 DEF BeginRead
  <2> QED
    BY <1>1, <1>2, <2>1, CountedPlace
<1>6. CASE Start(r) \/ Header(r)
  BY <1>3, <1>4, <1>6, ReadingFacts, Zenon DEF Start, Header
<1>7. CASE FieldChar(r) \/ FieldCR(r)
  BY <1>3, <1>4, <1>7, ReadingFacts, Zenon DEF FieldChar, FieldCR
<1>8. CASE LineFeed(r)
  BY <1>3, <1>4, <1>8, ReadingFacts, Zenon DEF LineFeed
<1>9. CASE SocketThrows(r)
  BY <1>3, <1>9 DEF SocketThrows
<1> QED
  BY <1>5, <1>6, <1>7, <1>8, <1>9

\* A bad content that is read is one more error to come.
LEMMA ReadBodyCounted ==
    ASSUME Counted, Typed, NEW r \in Readers, ReadBody(r)
    PROVE  Counted'
<1>1. PICK n \in Nat : \E k \in Nat : \E bytes \in Seq(Chars) : Taken(r, n, k, bytes)
  BY BodyFacts
<1>2. PICK bytes \in Seq(Chars) :
        /\ read' = Append(read, [bytes |-> bytes, type |-> local[r].type])
        /\ local' = [local EXCEPT ![r].content = bytes]
  BY <1>1, Zenon DEF Taken
<1>3. /\ r \in Threads /\ pc[r] = "body" /\ pc' = [pc EXCEPT ![r] = "parse"]
      /\ written' = written
  BY DEF ReadBody, outVars, Threads
<1>4. /\ \A q \in Readers : q # r => local'[q] = local[q]
      /\ local'[r].content = bytes /\ local'[r].type = local[r].type
  <2>1. local[r] \in HeaderType /\ DOMAIN local = Readers
    BY DEF Typed, Data
  <2> QED
    BY <1>2, <2>1 DEF HeaderType
<1>5. PICK m \in MessageType : m.bytes = bytes /\ m.type = local[r].type
                             /\ read' = Append(read, m)
  <2>1. [bytes |-> bytes, type |-> local[r].type] \in MessageType
    BY LocalFacts DEF MessageType
  <2> QED
    BY <1>2, <2>1
<1>6. Moves(r, "parse")
  BY <1>3, <1>4, ComingMoves
<1>7. r \notin Coming /\ (r \in Coming' <=> m.type = 1 /\ Bad(m.bytes))
  <2>1. /\ r \in Coming' <=> IsComing("parse", local'[r])
        /\ r \in Coming <=> IsComing("body", local[r])
    BY <1>3, <1>6, MovesFacts
  <2> QED
    BY <1>4, <1>5, <2>1 DEF IsComing
<1>8. Errors' = Errors
  BY <1>3 DEF Errors
<1>9. read \in Seq(MessageType)
  BY DEF Typed, Data
<1>10. CASE m.type = 1 /\ Bad(m.bytes)
  <2>1. Coming' = Coming \union {r}
    BY <1>6, <1>10, <1>7, MovesFacts
  <2>2. PICK i : i \notin BadRead /\ BadRead' = BadRead \union {i}
    BY <1>5, <1>9, <1>10, BadGrows DEF BadRead
  <2> QED
    <3>1. IsFiniteSet(Coming') /\ Cardinality(Coming') = Cardinality(Coming) + 1
      BY <1>7, <2>1, CountFacts DEF Counted
    <3>2. IsFiniteSet(BadRead') /\ Cardinality(BadRead') = Cardinality(BadRead) + 1
      BY <2>2, CountFacts DEF Counted
    <3>3. Cardinality(Coming) \in Nat /\ Cardinality(BadRead) \in Nat
          /\ Cardinality(Errors) \in Nat
      BY CountFacts DEF Counted
    <3> QED
      BY <1>8, <3>1, <3>2, <3>3 DEF Counted
<1>11. CASE ~(m.type = 1 /\ Bad(m.bytes))
  <2>1. Coming' = Coming
    BY <1>6, <1>11, <1>7, MovesFacts
  <2>2. BadRead' = BadRead
    BY <1>5, <1>9, <1>11, BadGrows DEF BadRead
  <2> QED
    BY <1>8, <2>1, <2>2 DEF Counted
<1> QED
  BY <1>10, <1>11

\* The parser's verdict: a good message is none, a bad one is reported.
LEMMA ParseCounted ==
    ASSUME Counted, Typed, NEW r \in Readers,
           ReturnMessage(r) \/ RejectMessage(r) \/ ReportError(r)
    PROVE  Counted'
<1>1. /\ pc[r] = "parse" /\ r \in Threads /\ local' = [local EXCEPT ![r] = Fresh]
      /\ UNCHANGED <<inVars, read, outVars>>
  BY ParseType
<1>2. written' = written /\ read' = read
  BY <1>1 DEF outVars
<1>3. \A q \in Readers : q # r => local'[q] = local[q]
  BY <1>1 DEF Typed, Data
<1>4. CASE ReturnMessage(r) \/ RejectMessage(r)
  <2>1. pc' = [pc EXCEPT ![r] = "idle"]
    BY <1>4 DEF ReturnMessage, RejectMessage, Throw
  <2>2. ~(local[r].type = 1 /\ Bad(local[r].content))
    BY <1>4 DEF ReturnMessage, RejectMessage, Bad
  <2>3. Moves(r, "idle")
    BY <1>1, <1>3, <2>1, ComingMoves
  <2>4. /\ r \in Coming' <=> IsComing("idle", local'[r])
        /\ r \in Coming <=> IsComing("parse", local[r])
    BY <1>1, <2>3, MovesFacts
  <2>5. r \notin Coming /\ r \notin Coming'
    BY <2>2, <2>4 DEF IsComing
  <2>6. Coming' = Coming
    BY <2>3, <2>5, MovesFacts
  <2> QED
    BY <1>2, <2>6, CountedKept
<1>5. CASE ReportError(r)
  <2>1. local[r].type = 1 /\ Bad(local[r].content) /\ pc' = [pc EXCEPT ![r] = "report"]
    BY <1>5 DEF ReportError, Bad, Reported
  <2>2. Moves(r, "report")
    BY <1>1, <1>3, <2>1, ComingMoves
  <2>3. /\ r \in Coming' <=> IsComing("report", local'[r])
        /\ r \in Coming <=> IsComing("parse", local[r])
    BY <1>1, <2>2, MovesFacts
  <2>4. r \in Coming /\ r \in Coming'
    BY <2>1, <2>3 DEF IsComing
  <2>5. Coming' = Coming
    BY <2>2, <2>4, MovesFacts
  <2> QED
    BY <1>2, <2>5, CountedKept
<1> QED
  BY <1>4, <1>5

\* An error that was to come is written.
LEMMA WriteErrorCounted ==
    ASSUME Counted, Typed, NEW r \in Readers, WriteError(r)
    PROVE  Counted'
<1>1. /\ pc[r] = "report" /\ r \in Threads /\ pc' = [pc EXCEPT ![r] = "write"]
      /\ written' = Append(written, Error) /\ local' = local /\ read' = read
  BY DEF WriteError, BeginWrite, Threads, readVars
<1>2. Moves(r, "write")
  BY <1>1, ComingMoves
<1>3. r \in Coming /\ r \notin Coming'
  <2>1. /\ r \in Coming' <=> IsComing("write", local'[r])
        /\ r \in Coming <=> IsComing("report", local[r])
    BY <1>1, <1>2, MovesFacts
  <2> QED
    BY <2>1 DEF IsComing
<1>4. Coming' = Coming \ {r}
  BY <1>3, <1>2, MovesFacts
<1>5. PICK i : i \notin Errors /\ Errors' = Errors \union {i}
  BY <1>1, ErrorsGrow, ContentsAssumption DEF Errors, Typed, Data
<1>6. BadRead' = BadRead
  BY <1>1 DEF BadRead
<1> QED
  <2>1. IsFiniteSet(Coming') /\ Cardinality(Coming') = Cardinality(Coming) - 1
    BY <1>3, <1>4, CountFacts DEF Counted
  <2>2. IsFiniteSet(Errors') /\ Cardinality(Errors') = Cardinality(Errors) + 1
    BY <1>5, CountFacts DEF Counted
  <2>3. Cardinality(Coming) \in Nat /\ Cardinality(BadRead) \in Nat
        /\ Cardinality(Errors) \in Nat
    BY CountFacts DEF Counted
  <2> QED
    BY <1>6, <2>1, <2>2, <2>3 DEF Counted

\* What writers write is no error.
LEMMA WriterCounted ==
    ASSUME Counted, Typed
    PROVE  /\ \A w \in Writers : writeMessage(w) => Counted'
           /\ \A t \in Threads : WriteStep(t) => Counted'
<1>1. ASSUME NEW w \in Writers, writeMessage(w) PROVE Counted'
  <2>1. PICK c \in Contents : c # Error /\ BeginWrite(w, c)
    BY <1>1 DEF writeMessage
  <2>2. /\ w \in Threads /\ pc[w] = "idle" /\ pc' = [pc EXCEPT ![w] = "write"]
        /\ written' = Append(written, c) /\ local' = local /\ read' = read
    BY <1>1, <2>1 DEF writeMessage, BeginWrite, Threads, readVars
  <2>3. Errors' = Errors
    <3>1. written \in Seq(Contents) /\ c # Error /\ c \in Contents
      BY <2>1 DEF Typed, Data
    <3> QED
      BY <2>2, <3>1, ErrorsGrow DEF Errors
  <2>4. Coming' = Coming
    BY <2>2, ComingKept
  <2>5. BadRead' = BadRead
    BY <2>2 DEF BadRead
  <2> QED
    BY <2>3, <2>4, <2>5 DEF Counted
<1>2. ASSUME NEW t \in Threads, WriteStep(t) PROVE Counted'
  <2>1. /\ pc[t] = "write" /\ written' = written /\ local' = local /\ read' = read
        /\ pc' = pc \/ pc' = [pc EXCEPT ![t] = "idle"]
    BY <1>2 DEF WriteStep, WriteSome, WriteEnds, WriteFails, readVars
  <2>2. CASE pc' = pc
    BY <2>1, <2>2, CountedKept DEF Coming
  <2>3. CASE pc' = [pc EXCEPT ![t] = "idle"]
    <3>1. /\ pc[t] \notin {"parse", "report"} /\ "idle" \notin {"parse", "report"}
          /\ \A q \in Readers : q # t => local'[q] = local[q]
      BY <2>1
    <3> QED
      BY <2>1, <2>3, <3>1, CountedPlace, Zenon
  <2> QED
    BY <2>1, <2>2, <2>3
<1> QED
  BY <1>1, <1>2

\* Nothing is read and nothing written in the beginning,
LEMMA InitCounted == Init => Counted
<1> SUFFICES ASSUME Init PROVE Counted
  OBVIOUS
<1>1. Errors = {} /\ Coming = {} /\ BadRead = {}
  BY DEF Init, Errors, ErrorsOf, Coming, IsComing, BadRead, BadOf, Threads
<1> QED
  BY <1>1, FS_EmptySet DEF Counted

\* and every step keeps the count.
LEMMA NextCounted == Counted /\ Typed /\ [Next]_vars => Counted'
<1> SUFFICES ASSUME Counted, Typed, [Next]_vars PROVE Counted'
  OBVIOUS
<1>1. CASE PeerSends \/ PeerCloses \/ OutputBreaks
  <2>1. written' = written /\ read' = read /\ pc' = pc /\ local' = local
    BY <1>1 DEF PeerSends, PeerCloses, OutputBreaks, readVars, outVars
  <2> QED
    BY <2>1, CountedKept DEF Coming
<1>2. ASSUME NEW r \in Readers, BeginRead(r) \/ ReadStep(r) PROVE Counted'
  BY <1>2, ReadingCounted, ReadBodyCounted, ParseCounted, WriteErrorCounted DEF ReadStep
<1>3. CASE UNCHANGED vars
  <2>1. written' = written /\ read' = read /\ pc' = pc /\ local' = local
    BY <1>3 DEF vars, readVars, outVars
  <2> QED
    BY <2>1, CountedKept DEF Coming
<1> QED
  BY <1>1, <1>2, <1>3, WriterCounted DEF Next

\* Every bad content that was read is answered by one error response, which is
\* written, or still to be written by the reader that holds the exception: with any
\* number of threads, whatever fails.
THEOREM ErrorsReported == Spec => []ErrorsAreReported
<1>1. Init => Typed /\ Counted
  BY InitTyped, InitCounted
<1>2. Typed /\ Counted /\ [Next]_vars => Typed' /\ Counted'
  BY NextTyped, NextCounted
<1> QED
  BY <1>1, <1>2, CountedIsReported, PTL DEF Spec

-----------------------------------------------------------------------------
(* FramesAreWrittenWhole: what is on the stream and what the holder of the      *)
(* mutex still has to write are the frames written so far, one after the other. *)

FramesOf(s) == [i \in DOMAIN s |-> FrameOf(s[i])]
Whole(s) == FlattenSeq(FramesOf(s))
Rest == IF writeLock = <<>> THEN <<>> ELSE buffer[writeLock[1]]
Framed == IF broken THEN IsPrefix(output, Whole(written)) ELSE output \o Rest = Whole(written)

\* The invariant is the property.
LEMMA FramedIsWhole == Framed <=> FramesAreWrittenWhole
BY DEF Framed, FramesAreWrittenWhole, Whole, FramesOf, Rest

\* Append, element by element.
LEMMA AppendIs ==
    ASSUME NEW Q, NEW u \in Seq(Q), NEW x \in Q, NEW n \in Nat, Len(u) = n
    PROVE  Append(u, x) = [i \in 1 .. n + 1 |-> IF i = n + 1 THEN x ELSE u[i]]
<1> PICK t : t = Append(u, x)
  OBVIOUS
<1>1. t \in Seq(Q) /\ Len(t) = n + 1
  OBVIOUS
<1>2. \A i \in 1 .. n + 1 : t[i] = IF i = n + 1 THEN x ELSE u[i]
  OBVIOUS
<1>3. t = [i \in 1 .. n + 1 |-> t[i]]
  <2>1. t \in [1 .. n + 1 -> Q]
    BY <1>1, LenProperties
  <2> QED
    BY <2>1
<1>4. [i \in 1 .. n + 1 |-> t[i]] = [i \in 1 .. n + 1 |-> IF i = n + 1 THEN x ELSE u[i]]
  BY <1>2
<1> QED
  BY <1>3, <1>4

\* One more frame.
LEMMA WholeGrows ==
    ASSUME NEW s \in Seq(Contents), NEW c \in Contents
    PROVE  /\ Whole(s) \in Seq(Chars) /\ FrameOf(c) \in Seq(Chars)
           /\ Whole(Append(s, c)) = Whole(s) \o FrameOf(c)
<1>1. FrameOf(c) \in Seq(Chars)
  BY FrameFacts
<1>2. FramesOf(s) \in Seq(Seq(Chars))
  <2> PICK Q : Q = Seq(Chars)
    OBVIOUS
  <2>1. DOMAIN s = 1 .. Len(s) /\ Len(s) \in Nat /\ \A i \in 1 .. Len(s) : s[i] \in Contents
    OBVIOUS
  <2>2. \A i \in 1 .. Len(s) : FrameOf(s[i]) \in Q
    BY <2>1, FrameFacts
  <2>3. [i \in 1 .. Len(s) |-> FrameOf(s[i])] \in Seq(Q)
    BY <2>1, <2>2
  <2> QED
    BY <2>1, <2>3 DEF FramesOf
<1>3. FramesOf(Append(s, c)) = Append(FramesOf(s), FrameOf(c))
  <2> PICK n \in Nat : n = Len(s)
    OBVIOUS
  <2> PICK t : t = Append(s, c)
    OBVIOUS
  <2> PICK u : u = FramesOf(s)
    OBVIOUS
  <2> PICK x : x = FrameOf(c)
    OBVIOUS
  <2>1. /\ DOMAIN s = 1 .. n /\ DOMAIN t = 1 .. n + 1 /\ t[n + 1] = c
        /\ \A i \in 1 .. n : t[i] = s[i]
    OBVIOUS
  <2>2. u \in Seq(Seq(Chars)) /\ DOMAIN u = 1 .. n /\ Len(u) = n
        /\ \A i \in 1 .. n : u[i] = FrameOf(s[i])
    <3>1. DOMAIN u = 1 .. n /\ \A i \in 1 .. n : u[i] = FrameOf(s[i])
      BY <2>1 DEF FramesOf
    <3> QED
      BY <1>2, <3>1
  <2>3. FramesOf(t) = [i \in 1 .. n + 1 |-> FrameOf(t[i])]
    BY <2>1 DEF FramesOf
  <2>4. Append(u, x) = [i \in 1 .. n + 1 |-> IF i = n + 1 THEN x ELSE u[i]]
    <3> PICK Q : Q = Seq(Chars)
      OBVIOUS
    <3>1. u \in Seq(Q) /\ x \in Q /\ Len(u) = n
      BY <1>1, <2>2
    <3> QED
      BY <3>1, AppendIs
  <2>5. \A i \in 1 .. n + 1 : FrameOf(t[i]) = IF i = n + 1 THEN x ELSE u[i]
    <3>1. FrameOf(t[n + 1]) = x
      BY <2>1
    <3>2. ASSUME NEW i \in 1 .. n PROVE FrameOf(t[i]) = u[i]
      BY <2>1, <2>2, Zenon
    <3>3. \A i \in 1 .. n + 1 : i = n + 1 \/ i \in 1 .. n
      OBVIOUS
    <3>4. n + 1 \notin 1 .. n
      OBVIOUS
    <3> QED
      BY <3>1, <3>2, <3>3, <3>4, Zenon
  <2> QED
    BY <2>3, <2>4, <2>5
<1>4. Whole(s) \in Seq(Chars) /\ Whole(Append(s, c)) = Whole(s) \o FrameOf(c)
  BY <1>1, <1>2, <1>3, FlattenFacts DEF Whole
<1> QED
  BY <1>1, <1>4

\* Sequences that grow, and a beginning of one.
LEMMA PrefixFacts ==
    ASSUME NEW S, NEW s \in Seq(S), NEW t \in Seq(S)
    PROVE  /\ s \o <<>> = s
           /\ IsPrefix(s, s \o t)
           /\ \A u \in Seq(S) : IsPrefix(s, t) => IsPrefix(s, t \o u)
           /\ t # <<>> => Append(s, Head(t)) \o Tail(t) = s \o t
<1>1. s \o <<>> = s
  OBVIOUS
<1>2. IsPrefix(s, s \o t)
  BY DEF IsPrefix
<1>3. ASSUME NEW u \in Seq(S), IsPrefix(s, t) PROVE IsPrefix(s, t \o u)
  BY <1>3 DEF IsPrefix
<1>4. t # <<>> => Append(s, Head(t)) \o Tail(t) = s \o t
  OBVIOUS
<1> QED
  BY <1>1, <1>2, <1>3, <1>4

\* A step that writes nothing keeps it.
LEMMA FramedKept ==
    ASSUME Framed, UNCHANGED outVars
    PROVE  Framed'
BY DEF Framed, Rest, outVars

\* A new frame follows what is written, since the mutex was free.
LEMMA BeginWriteFramed ==
    ASSUME Framed, Typed, NEW t, NEW c \in Contents, BeginWrite(t, c), t \in Threads
    PROVE  Framed'
<1>1. /\ writeLock = <<>> /\ writeLock' = <<t>>
      /\ buffer' = [buffer EXCEPT ![t] = FrameOf(c)] /\ written' = Append(written, c)
      /\ output' = output /\ broken' = broken
  BY DEF BeginWrite, MayWrite
<1>2. Rest = <<>> /\ Rest' = FrameOf(c)
  BY <1>1 DEF Rest, Typed, Data
<1>3. written \in Seq(Contents) /\ output \in Seq(Chars)
  BY DEF Typed, Data
<1>4. /\ Whole(written) \in Seq(Chars) /\ FrameOf(c) \in Seq(Chars)
      /\ Whole(written') = Whole(written) \o FrameOf(c)
  BY <1>1, <1>3, WholeGrows
<1>5. CASE broken
  <2>1. IsPrefix(output, Whole(written))
    BY <1>5 DEF Framed
  <2>2. IsPrefix(output, Whole(written) \o FrameOf(c))
    BY <1>3, <1>4, <2>1, PrefixFacts
  <2> QED
    BY <1>1, <1>4, <1>5, <2>2 DEF Framed
<1>6. CASE ~broken
  <2>1. output = Whole(written)
    BY <1>2, <1>3, <1>6, PrefixFacts DEF Framed
  <2> QED
    BY <1>1, <1>2, <1>4, <1>6, <2>1 DEF Framed
<1> QED
  BY <1>5, <1>6

\* A character moves from the buffer to the stream, or the holder leaves.
LEMMA WriteStepFramed ==
    ASSUME Framed, Typed, NEW t \in Threads, WriteStep(t)
    PROVE  Framed'
<1>1. pc[t] = "write" /\ writeLock = <<t>> /\ Rest = buffer[t]
  BY DEF WriteStep, WriteSome, WriteEnds, WriteFails, Typed, Places, Rest
<1>2. output \in Seq(Chars) /\ buffer[t] \in Seq(Chars) /\ DOMAIN buffer = Threads
  BY DEF Typed, Data
<1>3. CASE WriteSome(t)
  <2>1. /\ ~broken /\ buffer[t] # <<>> /\ output' = Append(output, Head(buffer[t]))
        /\ buffer' = [buffer EXCEPT ![t] = Tail(buffer[t])]
        /\ UNCHANGED <<writeLock, written, broken>>
    BY <1>3 DEF WriteSome
  <2>2. Rest' = Tail(buffer[t])
    BY <1>1, <1>2, <2>1 DEF Rest
  <2>3. output' \o Rest' = output \o Rest
    BY <1>1, <1>2, <2>1, <2>2, PrefixFacts
  <2> QED
    BY <2>1, <2>3 DEF Framed
<1>4. CASE WriteEnds(t)
  <2>1. /\ buffer[t] = <<>> /\ writeLock' = <<>>
        /\ UNCHANGED <<output, written, broken>>
    BY <1>4 DEF WriteEnds, WriteUnlock
  <2>2. Rest' = Rest
    BY <1>1, <2>1 DEF Rest
  <2> QED
    BY <2>1, <2>2 DEF Framed
<1>5. CASE WriteFails(t)
  BY <1>5 DEF WriteFails, Framed
<1> QED
  BY <1>3, <1>4, <1>5 DEF WriteStep

\* Nothing is written in the beginning,
LEMMA InitFramed == Init => Framed
<1> SUFFICES ASSUME Init PROVE Framed
  OBVIOUS
<1>1. output = <<>> /\ Rest = <<>> /\ written = <<>> /\ ~broken
  BY DEF Init, Rest
<1>2. FramesOf(<<>>) = <<>>
  BY DEF FramesOf
<1>3. Whole(<<>>) = <<>>
  BY <1>2 DEF Whole, FlattenSeq
<1> QED
  BY <1>1, <1>3 DEF Framed

\* and every step keeps the frames whole.
LEMMA NextFramed == Framed /\ Typed /\ [Next]_vars => Framed'
<1> SUFFICES ASSUME Framed, Typed, [Next]_vars PROVE Framed'
  OBVIOUS
<1>1. CASE PeerSends \/ PeerCloses \/ UNCHANGED vars
  BY <1>1, FramedKept DEF PeerSends, PeerCloses, vars
<1>2. CASE OutputBreaks
  <2>1. ~broken /\ broken' /\ UNCHANGED <<writeLock, buffer, output, written>>
    BY <1>2 DEF OutputBreaks
  <2>2. output \o Rest = Whole(written)
    BY <2>1 DEF Framed
  <2>3. Rest \in Seq(Chars) /\ output \in Seq(Chars)
    <3>1. writeLock # <<>> => \E t \in Threads : writeLock = <<t>>
      BY DEF Typed, Places
    <3>2. <<>> \in Seq(Chars)
      OBVIOUS
    <3> QED
      BY <3>1, <3>2 DEF Rest, Typed, Data
  <2>4. IsPrefix(output, Whole(written))
    BY <2>2, <2>3, PrefixFacts
  <2> QED
    BY <2>1, <2>4 DEF Framed
<1>3. ASSUME NEW r \in Readers, BeginRead(r) \/ ReadStep(r) PROVE Framed'
  <2>1. CASE UNCHANGED outVars
    BY <2>1, FramedKept
  <2>2. CASE WriteError(r)
    BY <2>2, BeginWriteFramed, ContentsAssumption DEF WriteError, Threads
  <2> QED
    BY <1>3, <2>1, <2>2 DEF ReadStep, BeginRead, Start, Header, FieldChar, FieldCR, LineFeed,
       ReadBody, SocketThrows, ReturnMessage, RejectMessage, ReportError
<1>4. ASSUME NEW w \in Writers, writeMessage(w) PROVE Framed'
  <2>1. PICK c \in Contents : BeginWrite(w, c)
    BY <1>4 DEF writeMessage
  <2> QED
    BY <2>1, BeginWriteFramed DEF Threads
<1> QED
  BY <1>1, <1>2, <1>3, <1>4, WriteStepFramed DEF Next

\* Writers, and readers that report an error, put whole frames on the stream, one
\* after the other, until a write fails; what is on it is then a beginning of that.
THEOREM FramesWrittenWhole == Spec => []FramesAreWrittenWhole
<1>1. Init => Typed /\ Framed
  BY InitTyped, InitFramed
<1>2. Typed /\ Framed /\ [Next]_vars => Typed' /\ Framed'
  BY NextTyped, NextFramed
<1> QED
  BY <1>1, <1>2, FramedIsWhole, PTL DEF Spec

-----------------------------------------------------------------------------
(* MessagesAreReadWhole.  Where each character of a frame is: line i of n is at *)
(* 3i - 2, with its line end after it, the empty line at 3n + 1, then the       *)
(* content.                                                                     *)

\* What the lines of a header with their line ends look like, the first k of them.
LinesAt(s, k, x) ==
    /\ x \in Seq(Chars) /\ Len(x) = 3 * k
    /\ \A i \in 1 .. k : x[3 * i - 2] = s[i] /\ x[3 * i - 1] = CR /\ x[3 * i] = LF

\* x is s with t after it, of the lengths m and n.
Concatenates(Q, s, m, t, n, x) ==
    /\ x \in Seq(Q) /\ Len(x) = m + n
    /\ \A i \in 1 .. m : x[i] = s[i]
    /\ \A i \in 1 .. n : x[m + i] = t[i]

\* Two sequences, one after the other.
LEMMA ConcatAt ==
    ASSUME NEW Q, NEW s \in Seq(Q), NEW t \in Seq(Q), NEW m \in Nat, NEW n \in Nat,
           Len(s) = m, Len(t) = n
    PROVE  Concatenates(Q, s, m, t, n, s \o t)
BY DEF Concatenates

\* One more line.
LEMMA LinesGrow ==
    ASSUME NEW s, NEW k \in Nat, NEW x, LinesAt(s, k, x), s[k + 1] \in Chars
    PROVE  LinesAt(s, k + 1, x \o <<s[k + 1], CR, LF>>)
<1> PICK c : c = s[k + 1]
  OBVIOUS
<1> PICK y : y = x \o <<c, CR, LF>>
  OBVIOUS
<1>1. x \in Seq(Chars) /\ Len(x) = 3 * k /\ c \in Chars /\ CR \in Chars /\ LF \in Chars
  BY CharsFacts DEF LinesAt
<1>2. <<c, CR, LF>> \in Seq(Chars)
  BY <1>1
<1>3. y \in Seq(Chars) /\ Len(y) = 3 * k + 3
  BY <1>1, <1>2
<1>4. \A i \in 1 .. 3 * k : y[i] = x[i]
  BY <1>1, <1>2
<1>5. y[3 * k + 1] = c /\ y[3 * k + 2] = CR /\ y[3 * k + 3] = LF
  BY <1>1, <1>2
<1>6. ASSUME NEW i \in 1 .. k + 1
      PROVE  y[3 * i - 2] = s[i] /\ y[3 * i - 1] = CR /\ y[3 * i] = LF
  <2>1. CASE i \in 1 .. k
    <3>1. 3 * i - 2 \in 1 .. 3 * k /\ 3 * i - 1 \in 1 .. 3 * k /\ 3 * i \in 1 .. 3 * k
      BY <2>1
    <3>2. x[3 * i - 2] = s[i] /\ x[3 * i - 1] = CR /\ x[3 * i] = LF
      BY <2>1 DEF LinesAt
    <3> QED
      BY <1>4, <3>1, <3>2
  <2>2. CASE i = k + 1
    <3>1. 3 * i - 2 = 3 * k + 1 /\ 3 * i - 1 = 3 * k + 2 /\ 3 * i = 3 * k + 3
      BY <2>2
    <3> QED
      BY <1>5, <2>2, <3>1
  <2>3. i \in 1 .. k \/ i = k + 1
    OBVIOUS
  <2> QED
    BY <2>1, <2>2, <2>3
<1>7. 3 * (k + 1) = 3 * k + 3
  OBVIOUS
<1> QED
  BY <1>3, <1>6, <1>7 DEF LinesAt

\* So it is with all the lines of a header.
LEMMA HeaderElements ==
    ASSUME NEW lines \in Seq(Lines)
    PROVE  LinesAt(lines, Len(lines), FlattenSeq(Ended(lines)))
<1> PICK n \in Nat : n = Len(lines)
  OBVIOUS
<1> PICK e : e = Ended(lines)
  OBVIOUS
<1>1. \A i \in 1 .. n : lines[i] \in Chars
  BY CharsFacts
<1>2. e \in Seq(Seq(Chars)) /\ Len(e) = n
      /\ \A i \in 1 .. n : e[i] = <<lines[i], CR, LF>>
  <2>1. e \in Seq(Seq(Chars))
    <3>1. PICK c : c \in Contents
      BY ContentsAssumption
    <3> QED
      BY <3>1, EncodeFacts
  <2>2. DOMAIN e = 1 .. n /\ \A i \in 1 .. n : e[i] = <<lines[i], CR, LF>>
    BY DEF Ended
  <2> QED
    BY <2>1, <2>2
<1>3. CASE n = 0
  <2>1. FlattenSeq(e) = <<>>
    BY <1>2, <1>3 DEF FlattenSeq
  <2>2. LinesAt(lines, 0, <<>>)
    BY DEF LinesAt
  <2> QED
    BY <1>3, <2>1, <2>2
<1>4. CASE n # 0
  <2>1. PICK f \in [1 .. n -> Seq(Chars)] : Joins(e, f)
    BY <1>2, JoinsExists
  <2> DEFINE T == {k \in Nat : k \in 1 .. n => LinesAt(lines, k, f[k])}
  <2>2. 0 \in T
    OBVIOUS
  <2>3. ASSUME NEW k \in Nat, k \in T PROVE k + 1 \in T
    <3> SUFFICES ASSUME k + 1 \in 1 .. n PROVE LinesAt(lines, k + 1, f[k + 1])
      OBVIOUS
    <3>1. (k + 1) - 1 = k /\ lines[k + 1] \in Chars /\ e[k + 1] = <<lines[k + 1], CR, LF>>
      BY <1>1, <1>2
    <3>2. f[k + 1] = IF k + 1 = 1 THEN e[k + 1] ELSE f[(k + 1) - 1] \o e[k + 1]
      BY <1>2, <2>1 DEF Joins
    <3>3. CASE k = 0
      <4>1. LinesAt(lines, 0, <<>>)
        BY DEF LinesAt
      <4>2. LinesAt(lines, 0 + 1, <<>> \o <<lines[0 + 1], CR, LF>>)
        BY <3>1, <3>3, <4>1, LinesGrow
      <4>3. <<>> \o <<lines[k + 1], CR, LF>> = f[k + 1]
        BY <3>1, <3>2, <3>3, CharsFacts
      <4> QED
        BY <3>3, <4>2, <4>3
    <3>4. CASE k # 0
      <4>1. LinesAt(lines, k, f[k])
        BY <2>3, <3>4
      <4>2. LinesAt(lines, k + 1, f[k] \o <<lines[k + 1], CR, LF>>)
        BY <3>1, <4>1, LinesGrow
      <4>3. f[k + 1] = f[k] \o <<lines[k + 1], CR, LF>>
        BY <3>1, <3>2, <3>4
      <4> QED
        BY <4>2, <4>3
    <3> QED
      BY <3>3, <3>4
  <2>4. Nat \subseteq T
    <3> HIDE DEF T
    <3> QED
      BY <2>2, <2>3, SetInduction
  <2>5. LinesAt(lines, n, f[n])
    BY <1>4, <2>4
  <2>6. FlattenSeq(e) = f[n]
    BY <1>2, <1>4, <2>1, FlattenIsJoin
  <2> QED
    BY <2>5, <2>6
<1> QED
  BY <1>3, <1>4

\* The characters of a whole frame.
FrameLength(f) == 3 * Len(f.lines) + 2 + Size[f.content]

CharsAt(s, n, c, k, x) ==
    /\ x \in Seq(Chars) /\ Len(x) = 3 * n + 2 + k
    /\ \A i \in 1 .. n : x[3 * i - 2] = s[i] /\ x[3 * i - 1] = CR /\ x[3 * i] = LF
    /\ x[3 * n + 1] = CR /\ x[3 * n + 2] = LF
    /\ \A i \in 1 .. k : x[3 * n + 2 + i] = Char(c, i)

FrameAt(f, x) == CharsAt(f.lines, Len(f.lines), f.content, Size[f.content], x)

\* The header, the empty line and the content, one after the other.
LEMMA PiecesAt ==
    ASSUME NEW s, NEW n \in Nat, NEW h, LinesAt(s, n, h), NEW end, NEW g, NEW x,
           NEW k \in Nat, NEW b, NEW c, end[1] = CR, end[2] = LF,
           \A i \in 1 .. k : b[i] = Char(c, i),
           Concatenates(Chars, h, 3 * n, end, 2, g), Concatenates(Chars, g, 3 * n + 2, b, k, x)
    PROVE  CharsAt(s, n, c, k, x)
<1>1. \A j \in 1 .. 3 * n : j \in 1 .. 3 * n + 2
  OBVIOUS
<1>2. \A j \in 1 .. 3 * n : x[j] = h[j]
  BY <1>1 DEF Concatenates
<1>3. ASSUME NEW i \in 1 .. n
      PROVE  x[3 * i - 2] = s[i] /\ x[3 * i - 1] = CR /\ x[3 * i] = LF
  <2>1. 3 * i - 2 \in 1 .. 3 * n /\ 3 * i - 1 \in 1 .. 3 * n /\ 3 * i \in 1 .. 3 * n
    OBVIOUS
  <2> QED
    BY <1>2, <2>1 DEF LinesAt
<1>4. x[3 * n + 1] = CR /\ x[3 * n + 2] = LF
  <2>1. 3 * n + 1 \in 1 .. 3 * n + 2 /\ 3 * n + 2 \in 1 .. 3 * n + 2
        /\ 1 \in 1 .. 2 /\ 2 \in 1 .. 2
    OBVIOUS
  <2> QED
    BY <2>1 DEF Concatenates
<1>5. \A i \in 1 .. k : x[3 * n + 2 + i] = Char(c, i)
  BY DEF Concatenates
<1>6. x \in Seq(Chars) /\ Len(x) = 3 * n + 2 + k
  BY DEF Concatenates
<1> QED
  BY <1>3, <1>4, <1>5, <1>6 DEF CharsAt

\* Encode makes such characters, and at least one.
LEMMA FrameElements ==
    ASSUME NEW f \in Frames
    PROVE  FrameAt(f, Encode(f.lines, f.content)) /\ FrameLength(f) \in Nat \ {0}
<1>1. f.content \in Contents /\ f.lines \in Seq(Lines) /\ Len(f.lines) \in Nat
  BY CharsAssumption
<1> DEFINE h == FlattenSeq(Ended(f.lines))
           b == Bytes(f.content)
           g == h \o <<CR, LF>>
           x == g \o b
<1>2. LinesAt(f.lines, Len(f.lines), h)
  BY <1>1, HeaderElements
<1>3. b \in Seq(Chars) /\ Len(b) = Size[f.content] /\ Size[f.content] \in Nat
  BY <1>1, BytesFacts
<1>4. \A i \in 1 .. Size[f.content] : b[i] = Char(f.content, i)
  BY DEF Bytes
<1>5. h \in Seq(Chars) /\ Len(h) = 3 * Len(f.lines)
  BY <1>2 DEF LinesAt
<1>6. <<CR, LF>> \in Seq(Chars) /\ Len(<<CR, LF>>) = 2
      /\ <<CR, LF>>[1] = CR /\ <<CR, LF>>[2] = LF
  BY CharsFacts
<1>7. x = Encode(f.lines, f.content)
  BY <1>1, EncodeFacts
<1> HIDE DEF h, b
<1>8. Concatenates(Chars, h, 3 * Len(f.lines), <<CR, LF>>, 2, g)
  <2>1. 3 * Len(f.lines) \in Nat
    BY <1>1
  <2> QED
    BY <1>5, <1>6, <2>1, ConcatAt
<1> HIDE DEF g
<1>9. Concatenates(Chars, g, 3 * Len(f.lines) + 2, b, Size[f.content], x)
  <2>1. 3 * Len(f.lines) + 2 \in Nat
    BY <1>1
  <2>2. g \in Seq(Chars) /\ Len(g) = 3 * Len(f.lines) + 2
    BY <1>8 DEF Concatenates
  <2> QED
    BY <1>3, <2>1, <2>2, ConcatAt
<1> HIDE DEF x
<1>10. FrameAt(f, x)
  <2>1. Len(f.lines) \in Nat /\ Size[f.content] \in Nat
        /\ <<CR, LF>>[1] = CR /\ <<CR, LF>>[2] = LF
    BY <1>1, <1>3, <1>6
  <2>2. CharsAt(f.lines, Len(f.lines), f.content, Size[f.content], x)
    BY <1>2, <1>4, <1>8, <1>9, <2>1, PiecesAt
  <2> QED
    BY <2>2, Zenon DEF FrameAt
<1>11. FrameLength(f) \in Nat \ {0}
  <2>1. \A n, k \in Nat : 3 * n + 2 + k \in Nat \ {0}
    OBVIOUS
  <2> QED
    BY <1>1, <1>3, <2>1, Zenon DEF FrameLength
<1> QED
  BY <1>7, <1>10, <1>11

\* A header field is no line end and no Eof, and here it is no bad length.
LEMMA LineFacts ==
    ASSUME SoundPeer, NEW f \in Frames
    PROVE  /\ Len(f.lines) \in Nat /\ Size[f.content] \in Nat
           /\ \A i \in 1 .. Len(f.lines) :
                 /\ f.lines[i] # CR /\ f.lines[i] # LF /\ f.lines[i] # Eof
                 /\ f.lines[i] # BadLength
                 /\ f.lines[i].c = "Content-Length" => f.lines[i].n = Size[f.content]
<1>1. Size[f.content] \in Nat
  BY CharsAssumption, ContentsAssumption
<1>2. f.lines \in Seq(FieldLines)
  BY DEF SoundPeer
<1>3. /\ DOMAIN f.lines = 1 .. Len(f.lines) /\ Len(f.lines) \in Nat
      /\ \A i \in 1 .. Len(f.lines) : f.lines[i] \in FieldLines
  BY <1>2, SeqFacts
<1>4. \A y \in FieldLines : y # CR /\ y # LF /\ y # Eof
  BY DEF FieldLines, BadLength, GoodType, BadType, OtherField, CR, LF, Eof, Char
<1>5. \A i \in 1 .. Len(f.lines) :
         f.lines[i].c = "Content-Length" => f.lines[i].n = Size[f.content]
  BY <1>3 DEF SoundPeer
<1>6. BadLength.c = "Content-Length" /\ BadLength.n \notin Nat
  BY DEF BadLength, Char
<1> QED
  BY <1>1, <1>3, <1>4, <1>5, <1>6

\* The content length that a header's first i lines give.
Seen(f, i, l) ==
    l.length = IF \E j \in 1 .. i : f.lines[j].c = "Content-Length"
               THEN Size[f.content] ELSE 0

\* Where a reader is when q characters of the frame are behind it.
AtHeader(f, i, l, q) ==
    i \in 0 .. Len(f.lines) /\ q = 3 * i /\ l.line = <<>> /\ Seen(f, i, l)
AtField(f, i, l, q) ==
    i \in 1 .. Len(f.lines) /\ q = 3 * i - 3 /\ l.line = <<>> /\ Seen(f, i - 1, l)
AtLineEnd(f, i, l, q) ==
    i \in 1 .. Len(f.lines) /\ q = 3 * i - 2 /\ l.line = <<f.lines[i]>> /\ Seen(f, i - 1, l)
AtFieldEnd(f, i, l, q) ==
    i \in 1 .. Len(f.lines) /\ q = 3 * i - 1 /\ l.line = <<>> /\ Seen(f, i, l)

At(f, place, l, q) ==
    /\ place = "header" => \E i : AtHeader(f, i, l, q)
    /\ place = "field" => \E i : AtField(f, i, l, q) \/ AtLineEnd(f, i, l, q)
    /\ place = "fieldEnd" => \E i : AtFieldEnd(f, i, l, q)
    /\ place = "headerEnd" => q = 3 * Len(f.lines) + 1 /\ Seen(f, Len(f.lines), l)
    /\ place = "body" => q = 3 * Len(f.lines) + 2 /\ Seen(f, Len(f.lines), l)

\* One place at a time.
LEMMA AtPlaces ==
    ASSUME NEW f, NEW l, NEW q
    PROVE  /\ At(f, "header", l, q) <=> \E i : AtHeader(f, i, l, q)
           /\ At(f, "field", l, q) <=> \E i : AtField(f, i, l, q) \/ AtLineEnd(f, i, l, q)
           /\ At(f, "fieldEnd", l, q) <=> \E i : AtFieldEnd(f, i, l, q)
           /\ At(f, "headerEnd", l, q) <=>
                 q = 3 * Len(f.lines) + 1 /\ Seen(f, Len(f.lines), l)
           /\ At(f, "body", l, q) <=>
                 q = 3 * Len(f.lines) + 2 /\ Seen(f, Len(f.lines), l)
BY DEF At

\* The next character is one of the frame, and not Eof.
LEMMA HeaderMove ==
    ASSUME SoundPeer, NEW f \in Frames, NEW x, FrameAt(f, x), NEW l, NEW q,
           At(f, "header", l, q)
    PROVE  /\ q \in Nat /\ q + 1 \in 1 .. FrameLength(f) /\ x[q + 1] # Eof
           /\ x[q + 1] = CR => At(f, "headerEnd", l, q + 1)
           /\ x[q + 1] # CR => At(f, "field", l, q)
<1> PICK n : n = Len(f.lines)
  OBVIOUS
<1>1. n \in Nat /\ Size[f.content] \in Nat
  BY LineFacts
<1>2. PICK i : AtHeader(f, i, l, q)
  BY AtPlaces
<1>3. i \in 0 .. n /\ q = 3 * i /\ l.line = <<>> /\ Seen(f, i, l)
  BY <1>2 DEF AtHeader
<1>4. q \in Nat /\ q + 1 \in 1 .. FrameLength(f)
  BY <1>1, <1>3 DEF FrameLength
<1>5. CASE i = n
  <2>1. x[q + 1] = CR
    BY <1>3, <1>5 DEF FrameAt, CharsAt
  <2>2. At(f, "headerEnd", l, q + 1)
    BY <1>3, <1>5, AtPlaces
  <2>3. CR # Eof
    BY DEF CR, Eof, Char
  <2> QED
    BY <1>4, <2>1, <2>2, <2>3
<1>6. CASE i # n
  <2>1. i + 1 \in 1 .. n /\ 3 * (i + 1) - 2 = q + 1 /\ 3 * (i + 1) - 3 = q
        /\ (i + 1) - 1 = i
    BY <1>1, <1>3, <1>6
  <2>2. x[q + 1] = f.lines[i + 1]
    BY <2>1 DEF FrameAt, CharsAt
  <2>3. x[q + 1] # CR /\ x[q + 1] # Eof
    BY <2>1, <2>2, LineFacts
  <2>4. AtField(f, i + 1, l, q)
    BY <1>3, <2>1 DEF AtField
  <2>5. At(f, "field", l, q)
    BY <2>4, AtPlaces, Zenon
  <2> QED
    BY <1>4, <2>3, <2>5
<1> QED
  BY <1>5, <1>6

\* What a header line does to the locals of readMessage.
LEMMA HeaderValueIs ==
    ASSUME NEW l \in HeaderType, NEW t, l.line = <<t>>
    PROVE  /\ HeaderValue(l).line = <<>>
           /\ HeaderValue(l).length = IF t.c = "Content-Length" THEN t.n ELSE l.length
<1> PICK next : next = [l EXCEPT !.line = <<>>]
  OBVIOUS
<1>1. l = [length |-> l.length, type |-> l.type, line |-> l.line, content |-> l.content]
  BY DEF HeaderType
<1>2. next = [length |-> l.length, type |-> l.type, line |-> <<>>, content |-> l.content]
  BY <1>1
<1>3. Head(l.line) = t
  OBVIOUS
<1>4. HeaderValue(l) = CASE t.c = "Content-Length" -> [next EXCEPT !.length = t.n]
                         [] t.c = "Content-Type" -> [next EXCEPT !.type = t.n]
                         [] OTHER -> next
  BY <1>3 DEF HeaderValue
<1>5. CASE t.c = "Content-Length"
  <2>1. HeaderValue(l) = [next EXCEPT !.length = t.n]
    BY <1>4, <1>5
  <2> QED
    BY <1>2, <1>5, <2>1
<1>6. CASE t.c = "Content-Type"
  <2>1. HeaderValue(l) = [next EXCEPT !.type = t.n]
    BY <1>4, <1>6
  <2> QED
    BY <1>2, <1>6, <2>1
<1>7. CASE t.c # "Content-Length" /\ t.c # "Content-Type"
  BY <1>2, <1>4, <1>7
<1> QED
  BY <1>5, <1>6, <1>7

\* One more line of the header is seen.
LEMMA SeenGrows ==
    ASSUME SoundPeer, NEW f \in Frames, NEW i \in 1 .. Len(f.lines), NEW l, NEW k,
           Seen(f, i - 1, l),
           k.length = IF f.lines[i].c = "Content-Length" THEN f.lines[i].n ELSE l.length
    PROVE  Seen(f, i, k)
<1>1. Len(f.lines) \in Nat
  BY LineFacts
<1>2. CASE f.lines[i].c = "Content-Length"
  <2>1. i \in 1 .. i /\ f.lines[i].n = Size[f.content]
    BY <1>1, <1>2, LineFacts
  <2> QED
    BY <1>2, <2>1 DEF Seen
<1>3. CASE f.lines[i].c # "Content-Length"
  <2>1. \A j : j \in 1 .. i <=> (j \in 1 .. i - 1 \/ j = i)
    BY <1>1
  <2>2. (\E j \in 1 .. i : f.lines[j].c = "Content-Length")
          <=> (\E j \in 1 .. i - 1 : f.lines[j].c = "Content-Length")
    BY <1>3, <2>1, Zenon
  <2> QED
    BY <1>3, <2>2 DEF Seen
<1> QED
  BY <1>2, <1>3

\* A character of a field, and the CR after it.
FieldGoesOn(f, x, l, q) ==
    /\ q \in Nat /\ q + 1 \in 1 .. FrameLength(f) /\ x[q + 1] # LF
    /\ x[q + 1] # CR => At(f, "field", [l EXCEPT !.line = Append(@, x[q + 1])], q + 1)
    /\ x[q + 1] = CR =>
          l.line[1] # BadLength /\ At(f, "fieldEnd", HeaderValue(l), q + 1)

\* So it goes with each character of a field.
LEMMA FieldMove ==
    ASSUME SoundPeer, NEW f \in Frames, NEW x, FrameAt(f, x), NEW l \in HeaderType, NEW q,
           At(f, "field", l, q)
    PROVE  FieldGoesOn(f, x, l, q)
<1> PICK n : n = Len(f.lines)
  OBVIOUS
<1>1. n \in Nat /\ Size[f.content] \in Nat
  BY LineFacts
<1>2. PICK i : AtField(f, i, l, q) \/ AtLineEnd(f, i, l, q)
  BY AtPlaces
<1>3. i \in 1 .. n /\ (q = 3 * i - 3 \/ q = 3 * i - 2) /\ Seen(f, i - 1, l)
  BY <1>2 DEF AtField, AtLineEnd
<1>4. q \in Nat /\ q + 1 \in 1 .. FrameLength(f)
  <2>1. i \in Int /\ i >= 1 /\ i <= n
    BY <1>1, <1>3
  <2>2. q \in Nat /\ q + 1 >= 1 /\ q + 1 <= 3 * n + 2
    BY <1>1, <1>3, <2>1
  <2> QED
    BY <1>1, <2>2 DEF FrameLength
<1>5. CASE AtField(f, i, l, q)
  <2> PICK k : k = [l EXCEPT !.line = Append(@, x[q + 1])]
    OBVIOUS
  <2>1. q = 3 * i - 3 /\ l.line = <<>> /\ q + 1 = 3 * i - 2
    BY <1>5 DEF AtField
  <2>2. x[q + 1] = f.lines[i]
    BY <1>3, <2>1 DEF FrameAt, CharsAt
  <2>3. x[q + 1] # CR /\ x[q + 1] # LF
    BY <1>3, <2>2, LineFacts
  <2>4. k.line = <<f.lines[i]>> /\ k.length = l.length
    <3>1. DOMAIN l = {"length", "type", "line", "content"}
      BY DEF HeaderType
    <3> QED
      BY <2>1, <2>2, <3>1
  <2>5. Seen(f, i - 1, k)
    BY <1>3, <2>4 DEF Seen
  <2>6. AtLineEnd(f, i, k, q + 1)
    BY <1>3, <2>1, <2>4, <2>5 DEF AtLineEnd
  <2>7. At(f, "field", k, q + 1)
    BY <2>6, AtPlaces, Zenon
  <2> QED
    BY <1>4, <2>3, <2>7 DEF FieldGoesOn
<1>6. CASE AtLineEnd(f, i, l, q)
  <2> PICK k : k = HeaderValue(l)
    OBVIOUS
  <2>1. q = 3 * i - 2 /\ l.line = <<f.lines[i]>> /\ q + 1 = 3 * i - 1
    BY <1>6 DEF AtLineEnd
  <2>2. x[q + 1] = CR /\ CR # LF
    BY <1>3, <2>1 DEF FrameAt, CharsAt, CR, LF, Char
  <2>3. l.line[1] # BadLength
    <3>1. l.line[1] = f.lines[i]
      BY <2>1
    <3> QED
      BY <1>3, <3>1, LineFacts
  <2>4. /\ k.line = <<>>
        /\ k.length = IF f.lines[i].c = "Content-Length" THEN f.lines[i].n ELSE l.length
    BY <2>1, HeaderValueIs
  <2>5. Seen(f, i, k)
    BY <1>3, <2>4, SeenGrows
  <2>6. AtFieldEnd(f, i, k, q + 1)
    BY <1>3, <2>1, <2>4, <2>5 DEF AtFieldEnd
  <2>7. At(f, "fieldEnd", k, q + 1)
    BY <2>6, AtPlaces, Zenon
  <2> QED
    BY <1>4, <2>2, <2>3, <2>7 DEF FieldGoesOn
<1> QED
  BY <1>2, <1>5, <1>6

\* The LF after a field, and after the header.
LEMMA FeedMove ==
    ASSUME SoundPeer, NEW f \in Frames, NEW x, FrameAt(f, x), NEW l, NEW q
    PROVE  /\ At(f, "fieldEnd", l, q) =>
                 /\ q \in Nat /\ q + 1 \in 1 .. FrameLength(f) /\ x[q + 1] = LF
                 /\ At(f, "header", l, q + 1)
           /\ At(f, "headerEnd", l, q) =>
                 /\ q \in Nat /\ q + 1 \in 1 .. FrameLength(f) /\ x[q + 1] = LF
                 /\ At(f, "body", l, q + 1)
<1> PICK n : n = Len(f.lines)
  OBVIOUS
<1>1. n \in Nat /\ Size[f.content] \in Nat
  BY LineFacts
<1>2. ASSUME At(f, "fieldEnd", l, q)
      PROVE  /\ q \in Nat /\ q + 1 \in 1 .. FrameLength(f) /\ x[q + 1] = LF
             /\ At(f, "header", l, q + 1)
  <2>1. PICK i : AtFieldEnd(f, i, l, q)
    BY <1>2, AtPlaces
  <2>2. i \in 1 .. n /\ q = 3 * i - 1 /\ l.line = <<>> /\ Seen(f, i, l) /\ q + 1 = 3 * i
    BY <2>1 DEF AtFieldEnd
  <2>3. q \in Nat /\ q + 1 \in 1 .. FrameLength(f)
    BY <1>1, <2>2 DEF FrameLength
  <2>4. x[q + 1] = LF
    BY <2>2 DEF FrameAt, CharsAt
  <2>5. AtHeader(f, i, l, q + 1)
    BY <1>1, <2>2 DEF AtHeader
  <2>6. At(f, "header", l, q + 1)
    BY <2>5, AtPlaces, Zenon
  <2> QED
    BY <2>3, <2>4, <2>6
<1>3. ASSUME At(f, "headerEnd", l, q)
      PROVE  /\ q \in Nat /\ q + 1 \in 1 .. FrameLength(f) /\ x[q + 1] = LF
             /\ At(f, "body", l, q + 1)
  <2>1. q = 3 * n + 1 /\ Seen(f, n, l) /\ q + 1 = 3 * n + 2
    BY <1>1, <1>3, AtPlaces
  <2>2. q \in Nat /\ q + 1 \in 1 .. FrameLength(f)
    BY <1>1, <2>1 DEF FrameLength
  <2>3. x[q + 1] = LF
    BY <2>1 DEF FrameAt, CharsAt
  <2>4. At(f, "body", l, q + 1)
    BY <2>1, AtPlaces
  <2> QED
    BY <2>2, <2>3, <2>4
<1> QED
  BY <1>2, <1>3

\* The content: its length is known, and it is what is left of the frame.
LEMMA BodyMove ==
    ASSUME SoundPeer, NEW f \in Frames, NEW x, FrameAt(f, x), NEW l, NEW q,
           At(f, "body", l, q)
    PROVE  /\ l.length = Size[f.content] /\ q \in Nat
           /\ q + Size[f.content] = FrameLength(f)
           /\ \A i \in 1 .. Size[f.content] : x[q + i] = Char(f.content, i)
<1> PICK n : n = Len(f.lines)
  OBVIOUS
<1>1. n \in Nat /\ Size[f.content] \in Nat /\ DOMAIN f.lines = 1 .. n
  BY LineFacts, SeqFacts DEF SoundPeer
<1>2. q = 3 * n + 2 /\ Seen(f, n, l)
  BY AtPlaces
<1>3. \/ Size[f.content] = 0
      \/ \E j \in 1 .. n : f.lines[j].c = "Content-Length"
  BY <1>1 DEF SoundPeer
<1>4. l.length = Size[f.content]
  BY <1>2, <1>3 DEF Seen
<1>5. q \in Nat /\ q + Size[f.content] = FrameLength(f)
  BY <1>1, <1>2 DEF FrameLength
<1>6. \A i \in 1 .. Size[f.content] : x[q + i] = Char(f.content, i)
  BY <1>2 DEF FrameAt, CharsAt
<1> QED
  BY <1>4, <1>5, <1>6

\* The frames that the peer has begun to send, where each of them ends, and all of their
\* characters.
FrameEnds(frs, cut) ==
    /\ cut \in [0 .. Len(frs) -> Nat] /\ cut[0] = 0
    /\ \A i \in 1 .. Len(frs) : cut[i] = cut[i - 1] + FrameLength(frs[i])
    /\ \A i, j \in 0 .. Len(frs) : i <= j => cut[i] <= cut[j]

Elements(frs, cut, full) ==
    \A i \in 1 .. Len(frs) : \A j \in 1 .. FrameLength(frs[i]) :
        full[cut[i - 1] + j] = Encode(frs[i].lines, frs[i].content)[j]

Sends(frs, cut, full) ==
    /\ frs \in Seq(Frames) /\ full \in Seq(Chars)
    /\ FrameEnds(frs, cut) /\ cut[Len(frs)] = Len(full) /\ Elements(frs, cut, full)

\* One more frame.
MoreFrames(frs, f, frs2) ==
    /\ frs2 \in Seq(Frames) /\ Len(frs2) = Len(frs) + 1 /\ frs2[Len(frs) + 1] = f
    /\ \A i \in 1 .. Len(frs) : frs2[i] = frs[i]
MoreCuts(n, cut, k, cut2) ==
    /\ cut2 \in [0 .. n + 1 -> Nat] /\ cut2[n + 1] = cut[n] + k
    /\ \A i \in 0 .. n : cut2[i] = cut[i]

\* There is one more end of a frame.
LEMMA CutsGrow ==
    ASSUME NEW n \in Nat, NEW cut \in [0 .. n -> Nat], NEW k \in Nat
    PROVE  \E cut2 : MoreCuts(n, cut, k, cut2)
<1> PICK c : c = [i \in 0 .. n + 1 |-> IF i = n + 1 THEN cut[n] + k ELSE cut[i]]
  OBVIOUS
<1>1. cut[n] + k \in Nat /\ \A i \in 0 .. n : cut[i] \in Nat
  OBVIOUS
<1>2. \A i \in 0 .. n + 1 : i = n + 1 \/ i \in 0 .. n
  OBVIOUS
<1>3. \A i \in 0 .. n + 1 : (IF i = n + 1 THEN cut[n] + k ELSE cut[i]) \in Nat
  BY <1>1, <1>2
<1>4. c \in [0 .. n + 1 -> Nat]
  BY <1>3
<1>5. n + 1 \in 0 .. n + 1 /\ \A i \in 0 .. n : i \in 0 .. n + 1 /\ i # n + 1
  OBVIOUS
<1>6. c[n + 1] = cut[n] + k /\ \A i \in 0 .. n : c[i] = cut[i]
  BY <1>5
<1>7. MoreCuts(n, cut, k, c)
  BY <1>4, <1>6 DEF MoreCuts
<1> QED
  BY <1>7

\* The ends are still those of the frames.
LEMMA EndsGrow ==
    ASSUME NEW frs \in Seq(Frames), NEW cut, FrameEnds(frs, cut), NEW f \in Frames,
           NEW frs2, MoreFrames(frs, f, frs2), NEW cut2,
           MoreCuts(Len(frs), cut, FrameLength(f), cut2)
    PROVE  FrameEnds(frs2, cut2)
<1> PICK n \in Nat : n = Len(frs)
  OBVIOUS
<1> PICK k \in Nat : k = FrameLength(f)
  BY FrameElements
<1>1. /\ cut2 \in [0 .. n + 1 -> Nat] /\ cut2[n + 1] = cut[n] + k
      /\ \A i \in 0 .. n : cut2[i] = cut[i]
  BY DEF MoreCuts
<1>2. /\ Len(frs2) = n + 1 /\ frs2[n + 1] = f
      /\ \A i \in 1 .. n : frs2[i] = frs[i]
  BY DEF MoreFrames
<1>3. /\ cut \in [0 .. n -> Nat] /\ cut[0] = 0
      /\ \A i \in 1 .. n : cut[i] = cut[i - 1] + FrameLength(frs[i])
      /\ \A i, j \in 0 .. n : i <= j => cut[i] <= cut[j]
  BY DEF FrameEnds
<1>4. \A i \in 1 .. n + 1 : i = n + 1 \/ i \in 1 .. n
  OBVIOUS
<1>5. \A i \in 0 .. n + 1 : i = n + 1 \/ i \in 0 .. n
  OBVIOUS
<1>6. \A i \in 1 .. n : i \in 0 .. n /\ i - 1 \in 0 .. n
  OBVIOUS
<1>7. n \in 0 .. n /\ 0 \in 0 .. n /\ (n + 1) - 1 = n /\ \A i \in 0 .. n : i <= n
  OBVIOUS
<1>8. cut2[0] = 0
  BY <1>1, <1>3, <1>7
<1>9. \A i \in 1 .. n + 1 : cut2[i] = cut2[i - 1] + FrameLength(frs2[i])
  <2>1. \A i \in 1 .. n : cut2[i] = cut2[i - 1] + FrameLength(frs2[i])
    BY <1>1, <1>2, <1>3, <1>6
  <2>2. cut2[n + 1] = cut2[(n + 1) - 1] + FrameLength(frs2[n + 1])
    BY <1>1, <1>2, <1>7
  <2> QED
    BY <1>4, <2>1, <2>2, Zenon
<1>10. \A i, j \in 0 .. n + 1 : i <= j => cut2[i] <= cut2[j]
  <2>1. \A i, j \in 0 .. n : i <= j => cut2[i] <= cut2[j]
    BY <1>1, <1>3
  <2>2. \A i \in 0 .. n : cut2[i] \in Nat /\ cut2[i] <= cut2[n]
    BY <1>1, <1>3, <1>7
  <2>3. cut2[n + 1] = cut2[n] + k /\ cut2[n + 1] \in Nat
    BY <1>1, <1>7
  <2>4. \A i \in 0 .. n : cut2[i] <= cut2[n + 1]
    BY <1>7, <2>2, <2>3
  <2>5. \A j \in 0 .. n : ~(n + 1 <= j)
    OBVIOUS
  <2>6. cut2[n + 1] <= cut2[n + 1]
    BY <2>3
  <2> QED
    BY <1>5, <2>1, <2>4, <2>5, <2>6, Zenon
<1> QED
  BY <1>1, <1>2, <1>8, <1>9, <1>10 DEF FrameEnds

\* And the characters are still theirs.
LEMMA ElementsGrow ==
    ASSUME NEW frs \in Seq(Frames), NEW cut, NEW full, Sends(frs, cut, full),
           NEW f \in Frames, NEW frs2, MoreFrames(frs, f, frs2), NEW cut2,
           MoreCuts(Len(frs), cut, FrameLength(f), cut2), NEW full2,
           Concatenates(Chars, full, Len(full), Encode(f.lines, f.content),
                        FrameLength(f), full2)
    PROVE  Sends(frs2, cut2, full2)
<1> PICK n \in Nat : n = Len(frs)
  OBVIOUS
<1> PICK k \in Nat : k = FrameLength(f)
  BY FrameElements
<1> PICK m \in Nat : m = Len(full)
  BY DEF Sends
<1> PICK x : x = Encode(f.lines, f.content)
  OBVIOUS
<1>1. /\ cut2 \in [0 .. n + 1 -> Nat] /\ cut2[n + 1] = cut[n] + k
      /\ \A i \in 0 .. n : cut2[i] = cut[i]
  BY DEF MoreCuts
<1>2. /\ frs2 \in Seq(Frames) /\ Len(frs2) = n + 1 /\ frs2[n + 1] = f
      /\ \A i \in 1 .. n : frs2[i] = frs[i]
  BY DEF MoreFrames
<1>3. /\ full2 \in Seq(Chars) /\ Len(full2) = m + k
      /\ \A i \in 1 .. m : full2[i] = full[i]
      /\ \A i \in 1 .. k : full2[m + i] = x[i]
  BY DEF Concatenates
<1>4. /\ cut \in [0 .. n -> Nat] /\ cut[0] = 0 /\ cut[n] = m
      /\ \A i \in 1 .. n : cut[i] = cut[i - 1] + FrameLength(frs[i])
      /\ \A i, j \in 0 .. n : i <= j => cut[i] <= cut[j]
  BY DEF Sends, FrameEnds
<1>5. ASSUME NEW i \in 1 .. n, NEW j \in 1 .. FrameLength(frs[i])
      PROVE  full2[cut2[i - 1] + j] = Encode(frs2[i].lines, frs2[i].content)[j]
  <2>1. i \in 0 .. n /\ i - 1 \in 0 .. n /\ n \in 0 .. n /\ i <= n
    OBVIOUS
  <2>2. FrameLength(frs[i]) \in Nat
    BY FrameElements
  <2> PICK a \in Nat : a = cut[i - 1]
    BY <1>4, <2>1
  <2>3. a + FrameLength(frs[i]) <= m
    BY <1>4, <2>1
  <2>4. a + j \in 1 .. m
    BY <2>2, <2>3
  <2>5. full2[a + j] = full[a + j]
    BY <1>3, <2>4
  <2>6. full[a + j] = Encode(frs[i].lines, frs[i].content)[j]
    BY DEF Sends, Elements
  <2>7. cut2[i - 1] = a /\ frs2[i] = frs[i]
    BY <1>1, <1>2, <2>1
  <2> QED
    BY <2>5, <2>6, <2>7
<1>6. \A j \in 1 .. k : full2[cut2[n] + j] = Encode(f.lines, f.content)[j]
  <2>1. cut2[n] = m
    BY <1>1, <1>4
  <2> QED
    BY <1>3, <2>1
<1>7. Elements(frs2, cut2, full2)
  <2>1. \A i \in 1 .. n + 1 : i \in 1 .. n \/ i = n + 1
    OBVIOUS
  <2>2. (n + 1) - 1 = n
    OBVIOUS
  <2>3. \A i \in 1 .. n : frs2[i] = frs[i]
    BY <1>2
  <2>4. ASSUME NEW i \in 1 .. n + 1, NEW j \in 1 .. FrameLength(frs2[i])
        PROVE  full2[cut2[i - 1] + j] = Encode(frs2[i].lines, frs2[i].content)[j]
    <3>1. CASE i \in 1 .. n
      BY <1>5, <2>3, <3>1
    <3>2. CASE i = n + 1
      BY <1>2, <1>6, <2>2, <3>2
    <3> QED
      BY <2>1, <3>1, <3>2
  <2> QED
    BY <1>2, <2>4, Zenon DEF Elements
<1>8. FrameEnds(frs2, cut2)
  BY EndsGrow DEF Sends
<1>9. cut2[n + 1] = Len(full2)
  BY <1>1, <1>3, <1>4
<1> QED
  BY <1>2, <1>3, <1>7, <1>8, <1>9 DEF Sends

\* in is what the stream has between p and t.
Behind(in, full, t, p) ==
    /\ in \in Seq(Chars) /\ p \in Nat /\ t \in Nat /\ p + Len(in) = t
    /\ \A i \in 1 .. Len(in) : in[i] = full[p + i]

\* The contents sq are those of the frames sent whole; of one more there may be a part.
Carries(sq, frs, cut, full, t) ==
    /\ Len(sq) <= Len(frs)
    /\ \A i \in 1 .. Len(sq) : sq[i] = Bytes(frs[i].content)
    /\ \/ Len(frs) = Len(sq) /\ t = Len(full)
       \/ Len(frs) = Len(sq) + 1 /\ cut[Len(sq)] <= t /\ t < Len(full)

\* The next character is read.
LEMMA BehindNext ==
    ASSUME NEW in \in Seq(Chars), in # <<>>, NEW full, NEW t, NEW p, Behind(in, full, t, p)
    PROVE  /\ Behind(Tail(in), full, t, p + 1)
           /\ Head(in) = full[p + 1] /\ p + 1 <= t
<1> PICK n \in Nat : n = Len(in)
  OBVIOUS
<1>1. n # 0 /\ Tail(in) \in Seq(Chars) /\ Len(Tail(in)) = n - 1 /\ Head(in) = in[1]
      /\ \A i \in 1 .. n - 1 : Tail(in)[i] = in[i + 1]
  OBVIOUS
<1>2. p \in Nat /\ t \in Nat /\ p + n = t /\ \A i \in 1 .. n : in[i] = full[p + i]
  BY DEF Behind
<1>3. 1 \in 1 .. n /\ \A i \in 1 .. n - 1 : i + 1 \in 1 .. n /\ p + (i + 1) = (p + 1) + i
  BY <1>1, <1>2
<1>4. \A i \in 1 .. n - 1 : Tail(in)[i] = full[(p + 1) + i]
  BY <1>1, <1>2, <1>3
<1>5. p + 1 \in Nat /\ (p + 1) + (n - 1) = t /\ p + 1 <= t
  BY <1>1, <1>2
<1>6. Head(in) = full[p + 1]
  BY <1>1, <1>2, <1>3
<1> QED
  BY <1>1, <1>2, <1>4, <1>5, <1>6 DEF Behind

\* k characters are read.
LEMMA BehindMany ==
    ASSUME NEW in \in Seq(Chars), NEW full, NEW t, NEW p, Behind(in, full, t, p),
           NEW k \in Nat, k <= Len(in)
    PROVE  Behind(SubSeq(in, k + 1, Len(in)), full, t, p + k)
<1> PICK n \in Nat : n = Len(in)
  OBVIOUS
<1> PICK s : s = SubSeq(in, k + 1, n)
  OBVIOUS
<1>1. s \in Seq(Chars) /\ Len(s) = n - k /\ \A i \in 1 .. n - k : s[i] = in[k + i]
  <2>1. k <= n /\ Len(in) = n
    OBVIOUS
  <2> QED
    BY <2>1
<1>2. p \in Nat /\ t \in Nat /\ p + n = t /\ \A i \in 1 .. n : in[i] = full[p + i]
  BY DEF Behind
<1>3. \A i \in 1 .. n - k : k + i \in 1 .. n /\ p + (k + i) = (p + k) + i
  BY <1>2
<1>4. \A i \in 1 .. n - k : s[i] = full[(p + k) + i]
  BY <1>1, <1>2, <1>3
<1>5. p + k \in Nat /\ (p + k) + (n - k) = t
  <2>1. p \in Nat /\ t \in Nat /\ p + n = t
    BY <1>2
  <2>2. p + k \in Nat /\ (p + k) + (n - k) = p + n
    BY <2>1
  <2> QED
    BY <2>1, <2>2
<1> QED
  BY <1>1, <1>2, <1>4, <1>5 DEF Behind

\* The peer sends m characters of a frame.
LEMMA BehindGrows ==
    ASSUME NEW in \in Seq(Chars), NEW full, NEW p, NEW t \in Nat, Behind(in, full, t, p),
           Len(full) = t, NEW x, NEW k \in Nat, NEW full2,
           Concatenates(Chars, full, t, x, k, full2), NEW part, NEW m \in Nat, m <= k,
           \A i \in 1 .. m : part[i] = x[i],
           NEW in2, Concatenates(Chars, in, Len(in), part, m, in2)
    PROVE  Behind(in2, full2, t + m, p)
<1> PICK n \in Nat : n = Len(in)
  OBVIOUS
<1>1. p \in Nat /\ p + n = t /\ \A i \in 1 .. n : in[i] = full[p + i]
  BY DEF Behind
<1>2. /\ in2 \in Seq(Chars) /\ Len(in2) = n + m
      /\ \A i \in 1 .. n : in2[i] = in[i]
      /\ \A i \in 1 .. m : in2[n + i] = part[i]
  BY DEF Concatenates
<1>3. /\ \A i \in 1 .. t : full2[i] = full[i]
      /\ \A i \in 1 .. k : full2[t + i] = x[i]
  BY DEF Concatenates
<1>4. ASSUME NEW i \in 1 .. n + m
      PROVE  in2[i] = full2[p + i]
  <2>1. CASE i <= n
    <3>1. i \in 1 .. n /\ p + i \in 1 .. t
      BY <1>1, <2>1
    <3> QED
      BY <1>1, <1>2, <1>3, <3>1
  <2>2. CASE i > n
    <3> PICK j \in 1 .. m : i = n + j
      <4>1. i - n \in 1 .. m /\ i = n + (i - n)
        BY <2>2
      <4> QED
        BY <4>1
    <3>1. j \in 1 .. k /\ p + i = t + j
      BY <1>1
    <3>2. in2[i] = x[j]
      BY <1>2
    <3> QED
      BY <1>3, <3>1, <3>2
  <2> QED
    BY <2>1, <2>2
<1>5. p + (n + m) = t + m /\ t + m \in Nat
  BY <1>1
<1> QED
  BY <1>1, <1>2, <1>4, <1>5 DEF Behind

\* After q characters of the frame whose characters are x, the stream has the next of them.
Continues(full, p, x, q, k) ==
    \A j \in Nat : q + j \in 1 .. k => full[p + j] = x[q + j]

\* The next characters are those of the first frame that is not read whole.
LEMMA NextOfFrame ==
    ASSUME NEW frs, NEW cut, NEW full, Sends(frs, cut, full), NEW m \in Nat,
           m < Len(frs), NEW p \in Nat, NEW q \in Nat, p = cut[m] + q
    PROVE  Continues(full, p, Encode(frs[m + 1].lines, frs[m + 1].content), q,
                     FrameLength(frs[m + 1]))
<1> PICK n \in Nat : n = Len(frs)
  BY DEF Sends
<1>1. m + 1 \in 1 .. n /\ m \in 0 .. n /\ (m + 1) - 1 = m
  OBVIOUS
<1>2. frs[m + 1] \in Frames
  BY <1>1 DEF Sends
<1>3. cut[m] \in Nat /\ cut[m + 1] = cut[m] + FrameLength(frs[m + 1])
  BY <1>1 DEF Sends, FrameEnds
<1>4. \A j \in 1 .. FrameLength(frs[m + 1]) :
         full[cut[m] + j] = Encode(frs[m + 1].lines, frs[m + 1].content)[j]
  BY <1>1 DEF Sends, Elements
<1>5. \A j \in Nat : p + j = cut[m] + (q + j)
  BY <1>3
<1> QED
  BY <1>4, <1>5 DEF Continues

\* The places where a part of a message is read.
Inside == {"header", "field", "fieldEnd", "headerEnd", "body"}

\* p characters are read: the first m frames, and of the next what the reader that has the
\* mutex knows of.
Placed(frs, cut, p, m, places, locals) ==
    /\ (\A r \in Readers : places[r] \notin Inside) => p = cut[m]
    /\ \A r \in Readers : places[r] \in Inside =>
          m < Len(frs) /\ At(frs[m + 1], places[r], locals[r], p - cut[m])

\* One reader is in the part under the mutex.
LEMMA AloneInside ==
    ASSUME Typed, NEW r \in Readers, pc[r] \in Reading
    PROVE  /\ \A q \in Readers : q # r => pc[q] \notin Inside /\ pc[q] \notin Reading
           /\ r \in Threads
<1>1. readLock = <<r>>
  BY DEF Typed, Places
<1>2. \A q \in Readers : q # r => readLock # <<q>>
  BY <1>1
<1>3. \A q \in Readers : q # r => pc[q] \notin Reading
  BY <1>2 DEF Typed, Places
<1> QED
  BY <1>3, ReadingFacts DEF Inside, Threads

\* It goes on inside.
LEMMA PlacedInside ==
    ASSUME Typed, NEW r \in Readers, pc[r] \in Reading, NEW place \in Inside, NEW l,
           pc' = [pc EXCEPT ![r] = place], local' = [local EXCEPT ![r] = l],
           NEW frs, NEW cut, NEW p, NEW m, m < Len(frs),
           At(frs[m + 1], place, l, p - cut[m])
    PROVE  Placed(frs, cut, p, m, pc', local')
<1>1. pc'[r] = place /\ local'[r] = l /\ \A q \in Readers : q # r => pc'[q] = pc[q]
  BY AloneInside DEF Typed, Data, Places
<1>2. \A q \in Readers : q # r => pc'[q] \notin Inside
  BY <1>1, AloneInside
<1> QED
  BY <1>1, <1>2, Zenon DEF Placed

\* It is outside, with whole frames behind it.
LEMMA PlacedOutside ==
    ASSUME Typed, NEW r \in Readers, pc[r] \in Reading, NEW place, place \notin Inside,
           pc' = [pc EXCEPT ![r] = place], NEW frs, NEW cut, NEW p, NEW m, p = cut[m]
    PROVE  Placed(frs, cut, p, m, pc', local')
<1>1. pc'[r] = place /\ \A q \in Readers : q # r => pc'[q] = pc[q]
  BY AloneInside DEF Typed, Places
<1>2. \A q \in Readers : q # r => pc'[q] \notin Inside
  BY <1>1, AloneInside
<1> QED
  BY <1>1, <1>2, Zenon DEF Placed

\* A thread outside goes on outside.
LEMMA PlacedKept ==
    ASSUME Typed, NEW t \in Threads, pc[t] \notin Inside, NEW place, place \notin Inside,
           pc' = [pc EXCEPT ![t] = place],
           \A q \in Readers : q # t => local'[q] = local[q],
           NEW frs, NEW cut, NEW p, NEW m, Placed(frs, cut, p, m, pc, local)
    PROVE  Placed(frs, cut, p, m, pc', local')
<1>1. pc'[t] = place /\ \A q \in Threads : q # t => pc'[q] = pc[q]
  BY DEF Typed, Places
<1>2. \A q \in Readers : /\ pc'[q] \in Inside <=> pc[q] \in Inside
                         /\ pc[q] \in Inside => pc'[q] = pc[q] /\ local'[q] = local[q]
  <2>1. \A q \in Readers : q \in Threads
    BY DEF Threads
  <2> QED
    BY <1>1, <2>1
<1> QED
  BY <1>2, Zenon DEF Placed

\* The frames before the place do not change when the peer sends one more.
LEMMA PlacedGrows ==
    ASSUME NEW frs, Len(frs) \in Nat, NEW cut, NEW f, NEW frs2, MoreFrames(frs, f, frs2),
           NEW k, NEW cut2, MoreCuts(Len(frs), cut, k, cut2),
           NEW p, NEW m \in Nat, m <= Len(frs), Placed(frs, cut, p, m, pc, local)
    PROVE  Placed(frs2, cut2, p, m, pc, local)
<1>1. m \in 0 .. Len(frs) /\ (m < Len(frs) => m + 1 \in 1 .. Len(frs))
  OBVIOUS
<1>2. cut2[m] = cut[m] /\ (m < Len(frs) => frs2[m + 1] = frs[m + 1])
      /\ (m < Len(frs) => m < Len(frs2))
  BY <1>1 DEF MoreFrames, MoreCuts
<1> QED
  BY <1>2, Zenon DEF Placed

\* The state of the stream and of the readers: a prefix of the stream is read, message
\* by message.
Stream(frs, cut, full, t, p) ==
    /\ Sends(frs, cut, full) /\ Carries(sent, frs, cut, full, t)
    /\ Len(frs) # Len(sent) => closed
    /\ Behind(input, full, t, p) /\ Placed(frs, cut, p, Len(read), pc, local)
    /\ Len(read) <= Len(sent)

Located == \E frs, cut, full, t, p : Stream(frs, cut, full, t, p)

\* Or the input ended inside a frame, or was thrown away at its end: no message comes.
Over ==
    /\ closed /\ input = <<>>
    /\ \A r \in Readers : pc[r] \notin {"header", "fieldEnd", "headerEnd", "body"}

\* Where no frame is being read, the locals are as readMessage makes them.
Cleared ==
    \A r \in Readers : pc[r] \in {"idle", "start", "report", "write"} => local[r] = Fresh

InOrder == MessagesAreReadWhole /\ Cleared /\ (Located \/ Over)

\* A reader's step that reads some characters, and no message.
LEMMA StreamMoves ==
    ASSUME NEW frs, NEW cut, NEW full, NEW t, NEW p, Stream(frs, cut, full, t, p),
           UNCHANGED <<closed, sent, read>>, NEW p2, Behind(input', full, t, p2),
           Placed(frs, cut, p2, Len(read), pc', local')
    PROVE  Located'
<1>1. Stream(frs, cut, full, t, p2)'
  <2>1. Len(read)' = Len(read)
    OBVIOUS
  <2> QED
    BY <2>1 DEF Stream
<1> QED
  BY <1>1, Zenon DEF Located

\* After which nothing of the messages read is different.
LEMMA WholeKept ==
    ASSUME MessagesAreReadWhole, read' = read, sent' = sent, closed => closed'
    PROVE  MessagesAreReadWhole'
BY DEF MessagesAreReadWhole

\* The end of the input stays, whoever goes on.
LEMMA OverKept ==
    ASSUME Typed, Over, NEW t \in Threads, NEW place, pc' = [pc EXCEPT ![t] = place],
           place \notin {"header", "fieldEnd", "headerEnd", "body"},
           closed' = closed, input' = <<>>
    PROVE  Over'
<1>1. \A q \in Readers : pc'[q] = place \/ pc'[q] = pc[q]
  BY DEF Typed, Places, Threads
<1> QED
  BY <1>1 DEF Over

\* A reader gets there.
LEMMA OverBegins ==
    ASSUME Typed, NEW r \in Readers, pc[r] \in Reading, NEW place,
           pc' = [pc EXCEPT ![r] = place],
           place \notin {"header", "fieldEnd", "headerEnd", "body"},
           closed, closed' = closed, input' = <<>>
    PROVE  Over'
<1>1. pc'[r] = place /\ \A q \in Readers : q # r => pc'[q] = pc[q]
  BY AloneInside DEF Typed, Places
<1>2. \A q \in Readers : q # r => pc'[q] \notin Inside
  BY <1>1, AloneInside
<1> QED
  BY <1>1, <1>2 DEF Over, Inside

\* A reader inside, its frame f, the characters x of it and how many are read.
InFrame(r, frs, cut, full, p, f, x, q) ==
    /\ Len(read) \in Nat /\ Len(read) < Len(frs) /\ cut[Len(read)] \in Nat
    /\ f = frs[Len(read) + 1] /\ f \in Frames /\ FrameAt(f, x)
    /\ x = Encode(f.lines, f.content)
    /\ q = p - cut[Len(read)] /\ p = cut[Len(read)] + q /\ At(f, pc[r], local[r], q)
    /\ cut[Len(read) + 1] = cut[Len(read)] + FrameLength(f)
    /\ q \in Nat => Continues(full, p, x, q, FrameLength(f))

\* Such a reader has such a frame.
LEMMA InsideFacts ==
    ASSUME Typed, NEW r \in Readers, pc[r] \in Inside,
           NEW frs, NEW cut, NEW full, NEW t, NEW p, Stream(frs, cut, full, t, p)
    PROVE  \E f, x, q : InFrame(r, frs, cut, full, p, f, x, q)
<1> PICK m \in Nat : m = Len(read)
  BY DEF Typed, Data
<1> PICK f : f = frs[m + 1]
  OBVIOUS
<1> PICK x : x = Encode(f.lines, f.content)
  OBVIOUS
<1>1. m < Len(frs) /\ At(f, pc[r], local[r], p - cut[m])
  BY DEF Stream, Placed
<1>2. p \in Nat /\ Sends(frs, cut, full)
  BY DEF Stream, Behind
<1>3. f \in Frames /\ FrameAt(f, x) /\ cut[m] \in Nat
      /\ cut[m + 1] = cut[m] + FrameLength(f)
  <2>1. PICK n \in Nat : n = Len(frs)
    BY <1>2 DEF Sends
  <2>2. m + 1 \in 1 .. n /\ m \in 0 .. n /\ (m + 1) - 1 = m
    BY <1>1, <2>1
  <2>3. f \in Frames /\ cut[m] \in Nat /\ cut[m + 1] = cut[m] + FrameLength(f)
    BY <1>2, <2>1, <2>2 DEF Sends, FrameEnds
  <2> QED
    BY <2>3, FrameElements
<1> PICK q : q = p - cut[m]
  OBVIOUS
<1>4. p = cut[m] + q
  <2>1. \A a, b \in Nat : a = b + (a - b)
    OBVIOUS
  <2> QED
    BY <1>2, <1>3, <2>1
<1>5. ASSUME q \in Nat
      PROVE  Continues(full, p, x, q, FrameLength(f))
  <2>1. m < Len(frs) /\ p \in Nat /\ Sends(frs, cut, full)
    BY <1>1, <1>2
  <2>2. Continues(full, p, Encode(frs[m + 1].lines, frs[m + 1].content), q,
                  FrameLength(frs[m + 1]))
    BY <1>4, <1>5, <2>1, NextOfFrame, Zenon
  <2> QED
    BY <2>2
<1>6. InFrame(r, frs, cut, full, p, f, x, q)
  BY <1>1, <1>3, <1>4, <1>5, Zenon DEF InFrame
<1> QED
  BY <1>6

\* What a reader sees when there is a character.
LEMMA SeesNext ==
    ASSUME Typed, NEW r \in Readers, NEW frs, NEW cut, NEW full, NEW t, NEW p,
           Stream(frs, cut, full, t, p), NEW f, NEW x, NEW q,
           InFrame(r, frs, cut, full, p, f, x, q),
           q \in Nat, q + 1 \in 1 .. FrameLength(f), input # <<>>
    PROVE  /\ NextChar = x[q + 1]
           /\ Consume => Behind(input', full, t, p + 1)
<1>1. input \in Seq(Chars)
  BY DEF Typed, Data
<1>2. Behind(Tail(input), full, t, p + 1) /\ Head(input) = full[p + 1]
  BY <1>1, BehindNext DEF Stream
<1>3. full[p + 1] = x[q + 1]
  <2>1. Continues(full, p, x, q, FrameLength(f))
    BY DEF InFrame
  <2> QED
    BY <2>1 DEF Continues
<1> QED
  BY <1>2, <1>3 DEF NextChar, Consume

\* It goes on, with d characters read.
LEMMA GoesOn ==
    ASSUME Typed, NEW r \in Readers, pc[r] \in Reading, NEW frs, NEW cut, NEW full, NEW t,
           NEW p, Stream(frs, cut, full, t, p), NEW f, NEW q \in Nat, NEW d \in Nat,
           p = cut[Len(read)] + q, cut[Len(read)] \in Nat,
           Len(read) < Len(frs), f = frs[Len(read) + 1],
           NEW place \in Inside, NEW l, At(f, place, l, q + d), GoOn(r, place, l),
           UNCHANGED <<closed, sent, read>>, Behind(input', full, t, p + d)
    PROVE  Located'
<1>1. pc' = [pc EXCEPT ![r] = place] /\ local' = [local EXCEPT ![r] = l]
  BY DEF GoOn
<1>2. (p + d) - cut[Len(read)] = q + d
  OBVIOUS
<1>3. Placed(frs, cut, p + d, Len(read), pc', local')
  BY <1>1, <1>2, PlacedInside
<1> QED
  BY <1>3, StreamMoves

\* An exception at the end of the input.
LEMMA ThrowsOver ==
    ASSUME Typed, NEW r \in Readers, pc[r] \in Reading, Throw(r, "ConnectionError"),
           closed, closed' = closed, input' = <<>>
    PROVE  Over'
BY OverBegins DEF Throw

\* A reader waits for a message, and sees the beginning of a frame.
LEMMA StartOrder ==
    ASSUME SoundPeer, Typed, Cleared, Located \/ Over, NEW r \in Readers, Start(r)
    PROVE  Located' \/ Over'
<1>1. pc[r] = "start" /\ pc[r] \in Reading /\ pc[r] \notin Inside
  BY ReadingFacts DEF Start, Inside
<1>2. UNCHANGED <<closed, sent, read>>
  BY DEF Start
<1>3. ASSUME input = <<>>, closed PROVE Over'
  <2>1. Throw(r, "ConnectionError") /\ input' = <<>>
    BY <1>3 DEF Start, NextChar, Consume
  <2> QED
    BY <1>1, <1>2, <1>3, <2>1, ThrowsOver
<1>4. CASE input = <<>>
  <2>1. closed
    BY <1>4 DEF Start, Readable, AtEnd
  <2> QED
    BY <1>3, <1>4, <2>1
<1>5. CASE input # <<>>
  <2>1. PICK frs, cut, full, t, p : Stream(frs, cut, full, t, p)
    BY <1>5 DEF Located, Over
  <2> PICK m \in Nat : m = Len(read)
    BY DEF Typed, Data
  <2> PICK n \in Nat : n = Len(frs)
    BY <2>1 DEF Stream, Sends
  <2>2. p = cut[m]
    <3>1. \A q \in Readers : pc[q] \notin Inside
      BY <1>1, AloneInside
    <3> QED
      BY <2>1, <3>1 DEF Stream, Placed
  <2>3. m < n
    <3>1. m <= Len(sent) /\ Len(sent) <= n /\ Len(sent) \in Nat
      BY <2>1 DEF Stream, Carries, Typed, Data
    <3>2. t <= Len(full) /\ Len(full) = cut[n]
      <4>1. Len(full) \in Nat /\ t \in Nat
        BY <2>1 DEF Stream, Sends, Behind
      <4> QED
        BY <2>1, <4>1 DEF Stream, Sends, Carries
    <3>3. p + 1 <= t /\ p \in Nat /\ t \in Nat
      <4>1. input \in Seq(Chars) /\ Behind(input, full, t, p)
        BY <2>1 DEF Stream, Behind
      <4> QED
        BY <1>5, <4>1, BehindNext DEF Behind
    <3>4. m # n
      BY <2>2, <3>2, <3>3
    <3> QED
      BY <3>1, <3>4
  <2> PICK f : f = frs[m + 1]
    OBVIOUS
  <2>4. f \in Frames /\ cut[m] \in Nat /\ p \in Nat /\ Sends(frs, cut, full)
    <3>1. m + 1 \in 1 .. n /\ m \in 0 .. n
      BY <2>3
    <3>2. p \in Nat /\ Sends(frs, cut, full)
      BY <2>1 DEF Stream, Behind
    <3>3. f \in Frames /\ cut[m] \in Nat
      BY <3>1, <3>2 DEF Sends, FrameEnds
    <3> QED
      BY <3>2, <3>3
  <2> PICK x : x = Encode(f.lines, f.content)
    OBVIOUS
  <2>5. FrameAt(f, x)
    BY <2>4, FrameElements
  <2>6. At(f, "header", local[r], 0)
    <3>1. Len(f.lines) \in Nat
      BY <2>4, LineFacts
    <3>2. local[r] = Fresh /\ Fresh.line = <<>> /\ Fresh.length = 0
      BY <1>1 DEF Cleared, Fresh
    <3>3. Seen(f, 0, Fresh)
      BY <3>2 DEF Seen
    <3>4. AtHeader(f, 0, Fresh, 0)
      BY <3>1, <3>2, <3>3 DEF AtHeader
    <3> QED
      BY <3>2, <3>4, AtPlaces, Zenon
  <2>7. 0 + 1 \in 1 .. FrameLength(f) /\ x[0 + 1] # Eof
    BY <2>4, <2>5, <2>6, HeaderMove
  <2>8. p = cut[m] + 0
    BY <2>2, <2>4
  <2>9. NextChar # Eof
    <3>1. full[p + 1] = x[0 + 1]
      <4>1. Continues(full, p, Encode(frs[m + 1].lines, frs[m + 1].content), 0,
                      FrameLength(frs[m + 1]))
        BY <2>3, <2>4, <2>8, NextOfFrame
      <4> QED
        BY <2>7, <4>1 DEF Continues
    <3>2. input \in Seq(Chars) /\ Behind(input, full, t, p)
      BY <2>1 DEF Stream, Behind
    <3>3. Head(input) = full[p + 1]
      BY <1>5, <3>2, BehindNext
    <3> QED
      BY <1>5, <2>7, <3>1, <3>3 DEF NextChar
  <2>10. GoOn(r, "header", local[r]) /\ input' = input
    BY <2>9 DEF Start
  <2>11. At(f, "header", local[r], 0 + 0) /\ "header" \in Inside
    BY <2>6 DEF Inside
  <2>12. Behind(input', full, t, p + 0)
    BY <2>1, <2>4, <2>10 DEF Stream
  <2>13. Located'
    BY <1>1, <1>2, <2>1, <2>3, <2>4, <2>8, <2>10, <2>11, <2>12, GoesOn
  <2> QED
    BY <2>13
<1> QED
  BY <1>4, <1>5

\* The next character is CR at the end of the header, or else begins a line.
LEMMA HeaderOrder ==
    ASSUME SoundPeer, Typed, Located \/ Over, NEW r \in Readers, Header(r)
    PROVE  Located' \/ Over'
<1>1. pc[r] = "header" /\ pc[r] \in Reading /\ pc[r] \in Inside /\ ~Over
  BY ReadingFacts DEF Header, Inside, Over
<1>2. UNCHANGED <<closed, sent, read>>
  BY DEF Header
<1>3. CASE input = <<>>
  <2>1. closed /\ NextChar # CR /\ NextChar = Eof
    BY <1>3 DEF Header, Readable, AtEnd, NextChar, Eof, CR, Char
  <2>2. CASE SeesEof
    <3>1. Throw(r, "ConnectionError") /\ input' = <<>>
      BY <1>3, <2>1, <2>2 DEF Header, Consume
    <3> QED
      BY <1>1, <1>2, <2>1, <3>1, ThrowsOver
  <2>3. CASE ~SeesEof
    <3>1. GoOn(r, "field", local[r]) /\ input' = input
      BY <2>1, <2>3 DEF Header
    <3> QED
      BY <1>1, <1>2, <1>3, <2>1, <3>1, OverBegins DEF GoOn
  <2> QED
    BY <2>2, <2>3
<1>4. CASE input # <<>>
  <2>1. PICK frs, cut, full, t, p : Stream(frs, cut, full, t, p)
    BY <1>1 DEF Located
  <2>2. PICK f, x, q : InFrame(r, frs, cut, full, p, f, x, q)
    BY <1>1, <2>1, InsideFacts
  <2>3. /\ Len(read) < Len(frs) /\ f = frs[Len(read) + 1] /\ f \in Frames
        /\ FrameAt(f, x) /\ p = cut[Len(read)] + q /\ At(f, "header", local[r], q)
        /\ cut[Len(read)] \in Nat
    BY <1>1, <2>2 DEF InFrame
  <2>4. /\ q \in Nat /\ q + 1 \in 1 .. FrameLength(f) /\ x[q + 1] # Eof
        /\ x[q + 1] = CR => At(f, "headerEnd", local[r], q + 1)
        /\ x[q + 1] # CR => At(f, "field", local[r], q)
    BY <2>3, HeaderMove
  <2>5. NextChar = x[q + 1] /\ (Consume => Behind(input', full, t, p + 1))
    BY <1>4, <2>1, <2>2, <2>4, SeesNext
  <2>6. ~SeesEof
    BY <2>4, <2>5 DEF SeesEof
  <2>7. CASE NextChar = CR
    <3>1. GoOn(r, "headerEnd", local[r]) /\ Consume
      BY <2>7, <2>6 DEF Header
    <3> QED
      BY <1>1, <1>2, <2>1, <2>3, <2>4, <2>5, <2>7, <3>1, GoesOn DEF Inside
  <2>8. CASE NextChar # CR
    <3>1. GoOn(r, "field", local[r]) /\ input' = input
      BY <2>8, <2>6 DEF Header
    <3>2. At(f, "field", local[r], q + 0) /\ Behind(input', full, t, p + 0)
      <4>1. p + 0 = p /\ q + 0 = q
        BY <2>1, <2>4 DEF Stream, Behind
      <4> QED
        BY <2>1, <2>4, <2>5, <2>8, <3>1, <4>1 DEF Stream
    <3> QED
      BY <1>1, <1>2, <2>1, <2>3, <2>4, <3>1, <3>2, GoesOn DEF Inside
  <2> QED
    BY <2>7, <2>8
<1> QED
  BY <1>3, <1>4

\* A line is read up to its CR.
LEMMA FieldOrder ==
    ASSUME SoundPeer, Typed, Located \/ Over, NEW r \in Readers, FieldChar(r)
    PROVE  Located' \/ Over'
<1>1. pc[r] = "field" /\ pc[r] \in Reading /\ pc[r] \in Inside
  BY ReadingFacts DEF FieldChar, Inside
<1>2. UNCHANGED <<closed, sent, read>>
  BY DEF FieldChar
<1>3. CASE input = <<>>
  <2>1. closed /\ NextChar # LF
    BY <1>3 DEF FieldChar, Readable, AtEnd, NextChar, Eof, LF, Char
  <2>2. GoOn(r, "field", local[r]) /\ input' = <<>>
    BY <1>3, <2>1 DEF FieldChar, Consume
  <2> QED
    BY <1>1, <1>2, <1>3, <2>1, <2>2, OverBegins DEF GoOn
<1>4. CASE input # <<>>
  <2>1. PICK frs, cut, full, t, p : Stream(frs, cut, full, t, p)
    BY <1>4 DEF Located, Over
  <2>2. PICK f, x, q : InFrame(r, frs, cut, full, p, f, x, q)
    BY <1>1, <2>1, InsideFacts
  <2>3. /\ Len(read) < Len(frs) /\ f = frs[Len(read) + 1] /\ f \in Frames
        /\ FrameAt(f, x) /\ p = cut[Len(read)] + q /\ At(f, "field", local[r], q)
        /\ cut[Len(read)] \in Nat
    BY <1>1, <2>2 DEF InFrame
  <2> PICK l : l = [local[r] EXCEPT !.line = Append(@, x[q + 1])]
    OBVIOUS
  <2>4. /\ q \in Nat /\ q + 1 \in 1 .. FrameLength(f) /\ x[q + 1] # LF
        /\ x[q + 1] # CR => At(f, "field", l, q + 1)
    <3>1. FieldGoesOn(f, x, local[r], q)
      BY <2>3, LocalFacts, FieldMove, Zenon
    <3> QED
      BY <3>1 DEF FieldGoesOn
  <2>5. NextChar = x[q + 1] /\ (Consume => Behind(input', full, t, p + 1))
    BY <1>4, <2>1, <2>2, <2>4, SeesNext
  <2>6. GoOn(r, "field", l) /\ Consume /\ NextChar # CR
    BY <1>4, <2>4, <2>5 DEF FieldChar
  <2> QED
    BY <1>1, <1>2, <2>1, <2>3, <2>4, <2>5, <2>6, GoesOn DEF Inside
<1> QED
  BY <1>3, <1>4

\* The CR of a line: what it says is noted.
LEMMA LineOrder ==
    ASSUME SoundPeer, Typed, Located \/ Over, NEW r \in Readers, FieldCR(r)
    PROVE  Located'
<1>1. pc[r] = "field" /\ pc[r] \in Reading /\ pc[r] \in Inside
  BY ReadingFacts DEF FieldCR, Inside
<1>2. UNCHANGED <<closed, sent, read>>
  BY DEF FieldCR
<1>3. input # <<>>
  BY DEF FieldCR, NextChar, Eof, CR, Char
<1>4. PICK frs, cut, full, t, p : Stream(frs, cut, full, t, p)
  BY <1>3 DEF Located, Over
<1>5. PICK f, x, q : InFrame(r, frs, cut, full, p, f, x, q)
  BY <1>1, <1>4, InsideFacts
<1>6. /\ Len(read) < Len(frs) /\ f = frs[Len(read) + 1] /\ f \in Frames
      /\ FrameAt(f, x) /\ p = cut[Len(read)] + q /\ At(f, "field", local[r], q)
      /\ cut[Len(read)] \in Nat
  BY <1>1, <1>5 DEF InFrame
<1> PICK l : l = HeaderValue(local[r])
  OBVIOUS
<1>7. /\ q \in Nat /\ q + 1 \in 1 .. FrameLength(f)
      /\ x[q + 1] = CR =>
            local[r].line[1] # BadLength /\ At(f, "fieldEnd", l, q + 1)
  <2>1. FieldGoesOn(f, x, local[r], q)
    BY <1>6, LocalFacts, FieldMove, Zenon
  <2> QED
    BY <2>1 DEF FieldGoesOn
<1>8. NextChar = x[q + 1] /\ (Consume => Behind(input', full, t, p + 1))
  BY <1>3, <1>4, <1>5, <1>7, SeesNext
<1>9. GoOn(r, "fieldEnd", l) /\ Consume /\ NextChar = CR
  BY <1>7, <1>8 DEF FieldCR
<1> QED
  BY <1>1, <1>2, <1>4, <1>6, <1>7, <1>8, <1>9, GoesOn DEF Inside

\* The LF after a line, and after the header.
LEMMA FeedOrder ==
    ASSUME SoundPeer, Typed, Located \/ Over, NEW r \in Readers, LineFeed(r)
    PROVE  Located' \/ Over'
<1>1. pc[r] \in {"fieldEnd", "headerEnd"} /\ pc[r] \in Reading /\ pc[r] \in Inside /\ ~Over
  BY ReadingFacts DEF LineFeed, Inside, Over
<1>2. UNCHANGED <<closed, sent, read>>
  BY DEF LineFeed
<1>3. CASE input = <<>>
  <2>1. closed /\ NextChar # LF
    BY <1>3 DEF LineFeed, Readable, AtEnd, NextChar, Eof, LF, Char
  <2>2. Throw(r, "ConnectionError") /\ input' = <<>>
    BY <1>3, <2>1 DEF LineFeed, Consume
  <2> QED
    BY <1>1, <1>2, <2>1, <2>2, ThrowsOver
<1>4. CASE input # <<>>
  <2>1. PICK frs, cut, full, t, p : Stream(frs, cut, full, t, p)
    BY <1>1 DEF Located
  <2>2. PICK f, x, q : InFrame(r, frs, cut, full, p, f, x, q)
    BY <1>1, <2>1, InsideFacts
  <2> PICK place : place = IF pc[r] = "fieldEnd" THEN "header" ELSE "body"
    OBVIOUS
  <2>3. /\ Len(read) < Len(frs) /\ f = frs[Len(read) + 1] /\ f \in Frames
        /\ FrameAt(f, x) /\ p = cut[Len(read)] + q /\ At(f, pc[r], local[r], q)
        /\ cut[Len(read)] \in Nat
    BY <2>2 DEF InFrame
  <2>4. /\ q \in Nat /\ q + 1 \in 1 .. FrameLength(f) /\ x[q + 1] = LF
        /\ At(f, place, local[r], q + 1)
    BY <1>1, <2>3, FeedMove
  <2>5. NextChar = x[q + 1] /\ (Consume => Behind(input', full, t, p + 1))
    BY <1>4, <2>1, <2>2, <2>4, SeesNext
  <2>6. GoOn(r, place, local[r]) /\ Consume /\ place \in Inside
    BY <2>4, <2>5 DEF LineFeed, Inside
  <2> QED
    BY <1>1, <1>2, <2>1, <2>3, <2>4, <2>5, <2>6, GoesOn
<1> QED
  BY <1>3, <1>4

\* The socket sees the end.
LEMMA SocketOrder ==
    ASSUME Typed, NEW r \in Readers, SocketThrows(r)
    PROVE  Over'
<1>1. pc[r] \in Reading /\ closed /\ closed' = closed /\ input' = <<>>
      /\ Throw(r, "ConnectionError")
  BY ReadingFacts DEF SocketThrows, SocketSeesEnd, Reading
<1> QED
  BY <1>1, ThrowsOver

\* A sequence is its length and its elements.
LEMMA SameSequence ==
    ASSUME NEW Q, NEW s \in Seq(Q), NEW u \in Seq(Q), NEW n \in Nat, Len(s) = n, Len(u) = n,
           \A i \in 1 .. n : s[i] = u[i]
    PROVE  s = u
OBVIOUS

\* The content is read whole, or what there is of it at the end of the input.
LEMMA BodyOrder ==
    ASSUME SoundPeer, Typed, MessagesAreReadWhole, Located \/ Over,
           NEW r \in Readers, ReadBody(r)
    PROVE  MessagesAreReadWhole' /\ (Located' \/ Over')
<1>1. /\ pc[r] = "body" /\ pc[r] \in Reading /\ pc[r] \in Inside /\ ~Over
      /\ pc' = [pc EXCEPT ![r] = "parse"] /\ UNCHANGED <<closed, sent>>
  BY ReadingFacts DEF ReadBody, Inside, Over
<1>2. PICK n \in Nat : \E k \in Nat : \E bytes \in Seq(Chars) : Taken(r, n, k, bytes)
  BY BodyFacts
<1>3. PICK k \in Nat : \E bytes \in Seq(Chars) : Taken(r, n, k, bytes)
  BY <1>2
<1>4. PICK bytes \in Seq(Chars) : Taken(r, n, k, bytes)
  BY <1>3
<1>5. PICK frs, cut, full, t, p : Stream(frs, cut, full, t, p)
  BY <1>1 DEF Located
<1>6. PICK f, x, q : InFrame(r, frs, cut, full, p, f, x, q)
  BY <1>1, <1>5, InsideFacts
<1> PICK m \in Nat : m = Len(read)
  BY DEF Typed, Data
<1> PICK c : c = f.content
  OBVIOUS
<1>7. /\ m < Len(frs) /\ f = frs[m + 1] /\ f \in Frames /\ FrameAt(f, x)
      /\ p = cut[m] + q /\ At(f, "body", local[r], q) /\ cut[m] \in Nat
      /\ cut[m + 1] = cut[m] + FrameLength(f)
  BY <1>1, <1>6 DEF InFrame
<1>8. /\ n = Size[c] /\ q \in Nat /\ q + n = FrameLength(f)
      /\ \A i \in 1 .. n : x[q + i] = Char(c, i)
  <2>1. local[r].length = n
    BY <1>4 DEF Taken
  <2>2. /\ local[r].length = Size[f.content] /\ q \in Nat
        /\ q + Size[f.content] = FrameLength(f)
        /\ \A i \in 1 .. Size[f.content] : x[q + i] = Char(f.content, i)
    BY <1>7, BodyMove
  <2> QED
    BY <2>1, <2>2
<1>9. p + n = cut[m + 1] /\ p \in Nat
  <2>1. /\ p = cut[m] + q /\ cut[m] \in Nat /\ q \in Nat
        /\ cut[m + 1] = cut[m] + (q + n)
    BY <1>7, <1>8
  <2>2. \A a, b, d \in Nat : a + b \in Nat /\ (a + b) + d = a + (b + d)
    OBVIOUS
  <2> QED
    BY <2>1, <2>2
<1>10. PICK e \in MessageType : e.bytes = bytes /\ read' = Append(read, e)
  <2>1. [bytes |-> bytes, type |-> local[r].type] \in MessageType
    BY LocalFacts DEF MessageType
  <2> QED
    BY <1>4, <2>1 DEF Taken
<1>11. /\ Len(read') = m + 1 /\ DOMAIN read' = 1 .. m + 1 /\ DOMAIN read = 1 .. m
       /\ read'[m + 1] = e /\ \A i \in 1 .. m : read'[i] = read[i]
  <2>1. read \in Seq(MessageType)
    BY DEF Typed, Data
  <2> QED
    BY <1>10, <2>1
<1>12. /\ m <= Len(sent) /\ Len(sent) <= Len(frs) /\ Len(sent) \in Nat /\ Len(frs) \in Nat
       /\ DOMAIN sent = 1 .. Len(sent)
  BY <1>5 DEF Stream, Carries, Sends, Typed, Data
<1>13. /\ t \in Nat /\ p + Len(input) = t /\ cut[Len(frs)] = Len(full) /\ Len(full) \in Nat
       /\ \/ Len(frs) = Len(sent) /\ t = Len(full)
          \/ Len(frs) = Len(sent) + 1 /\ cut[Len(sent)] <= t /\ t < Len(full)
  BY <1>5 DEF Stream, Carries, Sends, Behind
<1>14. input \in Seq(Chars) /\ Len(input) \in Nat /\ k <= Len(input) /\ k <= n
  BY <1>4 DEF Typed, Data, Taken
<1>15. ASSUME \/ m + 1 \in DOMAIN sent /\ bytes = sent[m + 1]
              \/ closed /\ m + 1 = Len(sent) + 1
       PROVE  MessagesAreReadWhole'
  <2>1. \A i \in 1 .. m + 1 : i \in 1 .. m \/ i = m + 1
    OBVIOUS
  <2>2. \A i \in 1 .. m :
           \/ i \in DOMAIN sent' /\ read'[i].bytes = sent'[i]
           \/ closed' /\ i = Len(sent') + 1
    BY <1>1, <1>11 DEF MessagesAreReadWhole
  <2>3. \/ m + 1 \in DOMAIN sent' /\ read'[m + 1].bytes = sent'[m + 1]
        \/ closed' /\ m + 1 = Len(sent') + 1
    BY <1>1, <1>10, <1>11, <1>15
  <2>4. ASSUME NEW i \in DOMAIN read'
        PROVE  \/ i \in DOMAIN sent' /\ read'[i].bytes = sent'[i]
               \/ closed' /\ i = Len(sent') + 1
    <3>1. CASE i \in 1 .. m
      BY <2>2, <3>1, Zenon
    <3>2. CASE i = m + 1
      BY <2>3, <3>2, Zenon
    <3> QED
      BY <1>11, <2>1, <3>1, <3>2
  <2> QED
    BY <2>4, Zenon DEF MessagesAreReadWhole
<1>16. CASE k = n
  <2>1. m + 1 <= Len(sent)
    <3>1. cut[m + 1] <= t
      BY <1>9, <1>13, <1>14, <1>16
    <3> SUFFICES ASSUME ~(m + 1 <= Len(sent)) PROVE FALSE
      OBVIOUS
    <3>2. Len(frs) = Len(sent) + 1 /\ t < Len(full) /\ Len(frs) = m + 1
      BY <1>7, <1>12, <1>13
    <3>3. cut[m + 1] = Len(full)
      BY <1>13, <3>2
    <3> QED
      BY <1>13, <3>1, <3>2, <3>3
  <2>2. m + 1 \in DOMAIN sent /\ sent[m + 1] = Bytes(c)
    <3>1. m + 1 \in 1 .. Len(sent)
      BY <1>12, <2>1
    <3> QED
      BY <1>5, <1>7, <1>12, <3>1 DEF Stream, Carries
  <2>3. \A i \in 1 .. n : bytes[i] = Char(c, i)
    <3>1. ASSUME NEW i \in 1 .. n PROVE bytes[i] = Char(c, i)
      <4>1. i \in Nat /\ i <= k /\ i \in 1 .. Len(input) /\ q + i \in 1 .. FrameLength(f)
        BY <1>8, <1>14, <1>16
      <4>2. bytes[i] = input[i]
        BY <1>4, <4>1 DEF Taken
      <4>3. input[i] = full[p + i]
        BY <1>5, <4>1 DEF Stream, Behind
      <4>4. full[p + i] = x[q + i]
        <5>1. Continues(full, p, x, q, FrameLength(f))
          BY <1>6, <1>8 DEF InFrame
        <5> QED
          BY <4>1, <5>1 DEF Continues
      <4> QED
        BY <1>8, <4>2, <4>3, <4>4
    <3> QED
      BY <3>1
  <2>4. bytes = Bytes(c)
    <3>1. c \in Contents
      BY <1>7, CharsAssumption
    <3>2. /\ Bytes(c) \in Seq(Chars) /\ Len(Bytes(c)) = n
          /\ \A i \in 1 .. n : Bytes(c)[i] = Char(c, i)
      BY <1>8, <3>1, BytesFacts DEF Bytes
    <3>3. Len(bytes) = n
      BY <1>4 DEF Taken
    <3>4. \A i \in 1 .. n : bytes[i] = Bytes(c)[i]
      BY <2>3, <3>2
    <3> QED
      BY <3>2, <3>3, <3>4, SameSequence
  <2>5. MessagesAreReadWhole'
    BY <1>15, <2>2, <2>4
  <2>6. Behind(input', full, t, p + n)
    <3>1. input' = SubSeq(input, k + 1, Len(input))
      BY <1>4 DEF Taken
    <3> QED
      BY <1>5, <1>14, <1>16, <3>1, BehindMany DEF Stream
  <2>7. Placed(frs, cut, p + n, m + 1, pc', local')
    BY <1>1, <1>9, PlacedOutside DEF Inside
  <2>8. Stream(frs, cut, full, t, p + n)'
    <3>1. Len(read)' = m + 1 /\ Len(sent)' = Len(sent)
      BY <1>1, <1>11
    <3> QED
      BY <1>1, <1>5, <2>1, <2>6, <2>7, <3>1 DEF Stream
  <2>9. Located'
    BY <2>8, Zenon DEF Located
  <2> QED
    BY <2>5, <2>9
<1>17. CASE k # n
  <2>1. closed /\ k = Len(input)
    BY <1>4, <1>17 DEF Taken
  <2>2. t < cut[m + 1]
    BY <1>9, <1>13, <1>14, <1>17, <2>1
  <2>3. m = Len(sent)
    <3> PICK s \in Nat : s = Len(sent)
      BY <1>12
    <3> SUFFICES ASSUME m < s PROVE FALSE
      <4>1. m <= s
        BY <1>12
      <4> QED
        BY <4>1
    <3>1. m + 1 \in 0 .. Len(frs) /\ Len(sent) \in 0 .. Len(frs) /\ m + 1 <= Len(sent)
      BY <1>12
    <3>2. cut[m + 1] <= cut[Len(sent)] /\ cut[Len(sent)] \in Nat /\ cut[m + 1] \in Nat
      BY <1>5, <3>1 DEF Stream, Sends, FrameEnds
    <3>3. cut[Len(sent)] <= t
      BY <1>13, <3>2
    <3> QED
      BY <1>13, <2>2, <3>2, <3>3
  <2>4. MessagesAreReadWhole'
    BY <1>15, <2>1, <2>3
  <2>5. input' = <<>>
    <3>1. input' = SubSeq(input, Len(input) + 1, Len(input))
      BY <1>4, <2>1 DEF Taken
    <3> QED
      BY <1>14, <3>1
  <2>6. Over'
    BY <1>1, <2>1, <2>5, OverBegins
  <2> QED
    BY <2>4, <2>6
<1> QED
  BY <1>16, <1>17

\* A thread that is not reading goes on.
LEMMA OutsideOrder ==
    ASSUME Typed, MessagesAreReadWhole, Located \/ Over, NEW t \in Threads,
           pc[t] \notin Inside, NEW place, place \notin Inside, pc' = [pc EXCEPT ![t] = place],
           \A q \in Readers : q # t => local'[q] = local[q],
           UNCHANGED <<input, closed, sent, read>>
    PROVE  MessagesAreReadWhole' /\ (Located' \/ Over')
<1>1. MessagesAreReadWhole'
  BY WholeKept
<1>2. CASE Over
  <2>1. input' = <<>> /\ place \notin {"header", "fieldEnd", "headerEnd", "body"}
    BY <1>2 DEF Over, Inside
  <2>2. Over'
    BY <1>2, <2>1, OverKept
  <2> QED
    BY <1>1, <2>2
<1>3. CASE Located
  <2>1. PICK frs, cut, full, c, p : Stream(frs, cut, full, c, p)
    BY <1>3 DEF Located
  <2>2. Placed(frs, cut, p, Len(read), pc', local')
    BY <2>1, PlacedKept DEF Stream
  <2>3. Behind(input', full, c, p)
    BY <2>1 DEF Stream
  <2>4. Located'
    BY <2>1, <2>2, <2>3, StreamMoves
  <2> QED
    BY <1>1, <2>4
<1> QED
  BY <1>2, <1>3

\* So do the begin of a readMessage and its part without the mutex,
LEMMA ParseOrder ==
    ASSUME Typed, MessagesAreReadWhole, Located \/ Over, NEW r \in Readers,
           \/ BeginRead(r) \/ ReturnMessage(r) \/ RejectMessage(r) \/ ReportError(r)
           \/ WriteError(r)
    PROVE  MessagesAreReadWhole' /\ (Located' \/ Over')
<1>1. r \in Threads /\ pc[r] \in {"idle", "parse", "report"} /\ pc[r] \notin Inside
  BY DEF Threads, Inside, BeginRead, ReturnMessage, RejectMessage, ReportError, WriteError
<1>2. PICK place \in {"idle", "start", "report", "write"} : pc' = [pc EXCEPT ![r] = place]
  BY DEF BeginRead, ReturnMessage, RejectMessage, Throw, ReportError, WriteError, BeginWrite
<1>3. local' = local \/ local' = [local EXCEPT ![r] = Fresh]
  BY DEF BeginRead, ReturnMessage, RejectMessage, Throw, ReportError, WriteError, BeginWrite,
     readVars
<1>4. \A q \in Readers : q # r => local'[q] = local[q]
  BY <1>3 DEF Typed, Data
<1>5. UNCHANGED <<input, closed, sent, read>>
  BY DEF BeginRead, ReturnMessage, RejectMessage, ReportError, WriteError, BeginWrite,
     inVars, readVars
<1>6. place \notin Inside
  BY DEF Inside
<1> QED
  BY <1>1, <1>2, <1>4, <1>5, <1>6, OutsideOrder

\* and every step of a write.
LEMMA WriterOrder ==
    ASSUME Typed, MessagesAreReadWhole, Located \/ Over, NEW t \in Threads,
           writeMessage(t) \/ WriteStep(t)
    PROVE  MessagesAreReadWhole' /\ (Located' \/ Over')
<1>1. pc[t] \in {"idle", "write"} /\ pc[t] \notin Inside
  BY DEF Inside, writeMessage, WriteStep, WriteSome, WriteEnds, WriteFails
<1>2. PICK place \in {"idle", "write"} : pc' = [pc EXCEPT ![t] = place]
  <2>1. CASE WriteSome(t)
    <3>1. pc' = pc /\ pc[t] = "write"
      BY <2>1 DEF WriteSome
    <3>2. pc' = [pc EXCEPT ![t] = "write"]
      BY <3>1 DEF Typed, Places
    <3> QED
      BY <3>2
  <2>2. CASE writeMessage(t) \/ WriteEnds(t) \/ WriteFails(t)
    BY <2>2 DEF writeMessage, BeginWrite, WriteEnds, WriteFails
  <2> QED
    BY <2>1, <2>2 DEF WriteStep
<1>3. UNCHANGED <<input, closed, sent, read, local>>
  BY DEF writeMessage, BeginWrite, WriteStep, WriteSome, WriteEnds, WriteFails, inVars,
     readVars
<1>4. place \notin Inside
  BY DEF Inside
<1> QED
  BY <1>1, <1>2, <1>3, <1>4, OutsideOrder

\* A message read whole is still one when more are sent.
LEMMA WholeStays ==
    ASSUME Typed, MessagesAreReadWhole, ~closed, NEW s \in Seq(Chars),
           sent' = Append(sent, s), read' = read
    PROVE  MessagesAreReadWhole'
<1>1. sent \in Seq(Seq(Chars))
  BY DEF Typed, Data
<1>2. \A i \in DOMAIN sent : i \in DOMAIN sent' /\ sent'[i] = sent[i]
  BY <1>1
<1> QED
  BY <1>2 DEF MessagesAreReadWhole

\* The peer sends a frame, or a part of one and closes.
LEMMA PeerStream ==
    ASSUME Typed, NEW frs, NEW cut, NEW full, NEW t, NEW p, Stream(frs, cut, full, t, p),
           Len(frs) = Len(sent), NEW f \in Frames, NEW m \in Nat,
           m <= FrameLength(f), NEW part \in Seq(Chars), Len(part) = m,
           \A i \in 1 .. m : part[i] = Encode(f.lines, f.content)[i],
           input' = input \o part, UNCHANGED <<pc, local, read>>,
           \/ sent' = Append(sent, Bytes(f.content)) /\ m = FrameLength(f)
           \/ sent' = sent /\ closed' /\ m < FrameLength(f)
    PROVE  Located'
<1> PICK n \in Nat : n = Len(frs)
  BY DEF Stream, Sends
<1> PICK k \in Nat : k = FrameLength(f)
  BY FrameElements
<1> PICK x : x = Encode(f.lines, f.content)
  OBVIOUS
<1>1. x \in Seq(Chars) /\ Len(x) = k
  BY FrameElements DEF FrameAt, CharsAt, FrameLength
<1>2. /\ frs \in Seq(Frames) /\ full \in Seq(Chars) /\ FrameEnds(frs, cut)
      /\ cut[n] = Len(full) /\ Sends(frs, cut, full)
  BY DEF Stream, Sends
<1>3. /\ \A i \in 1 .. n : sent[i] = Bytes(frs[i].content)
      /\ t = Len(full) /\ Len(sent) = n /\ t \in Nat
  <2>1. Carries(sent, frs, cut, full, t) /\ t \in Nat
    BY DEF Stream, Behind
  <2>2. Len(sent) = n
    OBVIOUS
  <2> QED
    BY <2>1, <2>2 DEF Carries
<1>4. PICK frs2 : frs2 = Append(frs, f)
  OBVIOUS
<1>5. MoreFrames(frs, f, frs2)
  BY <1>2, <1>4, AppendFacts DEF MoreFrames
<1>6. PICK cut2 : MoreCuts(n, cut, k, cut2)
  BY <1>2, CutsGrow DEF FrameEnds
<1>7. PICK full2 : full2 = full \o x
  OBVIOUS
<1>8. Concatenates(Chars, full, t, x, k, full2)
  BY <1>1, <1>2, <1>3, <1>7, ConcatAt
<1>9. Sends(frs2, cut2, full2)
  BY <1>2, <1>3, <1>5, <1>6, <1>8, ElementsGrow
<1>10. input \in Seq(Chars) /\ Len(input) \in Nat
  BY DEF Typed, Data
<1>11. Concatenates(Chars, input, Len(input), part, m, input')
  BY <1>10, ConcatAt
<1>12. Behind(input', full2, t + m, p)
  BY <1>3, <1>8, <1>10, <1>11, BehindGrows DEF Stream
<1>13. Placed(frs2, cut2, p, Len(read), pc', local')
  <2>1. Len(read) \in Nat /\ Len(read) <= n
    BY <1>3 DEF Stream, Typed, Data
  <2>2. Placed(frs2, cut2, p, Len(read), pc, local)
    BY <1>5, <1>6, <2>1, PlacedGrows DEF Stream
  <2> QED
    BY <2>2
<1>14. Len(full2) = t + k /\ Len(frs2) = n + 1 /\ frs2[n + 1] = f
       /\ \A i \in 1 .. n : frs2[i] = frs[i]
  BY <1>5, <1>8 DEF Concatenates, MoreFrames
<1>15. cut2[n] = t
  <2>1. n \in 0 .. n
    OBVIOUS
  <2> QED
    BY <1>2, <1>3, <1>6, <2>1 DEF MoreCuts
<1>16. /\ Carries(sent', frs2, cut2, full2, t + m)
       /\ Len(frs2) # Len(sent') => closed'
       /\ Len(read') <= Len(sent')
  <2>1. Len(read') \in Nat /\ Len(read') <= n
    BY <1>3 DEF Stream, Typed, Data
  <2>2. \A i \in 1 .. n : sent[i] = Bytes(frs2[i].content)
    BY <1>3, <1>14
  <2>3. CASE sent' = Append(sent, Bytes(f.content)) /\ m = FrameLength(f)
    <3>1. sent \in Seq(Seq(Chars)) /\ Bytes(f.content) \in Seq(Chars)
      BY CharsAssumption, BytesFacts DEF Typed, Data
    <3>2. /\ Len(sent') = n + 1 /\ sent'[n + 1] = Bytes(f.content)
          /\ \A i \in 1 .. n : sent'[i] = sent[i]
      BY <1>3, <2>3, <3>1, AppendFacts
    <3>3. \A i \in 1 .. n + 1 : i \in 1 .. n \/ i = n + 1
      OBVIOUS
    <3>4. \A i \in 1 .. n + 1 : sent'[i] = Bytes(frs2[i].content)
      BY <1>14, <2>2, <3>2, <3>3
    <3>5. t + m = Len(full2)
      BY <1>14, <2>3
    <3>6. Carries(sent', frs2, cut2, full2, t + m)
      BY <1>14, <3>2, <3>4, <3>5 DEF Carries
    <3> QED
      BY <1>14, <2>1, <3>2, <3>6
  <2>4. CASE sent' = sent /\ closed' /\ m < FrameLength(f)
    <3>1. t <= t + m /\ t + m < Len(full2)
      BY <1>3, <1>14, <2>4
    <3>2. Carries(sent', frs2, cut2, full2, t + m)
      BY <1>3, <1>14, <1>15, <2>2, <2>4, <3>1 DEF Carries
    <3> QED
      BY <1>3, <2>1, <2>4, <3>2
  <2> QED
    BY <2>3, <2>4
<1>17. Stream(frs2, cut2, full2, t + m, p)'
  BY <1>9, <1>12, <1>13, <1>16 DEF Stream
<1> QED
  BY <1>17, Zenon DEF Located

\* Each step of the peer.
LEMMA PeerOrder ==
    ASSUME Typed, MessagesAreReadWhole, Located \/ Over, PeerSends \/ PeerCloses
    PROVE  MessagesAreReadWhole' /\ Located'
<1>1. ~closed /\ UNCHANGED <<pc, local, read>>
  BY DEF PeerSends, PeerCloses, readVars
<1>2. PICK frs, cut, full, t, p : Stream(frs, cut, full, t, p)
  BY <1>1 DEF Located, Over
<1>3. Len(frs) = Len(sent)
  BY <1>1, <1>2 DEF Stream
<1>4. CASE PeerSends
  <2>1. PICK f \in Frames : /\ input' = input \o Encode(f.lines, f.content)
                            /\ sent' = Append(sent, Bytes(f.content))
    BY <1>4 DEF PeerSends
  <2> PICK x : x = Encode(f.lines, f.content)
    OBVIOUS
  <2> PICK m \in Nat : m = FrameLength(f)
    BY FrameElements
  <2>2. x \in Seq(Chars) /\ Len(x) = m /\ input' = input \o x
    BY <2>1, FrameElements DEF FrameAt, CharsAt, FrameLength
  <2>3. Located'
    <3>1. m <= FrameLength(f) /\ \A i \in 1 .. m : x[i] = Encode(f.lines, f.content)[i]
      OBVIOUS
    <3>2. sent' = Append(sent, Bytes(f.content)) /\ m = FrameLength(f)
      BY <2>1
    <3> QED
      BY <1>1, <1>2, <1>3, <2>2, <3>1, <3>2, PeerStream, Zenon
  <2>4. Bytes(f.content) \in Seq(Chars)
    BY CharsAssumption, BytesFacts
  <2>5. MessagesAreReadWhole'
    BY <1>1, <2>1, <2>4, WholeStays
  <2> QED
    BY <2>3, <2>5
<1>5. CASE PeerCloses /\ UNCHANGED <<input, sent>>
  <2>1. closed' = TRUE
    BY <1>5 DEF PeerCloses
  <2>2. Stream(frs, cut, full, t, p)'
    BY <1>1, <1>2, <1>5, <2>1 DEF Stream
  <2>3. Located'
    BY <2>2, Zenon DEF Located
  <2>4. MessagesAreReadWhole'
    BY <1>1, <1>5, <2>1, WholeKept
  <2> QED
    BY <2>3, <2>4
<1>6. CASE PeerCloses /\ ~UNCHANGED <<input, sent>>
  <2>1. closed' = TRUE /\ sent' = sent
    BY <1>6 DEF PeerCloses
  <2>2. PICK f \in Frames : \E n \in 1 .. Len(Encode(f.lines, f.content)) - 1 :
                input' = input \o SubSeq(Encode(f.lines, f.content), 1, n)
    BY <1>6 DEF PeerCloses
  <2> PICK x : x = Encode(f.lines, f.content)
    OBVIOUS
  <2> PICK k \in Nat : k = FrameLength(f)
    BY FrameElements
  <2>3. x \in Seq(Chars) /\ Len(x) = k
    BY FrameElements DEF FrameAt, CharsAt, FrameLength
  <2>4. PICK m \in 1 .. k - 1 : input' = input \o SubSeq(x, 1, m)
    BY <2>2, <2>3
  <2> PICK part : part = SubSeq(x, 1, m)
    OBVIOUS
  <2>5. m \in Nat /\ m < k /\ m <= k
    OBVIOUS
  <2>6. /\ part \in Seq(Chars) /\ Len(part) = m
        /\ \A i \in 1 .. m : part[i] = x[i]
    BY <2>3, <2>5
  <2>7. Located'
    BY <1>1, <1>2, <1>3, <2>1, <2>4, <2>5, <2>6, PeerStream
  <2>8. MessagesAreReadWhole'
    BY <1>1, <2>1, WholeKept
  <2> QED
    BY <2>7, <2>8
<1> QED
  BY <1>4, <1>5, <1>6

\* Where the locals are fresh after a step.
LEMMA ClearedBy ==
    ASSUME Typed, Cleared, NEW t \in Threads, NEW place, pc' = [pc EXCEPT ![t] = place],
           \A q \in Readers : q # t => local'[q] = local[q],
           t \in Readers /\ place \in {"idle", "start", "report", "write"} =>
                local'[t] = Fresh
    PROVE  Cleared'
<1>1. pc'[t] = place /\ \A q \in Readers : q # t => pc'[q] = pc[q]
  BY DEF Typed, Places, Threads
<1> QED
  BY <1>1 DEF Cleared

\* A step of readMessage: it goes on inside, or throws.
LEMMA ReadCleared ==
    ASSUME Typed, Cleared, NEW r \in Readers,
           \/ Start(r) \/ Header(r) \/ FieldChar(r) \/ FieldCR(r) \/ LineFeed(r)
           \/ SocketThrows(r)
    PROVE  Cleared'
<1>1. r \in Threads
  BY DEF Threads
<1>2. CASE Throw(r, "ConnectionError")
  <2>1. pc' = [pc EXCEPT ![r] = "idle"] /\ local' = [local EXCEPT ![r] = Fresh]
    BY <1>2 DEF Throw
  <2>2. local'[r] = Fresh /\ \A q \in Readers : q # r => local'[q] = local[q]
    BY <2>1 DEF Typed, Data
  <2> QED
    BY <1>1, <2>1, <2>2, ClearedBy
<1>3. CASE \E place \in Inside : \E l : GoOn(r, place, l)
  <2>1. PICK place \in Inside : \E l : GoOn(r, place, l)
    BY <1>3
  <2>2. PICK l : GoOn(r, place, l)
    BY <2>1
  <2>3. pc' = [pc EXCEPT ![r] = place] /\ local' = [local EXCEPT ![r] = l]
    BY <2>2 DEF GoOn
  <2>4. \A q \in Readers : q # r => local'[q] = local[q]
    BY <2>3 DEF Typed, Data
  <2>5. place \notin {"idle", "start", "report", "write"}
    BY DEF Inside
  <2> QED
    BY <1>1, <2>3, <2>4, <2>5, ClearedBy
<1>4. /\ "header" \in Inside /\ "field" \in Inside /\ "fieldEnd" \in Inside
      /\ "headerEnd" \in Inside /\ "body" \in Inside
  BY DEF Inside
<1>5. CASE Start(r) \/ Header(r)
  BY <1>2, <1>3, <1>4, <1>5, Zenon DEF Start, Header
<1>6. CASE FieldChar(r) \/ FieldCR(r)
  BY <1>2, <1>3, <1>4, <1>6, Zenon DEF FieldChar, FieldCR
<1>7. CASE LineFeed(r)
  BY <1>2, <1>3, <1>4, <1>7, Zenon DEF LineFeed
<1>8. CASE SocketThrows(r)
  BY <1>2, <1>8 DEF SocketThrows
<1> QED
  BY <1>5, <1>6, <1>7, <1>8

\* The other steps of a reader.
LEMMA ParseCleared ==
    ASSUME Typed, Cleared, NEW r \in Readers,
           \/ BeginRead(r) \/ ReadBody(r) \/ ReturnMessage(r) \/ RejectMessage(r)
           \/ ReportError(r) \/ WriteError(r)
    PROVE  Cleared'
<1>1. r \in Threads
  BY DEF Threads
<1>2. CASE ReadBody(r)
  <2>1. PICK l : local' = [local EXCEPT ![r] = l]
    BY <1>2 DEF ReadBody
  <2>2. pc' = [pc EXCEPT ![r] = "parse"]
    BY <1>2 DEF ReadBody
  <2>3. \A q \in Readers : q # r => local'[q] = local[q]
    BY <2>1 DEF Typed, Data
  <2> QED
    BY <1>1, <2>2, <2>3, ClearedBy
<1>3. CASE BeginRead(r) \/ WriteError(r)
  <2>1. pc[r] \in {"idle", "report"} /\ local' = local
    BY <1>3 DEF BeginRead, WriteError, BeginWrite, readVars
  <2>2. local'[r] = Fresh
    BY <2>1 DEF Cleared
  <2>3. PICK place : pc' = [pc EXCEPT ![r] = place]
    BY <1>3 DEF BeginRead, WriteError, BeginWrite
  <2> QED
    BY <1>1, <2>1, <2>2, <2>3, ClearedBy
<1>4. CASE ReturnMessage(r) \/ RejectMessage(r) \/ ReportError(r)
  <2>1. local' = [local EXCEPT ![r] = Fresh]
    BY <1>4 DEF ReturnMessage, RejectMessage, Throw, ReportError
  <2>2. local'[r] = Fresh /\ \A q \in Readers : q # r => local'[q] = local[q]
    BY <2>1 DEF Typed, Data
  <2>3. PICK place : pc' = [pc EXCEPT ![r] = place]
    BY <1>4 DEF ReturnMessage, RejectMessage, Throw, ReportError
  <2> QED
    BY <1>1, <2>2, <2>3, ClearedBy
<1> QED
  BY <1>2, <1>3, <1>4

\* A write leaves the locals alone.
LEMMA WriterCleared ==
    ASSUME Typed, Cleared, NEW t \in Threads, writeMessage(t) \/ WriteStep(t)
    PROVE  Cleared'
<1>1. local' = local
  BY DEF writeMessage, BeginWrite, WriteStep, WriteSome, WriteEnds, WriteFails, readVars
<1>2. CASE WriteSome(t)
  <2>1. pc' = pc
    BY <1>2 DEF WriteSome
  <2> QED
    BY <1>1, <2>1 DEF Cleared
<1>3. CASE writeMessage(t) \/ WriteEnds(t) \/ WriteFails(t)
  <2>1. PICK place : pc' = [pc EXCEPT ![t] = place]
    BY <1>3 DEF writeMessage, BeginWrite, WriteEnds, WriteFails
  <2>2. t \in Readers => pc[t] = "write"
    BY <1>3, ThreadsAssumption DEF writeMessage, WriteEnds, WriteFails
  <2>3. t \in Readers => local'[t] = Fresh
    BY <1>1, <2>2 DEF Cleared
  <2> QED
    BY <1>1, <2>1, <2>3, ClearedBy
<1> QED
  BY <1>2, <1>3 DEF WriteStep

\* The stream before the first frame.
LEMMA InitInOrder == Init => InOrder
<1> SUFFICES ASSUME Init PROVE InOrder
  OBVIOUS
<1>1. /\ input = <<>> /\ sent = <<>> /\ read = <<>>
      /\ \A r \in Readers : pc[r] = "idle" /\ local[r] = Fresh
  BY DEF Init, Threads
<1>2. MessagesAreReadWhole /\ Cleared
  BY <1>1 DEF MessagesAreReadWhole, Cleared
<1> PICK cut : cut = [i \in 0 .. 0 |-> 0]
  OBVIOUS
<1>3. Sends(<<>>, cut, <<>>)
  <2>1. cut \in [0 .. 0 -> Nat] /\ cut[0] = 0
    OBVIOUS
  <2>2. \A i \in 0 .. 0 : i = 0
    OBVIOUS
  <2>3. FrameEnds(<<>>, cut)
    BY <2>1, <2>2 DEF FrameEnds
  <2>4. Elements(<<>>, cut, <<>>)
    BY DEF Elements
  <2> QED
    BY <2>1, <2>3, <2>4 DEF Sends
<1>4. Carries(sent, <<>>, cut, <<>>, 0)
  BY <1>1 DEF Carries
<1>5. Behind(input, <<>>, 0, 0)
  BY <1>1 DEF Behind
<1>6. Placed(<<>>, cut, 0, Len(read), pc, local)
  <2>1. cut[Len(read)] = 0
    BY <1>1
  <2>2. \A r \in Readers : pc[r] \notin Inside
    BY <1>1 DEF Inside
  <2> QED
    BY <2>1, <2>2 DEF Placed
<1>7. Stream(<<>>, cut, <<>>, 0, 0)
  BY <1>1, <1>3, <1>4, <1>5, <1>6 DEF Stream
<1> QED
  BY <1>2, <1>7, Zenon DEF InOrder, Located

\* Every step keeps it.
LEMMA NextInOrder == SoundPeer /\ InOrder /\ Typed /\ [Next]_vars => InOrder'
<1> SUFFICES ASSUME SoundPeer, InOrder, Typed, [Next]_vars PROVE InOrder'
  OBVIOUS
<1>1. MessagesAreReadWhole /\ Cleared /\ (Located \/ Over)
  BY DEF InOrder
<1>2. ASSUME NEW r \in Readers, BeginRead(r) \/ ReadStep(r) PROVE InOrder'
  <2>1. Cleared'
    BY <1>1, <1>2, ReadCleared, ParseCleared DEF ReadStep
  <2>2. CASE Start(r) \/ Header(r) \/ FieldChar(r) \/ FieldCR(r) \/ LineFeed(r)
             \/ SocketThrows(r)
    <3>1. read' = read /\ sent' = sent /\ closed' = closed
      BY <2>2 DEF Start, Header, FieldChar, FieldCR, LineFeed, SocketThrows
    <3>2. MessagesAreReadWhole'
      BY <1>1, <3>1, WholeKept
    <3>3. Located' \/ Over'
      BY <1>1, <2>2, StartOrder, HeaderOrder, FieldOrder, LineOrder, FeedOrder, SocketOrder
    <3> QED
      BY <2>1, <3>2, <3>3 DEF InOrder
  <2>3. CASE ReadBody(r)
    BY <1>1, <2>1, <2>3, BodyOrder DEF InOrder
  <2>4. CASE \/ BeginRead(r) \/ ReturnMessage(r) \/ RejectMessage(r) \/ ReportError(r)
             \/ WriteError(r)
    BY <1>1, <2>1, <2>4, ParseOrder DEF InOrder
  <2> QED
    BY <1>2, <2>2, <2>3, <2>4 DEF ReadStep
<1>3. ASSUME NEW t \in Threads, writeMessage(t) \/ WriteStep(t) PROVE InOrder'
  BY <1>1, <1>3, WriterCleared, WriterOrder DEF InOrder
<1>4. ASSUME PeerSends \/ PeerCloses PROVE InOrder'
  <2>1. Cleared'
    <3>1. pc' = pc /\ local' = local
      BY <1>4 DEF PeerSends, PeerCloses, readVars
    <3> QED
      BY <1>1, <3>1 DEF Cleared
  <2> QED
    BY <1>1, <1>4, <2>1, PeerOrder DEF InOrder
<1>5. ASSUME UNCHANGED <<input, closed, sent, pc, local, read>> PROVE InOrder'
  <2>1. MessagesAreReadWhole' /\ Cleared'
    BY <1>1, <1>5 DEF MessagesAreReadWhole, Cleared
  <2>2. Over => Over'
    BY <1>5 DEF Over
  <2>3. Located => Located'
    <3> SUFFICES ASSUME Located PROVE Located'
      OBVIOUS
    <3>1. PICK frs, cut, full, t, p : Stream(frs, cut, full, t, p)
      BY DEF Located
    <3>2. Stream(frs, cut, full, t, p)'
      BY <1>5, <3>1 DEF Stream
    <3> QED
      BY <3>2, Zenon DEF Located
  <2> QED
    BY <1>1, <2>1, <2>2, <2>3 DEF InOrder
<1>6. CASE OutputBreaks \/ UNCHANGED vars
  BY <1>5, <1>6 DEF OutputBreaks, vars, inVars, readVars
<1> QED
  BY <1>2, <1>3, <1>4, <1>6 DEF Next, Threads

\* When the frames of the peer are sound, every message is read whole and in order, by
\* any number of readers, also after messages that are rejected.
THEOREM MessagesRead == SoundPeer => (Spec => []MessagesAreReadWhole)
<1> SUFFICES ASSUME SoundPeer PROVE Spec => []MessagesAreReadWhole
  OBVIOUS
<1>1. InOrder /\ Typed /\ [Next]_vars => InOrder'
  BY NextInOrder
<1>2. InOrder => MessagesAreReadWhole
  BY DEF InOrder
<1> QED
  BY InitInOrder, Invariance, <1>1, <1>2, PTL DEF Spec
=============================================================================
