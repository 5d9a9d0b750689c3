----------------------- MODULE IncomingRequestsProofs -----------------------
(***************************************************************************)
(* Proofs about IncomingRequests, for any number of readers, messages and  *)
(* handlers, and whether or not handlers change while they are called.     *)
(***************************************************************************)
EXTENDS IncomingRequests, SequenceTheorems, TLAPS

-----------------------------------------------------------------------------
(* Sequences *)

\* What is appended comes behind what was there.
LEMMA Appended ==
    ASSUME NEW S, NEW s \in Seq(S), NEW t \in Seq(S)
    PROVE  /\ s \o t \in Seq(S)
           /\ DOMAIN s = 1 .. Len(s) /\ DOMAIN t = 1 .. Len(t)
           /\ DOMAIN (s \o t) = 1 .. Len(s) + Len(t)
           /\ Len(s) \in Nat /\ Len(t) \in Nat /\ Len(s \o t) = Len(s) + Len(t)
           /\ \A i \in DOMAIN s : (s \o t)[i] = s[i]
           /\ \A i \in DOMAIN t : Len(s) + i \in DOMAIN (s \o t)
                                  /\ (s \o t)[Len(s) + i] = t[i]
           /\ DOMAIN s \subseteq DOMAIN (s \o t)
           /\ \A i \in DOMAIN (s \o t) : i \in DOMAIN s \/ i - Len(s) \in DOMAIN t
           /\ \A i \in DOMAIN (s \o t) : \/ i \in DOMAIN s /\ (s \o t)[i] = s[i]
                                         \/ /\ i - Len(s) \in DOMAIN t
                                            /\ (s \o t)[i] = t[i - Len(s)]
<1>1. /\ s \o t \in Seq(S)
      /\ Len(s \o t) = Len(s) + Len(t)
      /\ \A i \in 1 .. Len(s) + Len(t) :
            (s \o t)[i] = IF i <= Len(s) THEN s[i] ELSE t[i - Len(s)]
  BY ConcatProperties
<1>2. /\ DOMAIN s = 1 .. Len(s) /\ DOMAIN t = 1 .. Len(t)
      /\ DOMAIN (s \o t) = 1 .. Len(s \o t)
      /\ Len(s) \in Nat /\ Len(t) \in Nat
  BY <1>1, LenProperties
<1> QED
  BY <1>1, <1>2

\* The requests from message k of a batch on, and those after it.
LEMMA RestFacts ==
    ASSUME NEW s \in Seq(MessageType), NEW k \in Nat \ {0}
    PROVE  RequestsIn(SubSeq(s, k, Len(s))) =
              {s[i].serial : i \in {j \in k .. Len(s) : s[j].kind = "request"}}
<1> DEFINE rest == SubSeq(s, k, Len(s))
           n == Len(s)
<1>1. n \in Nat /\ \A i \in k .. n : s[i] \in MessageType
  BY LenProperties, ElementOfSeq
<1>2. /\ Len(rest) = IF k <= n THEN n - k + 1 ELSE 0
      /\ \A i \in 1 .. n - k + 1 : rest[i] = s[k + i - 1]
      /\ rest \in Seq(MessageType)
  BY <1>1, SubSeqProperties
<1>3. DOMAIN rest = 1 .. Len(rest)
  BY <1>2, LenProperties
<1>4. \A i \in DOMAIN rest : k + i - 1 \in k .. n /\ rest[i] = s[k + i - 1]
  BY <1>1, <1>2, <1>3
<1>5. \A j \in k .. n : j - k + 1 \in DOMAIN rest /\ rest[j - k + 1] = s[j]
  BY <1>1, <1>2, <1>3
<1> HIDE DEF rest, n
<1>6. RequestsIn(rest) = {s[i].serial : i \in {j \in k .. n : s[j].kind = "request"}}
  BY <1>4, <1>5 DEF RequestsIn
<1> QED
  BY <1>6 DEF rest, n

\* The request, if m is one.
LEMMA SingleRequest ==
    ASSUME NEW m \in MessageType
    PROVE  RequestsIn(<<m>>) = IF m.kind = "request" THEN {m.serial} ELSE {}
<1>1. DOMAIN <<m>> = {1} /\ <<m>>[1] = m
  OBVIOUS
<1> QED
  BY <1>1 DEF RequestsIn

-----------------------------------------------------------------------------
(* Who owes what *)

\* The requests of r's batch that r has not dispatched or is dispatching, and the
\* ones whose answers it holds.
Rest(r) ==
    {batch[r][i].serial :
        i \in {j \in index[r] .. Len(batch[r]) : batch[r][j].kind = "request"}}
Held(r) == {answers[r][i].id : i \in DOMAIN answers[r]} \ {NullId}

\* The requests left to tasks that will answer.
InPool ==
    {captured[n][1].id : n \in {t \in PoolTasks :
        Answers(captured[t][1].style, captured[t][1].id)}} \ {NullId}

Owes(x) == x \in InPool \/ \E r \in Readers : x \in Rest(r) \union Held(r)

\* Owed, place by place.
LEMMA OwedIs == TypeOK => \A x : x \in Owed <=> Owes(x)
<1> SUFFICES ASSUME TypeOK PROVE \A x : x \in Owed <=> Owes(x)
  OBVIOUS
<1>1. ASSUME NEW r \in Readers PROVE batch[r] # <<>> => InBatch(r) = Rest(r)
  BY RestFacts DEF TypeOK, ReadersTyped, InBatch, Rest
<1>2. ASSUME NEW r \in Readers, batch[r] = <<>> PROVE Rest(r) = {}
  BY <1>2 DEF TypeOK, ReadersTyped, Rest
<1> QED
  BY <1>1, <1>2 DEF Owed, Owes, Held, InAnswers, InPool

\* The same of the next state.
LEMMA OwedIsNext == (TypeOK => \A x : x \in Owed <=> Owes(x))'
BY OwedIs, PTL
-----------------------------------------------------------------------------
(* The inductive invariant *)

\* The messages r has in hand: its batch, and the requests it holds answers for.
InHand(r) == {batch[r][i].serial : i \in DOMAIN batch[r]} \union Held(r)

\* The requests answers were sent for.
Sent == {SentIds[i] : i \in DOMAIN outbox} \ {NullId}

\* The messages of A and those of B did not come in the same batch.
Apart(A, B) == \A x \in A, y \in B : origin[x] # origin[y]

\* Message n came alone.
Alone(n) == \A k \in 1 .. received : origin[k] = origin[n] => k = n

\* A batch is a run of serials, a message that may be answered by the pool came
\* alone, and only a request or a notification is passed to a handler.
BatchesAreRuns ==
    \A r \in Readers :
        /\ \A i \in DOMAIN batch[r] :
              /\ batch[r][i].serial = batch[r][1].serial + i - 1
              /\ batch[r][i].serial <= received
              /\ origin[batch[r][i].serial] = batch[r][1].serial
        /\ batch[r] # <<>> /\ allowAsync[r] =>
              Len(batch[r]) = 1 /\ Alone(batch[r][1].serial)
        /\ pc[r] = "call" => Message(r).kind # "response"

\* The answers a reader holds are to the messages it has behind it, in their order.
Ordered(r) ==
    \A i \in DOMAIN answers[r] : answers[r][i].id # NullId =>
        LET x == answers[r][i].id
        IN  /\ x \in 1 .. received
            /\ batch[r] # <<>> => x < Message(r).serial /\ origin[x] = batch[r][1].serial
            /\ \A j \in DOMAIN answers[r] : answers[r][j].id # NullId =>
                  LET y == answers[r][j].id
                  IN  origin[x] = origin[y] /\ (i < j => x < y)
AnswersInOrder == \A r \in Readers : Ordered(r)

\* A task is in the pool once, captured the id of its own message, and that
\* message came alone.
LeftToPool ==
    /\ \A n \in PoolTasks :
          n <= received /\ Alone(n) /\ captured[n][1].id \in {n, NullId}
    /\ \A i, j \in DOMAIN poolQueue :
          /\ poolQueue[i] \notin poolRunning
          /\ i # j => poolQueue[i] # poolQueue[j]

\* No two of the readers, the pool and the output have messages of one batch.
Separate ==
    /\ Sent \subseteq 1 .. received /\ abandoned \subseteq 1 .. received
    /\ \A n \in 1 .. received : origin[n] \in 1 .. n
    /\ \A r, q \in Readers : r # q => Apart(InHand(r), InHand(q))
    /\ \A r \in Readers : Apart(InHand(r), PoolTasks) /\ Apart(InHand(r), Sent)
    /\ PoolTasks \intersect Sent = {}

\* The destructor runs alone, and returns when the pool has nothing left.
Closing ==
    /\ poolDraining \/ destroyed => \A r \in Readers : pc[r] = "idle"
    /\ destroyed => PoolTasks = {}

-----------------------------------------------------------------------------
(* What the operations do *)

\* Advance moves r to its next message or to the end of its batch, and nobody else.
LEMMA AdvanceFacts ==
    ASSUME ReadersTyped, NEW r \in Readers, batch[r] # <<>>,
           NEW replies \in Seq(AnswerType), Advance(r, replies)
    PROVE  /\ ReadersTyped'
           /\ \A q \in Readers : q # r => /\ batch'[q] = batch[q] /\ pc'[q] = pc[q]
                                         /\ index'[q] = index[q] /\ answers'[q] = answers[q]
           /\ allowAsync' = allowAsync
           /\ answers'[r] = answers[r] \o replies
           /\ \/ /\ index[r] < Len(batch[r])
                 /\ batch'[r] = batch[r] /\ index'[r] = index[r] + 1
                 /\ pc'[r] = "dispatch"
              \/ /\ index[r] = Len(batch[r])
                 /\ batch'[r] = <<>> /\ index'[r] = index[r] /\ pc'[r] \in {"idle", "write"}
<1> USE DEF ReadersTyped
<1>1. answers[r] \o replies \in Seq(AnswerType)
  BY Appended
<1>2. answers' = [answers EXCEPT ![r] = answers[r] \o replies]
  BY DEF Advance
<1>3. index[r] \in 1 .. Len(batch[r]) /\ DOMAIN batch[r] = 1 .. Len(batch[r])
      /\ Len(batch[r]) \in Nat
  BY LenProperties
<1>4. pc[r] \in {"dispatch", "call"}
  OBVIOUS
<1>5. CASE More(r)
  <2>1. /\ index' = [index EXCEPT ![r] = index[r] + 1]
        /\ pc' = [pc EXCEPT ![r] = "dispatch"]
        /\ UNCHANGED <<batch, allowAsync>>
    BY <1>5 DEF Advance
  <2> QED
    BY <1>1, <1>2, <1>3, <1>5, <2>1 DEF More
<1>6. CASE ~More(r)
  <2>1. /\ pc' = [pc EXCEPT ![r] = IF answers'[r] = <<>> THEN "idle" ELSE "write"]
        /\ batch' = [batch EXCEPT ![r] = <<>>]
        /\ UNCHANGED <<index, allowAsync>>
    BY <1>6 DEF Advance
  <2> QED
    BY <1>1, <1>2, <1>3, <1>6, <2>1 DEF More
<1> QED
  BY <1>5, <1>6

\* What a reader owes are serials.
LEMMA OwingFacts ==
    ASSUME ReadersTyped, NEW r \in Readers
    PROVE  Rest(r) \subseteq Serials /\ Held(r) \subseteq Serials
<1>1. /\ DOMAIN batch[r] = 1 .. Len(batch[r]) /\ Len(batch[r]) \in Nat
      /\ DOMAIN answers[r] = 1 .. Len(answers[r]) /\ Len(answers[r]) \in Nat
  BY LenProperties DEF ReadersTyped
<1>2. \A i \in index[r] .. Len(batch[r]) : batch[r][i] \in MessageType
  BY <1>1, ElementOfSeq DEF ReadersTyped
<1>3. \A i \in DOMAIN answers[r] : answers[r][i] \in AnswerType
  BY <1>1, ElementOfSeq DEF ReadersTyped
<1>4. \A i \in DOMAIN answers[r] : answers[r][i].id \in 0 .. MaxMessages
  BY <1>3 DEF AnswerType
<1> QED
  BY <1>2, <1>4, BoundsAssumption DEF Rest, Held, MessageType, Serials, NullId

\* Throw leaves r without batch and answers, and gives up all that it owed.
LEMMA ThrowFacts ==
    ASSUME ReadersTyped, NEW r \in Readers, Throw(r)
    PROVE  /\ ReadersTyped'
           /\ \A q \in Readers : q # r => /\ batch'[q] = batch[q] /\ pc'[q] = pc[q]
                                         /\ index'[q] = index[q] /\ answers'[q] = answers[q]
           /\ allowAsync' = allowAsync
           /\ batch'[r] = <<>> /\ answers'[r] = <<>> /\ pc'[r] = "idle"
           /\ abandoned' = abandoned \union Rest(r) \union Held(r)
           /\ abandoned \subseteq Serials => abandoned' \subseteq Serials
<1>1. InBatch(r) = Rest(r)
  BY RestFacts DEF ReadersTyped, InBatch, Rest
<1>2. /\ answers' = [answers EXCEPT ![r] = <<>>]
      /\ batch' = [batch EXCEPT ![r] = <<>>]
      /\ pc' = [pc EXCEPT ![r] = "idle"]
      /\ index' = index /\ allowAsync' = allowAsync
      /\ abandoned' = abandoned \union Rest(r) \union Held(r)
  BY <1>1 DEF Throw, Held, InAnswers
<1> QED
  BY <1>2, EmptySeq, OwingFacts DEF ReadersTyped

\* What the answers of one write look like on the stream.
LEMMA WrittenFacts ==
    ASSUME outbox \in Seq([answer : AnswerType, write : Nat]),
           NEW s \in Seq(AnswerType), Written(s)
    PROVE  /\ outbox' \in Seq([answer : AnswerType, write : Nat])
           /\ DOMAIN outbox = 1 .. Len(outbox) /\ DOMAIN s = 1 .. Len(s)
           /\ Len(outbox) \in Nat /\ Len(s) \in Nat /\ Len(outbox') = Len(outbox) + Len(s)
           /\ DOMAIN outbox' = 1 .. Len(outbox) + Len(s)
           /\ \A i \in DOMAIN outbox : outbox'[i] = outbox[i]
           /\ \A i \in DOMAIN s :
                 /\ Len(outbox) + i \in DOMAIN outbox'
                 /\ outbox'[Len(outbox) + i].answer = s[i]
                 /\ outbox'[Len(outbox) + i].write = Len(outbox)
           /\ \A i \in DOMAIN outbox' : i \in DOMAIN outbox \/ i - Len(outbox) \in DOMAIN s
<1> DEFINE T == [answer : AnswerType, write : Nat]
           w == [i \in DOMAIN s |-> [answer |-> s[i], write |-> Len(outbox)]]
<1>1. DOMAIN s = 1 .. Len(s) /\ Len(s) \in Nat /\ Len(outbox) \in Nat
  BY LenProperties
<1>2. \A i \in DOMAIN s : s[i] \in AnswerType
  BY <1>1, ElementOfSeq
<1>3. w \in [1 .. Len(s) -> T]
  BY <1>1, <1>2
<1>4. w \in Seq(T) /\ DOMAIN w = DOMAIN s /\ Len(w) = Len(s)
  BY <1>1, <1>3, SeqDef, LenProperties
<1>5. outbox' = outbox \o w
  BY DEF Written
<1>6. \A i \in DOMAIN s : w[i].answer = s[i] /\ w[i].write = Len(outbox)
  OBVIOUS
<1> HIDE DEF T, w
<1>7. outbox \in Seq(T)
  BY DEF T
<1>8. /\ outbox \o w \in Seq(T)
      /\ DOMAIN outbox = 1 .. Len(outbox)
      /\ DOMAIN (outbox \o w) = 1 .. Len(outbox) + Len(w)
      /\ Len(outbox \o w) = Len(outbox) + Len(w)
  BY <1>4, <1>7, Appended
<1>9. \A i \in DOMAIN outbox : (outbox \o w)[i] = outbox[i]
  BY <1>4, <1>7, Appended
<1>10. \A i \in DOMAIN w : Len(outbox) + i \in DOMAIN (outbox \o w)
                          /\ (outbox \o w)[Len(outbox) + i] = w[i]
  BY <1>4, <1>7, Appended
<1>11. \A i \in DOMAIN (outbox \o w) : i \in DOMAIN outbox \/ i - Len(outbox) \in DOMAIN w
  BY <1>4, <1>7, Appended
<1>12. /\ DOMAIN outbox' = 1 .. Len(outbox) + Len(s)
       /\ Len(outbox') = Len(outbox) + Len(s)
       /\ \A i \in DOMAIN outbox : outbox'[i] = outbox[i]
       /\ \A i \in DOMAIN s : Len(outbox) + i \in DOMAIN outbox'
                              /\ outbox'[Len(outbox) + i] = w[i]
       /\ \A i \in DOMAIN outbox' : i \in DOMAIN outbox \/ i - Len(outbox) \in DOMAIN s
  BY <1>4, <1>5, <1>8, <1>9, <1>10, <1>11
<1>13. outbox' \in Seq([answer : AnswerType, write : Nat])
  BY <1>5, <1>8 DEF T
<1>14. \A i \in DOMAIN s : /\ outbox'[Len(outbox) + i].answer = s[i]
                            /\ outbox'[Len(outbox) + i].write = Len(outbox)
  BY <1>6, <1>12
<1> QED
  BY <1>1, <1>8, <1>12, <1>13, <1>14

\* Where the pool's tasks are: a start moves one, and a task that is once in the
\* pool is gone when it is done.
LEMMA PoolFacts ==
    ASSUME PoolTyped
    PROVE  /\ Pool!Start => /\ PoolTasks' = PoolTasks /\ poolQueue' \in Seq(Serials)
                            /\ poolRunning' \subseteq Serials
           /\ \A n \in Serials : Pool!Accept(n) =>
                 /\ PoolTasks' = PoolTasks \union {n} /\ poolQueue' \in Seq(Serials)
                 /\ n \notin PoolTasks
           /\ \A n \in Serials : Pool!Finish(n) =>
                 /\ n \in PoolTasks /\ poolQueue' = poolQueue
                 /\ poolRunning' = poolRunning \ {n}
                 /\ poolOutcome' \in [Serials -> {"none"} \union Pool!Outcomes]
                 /\ LeftToPool => PoolTasks' = PoolTasks \ {n}
<1>1. ASSUME Pool!Start
      PROVE  /\ PoolTasks' = PoolTasks /\ poolQueue' \in Seq(Serials)
             /\ poolRunning' \subseteq Serials
  <2>1. /\ poolQueue # <<>> /\ poolQueue' = Tail(poolQueue)
        /\ poolRunning' = poolRunning \union {Head(poolQueue)}
    BY <1>1 DEF Pool!Start
  <2>2. /\ Head(poolQueue) \in Serials /\ Tail(poolQueue) \in Seq(Serials)
        /\ Len(Tail(poolQueue)) = Len(poolQueue) - 1
        /\ \A i \in 1 .. Len(Tail(poolQueue)) : Tail(poolQueue)[i] = poolQueue[i + 1]
        /\ Head(poolQueue) = poolQueue[1]
    BY <2>1, HeadTailProperties DEF PoolTyped
  <2>3. /\ DOMAIN poolQueue = 1 .. Len(poolQueue) /\ Len(poolQueue) \in Nat \ {0}
        /\ DOMAIN Tail(poolQueue) = 1 .. Len(poolQueue) - 1
    BY <2>1, <2>2, LenProperties, EmptySeq DEF PoolTyped
  <2>4. \A i \in DOMAIN poolQueue : i = 1 \/ /\ i - 1 \in DOMAIN Tail(poolQueue)
                                             /\ Tail(poolQueue)[i - 1] = poolQueue[i]
    BY <2>2, <2>3
  <2>5. \A i \in DOMAIN Tail(poolQueue) : /\ i + 1 \in DOMAIN poolQueue
                                          /\ Tail(poolQueue)[i] = poolQueue[i + 1]
    BY <2>2, <2>3
  <2>6. 1 \in DOMAIN poolQueue
    BY <2>3
  <2> DEFINE rest == Tail(poolQueue)
  <2>7. {poolQueue[i] : i \in DOMAIN poolQueue} =
            {rest[i] : i \in DOMAIN rest} \union {poolQueue[1]}
    <3>1. /\ \A i \in DOMAIN poolQueue : i = 1 \/ /\ i - 1 \in DOMAIN rest
                                                  /\ rest[i - 1] = poolQueue[i]
          /\ \A i \in DOMAIN rest : i + 1 \in DOMAIN poolQueue /\ rest[i] = poolQueue[i + 1]
      BY <2>4, <2>5
    <3> HIDE DEF rest
    <3> QED
      BY <2>6, <3>1
  <2>8. PoolTasks' = PoolTasks
    BY <2>1, <2>2, <2>7 DEF PoolTasks
  <2> QED
    BY <2>1, <2>2, <2>8 DEF PoolTyped
<1>2. ASSUME NEW n \in Serials, Pool!Accept(n)
      PROVE  /\ PoolTasks' = PoolTasks \union {n} /\ poolQueue' \in Seq(Serials)
             /\ n \notin PoolTasks
  <2>1. poolQueue' = Append(poolQueue, n) /\ poolRunning' = poolRunning /\ Pool!Fresh(n)
    BY <1>2 DEF Pool!Accept
  <2>2. /\ poolQueue' \in Seq(Serials)
        /\ DOMAIN poolQueue = 1 .. Len(poolQueue) /\ Len(poolQueue) \in Nat
        /\ DOMAIN poolQueue' = 1 .. Len(poolQueue) + 1
        /\ \A i \in DOMAIN poolQueue : poolQueue'[i] = poolQueue[i]
        /\ poolQueue'[Len(poolQueue) + 1] = n
    BY <2>1, AppendProperties DEF PoolTyped
  <2> QED
    BY <2>1, <2>2 DEF PoolTasks, Pool!Fresh
<1>3. ASSUME NEW n \in Serials, Pool!Finish(n)
      PROVE  /\ n \in PoolTasks /\ poolQueue' = poolQueue
             /\ poolRunning' = poolRunning \ {n}
             /\ poolOutcome' \in [Serials -> {"none"} \union Pool!Outcomes]
             /\ LeftToPool => PoolTasks' = PoolTasks \ {n}
  BY <1>3 DEF Pool!Finish, PoolTasks, PoolTyped, LeftToPool
<1> QED
  BY <1>1, <1>2, <1>3

\* The message being processed, and the answers a handler may make to it.
LEMMA MessageFacts ==
    ASSUME ReadersTyped, NEW r \in Readers, batch[r] # <<>>
    PROVE  /\ Message(r) \in MessageType
           /\ IdOf(Message(r)) \in {NullId, Message(r).serial}
           /\ IdOf(Message(r)) \in 0 .. MaxMessages
           /\ index[r] \in 1 .. Len(batch[r]) /\ DOMAIN batch[r] = 1 .. Len(batch[r])
           /\ Len(batch[r]) \in Nat
<1>1. DOMAIN batch[r] = 1 .. Len(batch[r]) /\ Len(batch[r]) \in Nat
  BY LenProperties DEF ReadersTyped
<1>2. Message(r) \in MessageType
  BY <1>1, ElementOfSeq DEF ReadersTyped, Message
<1> QED
  BY <1>1, <1>2, BoundsAssumption
     DEF ReadersTyped, MessageType, IdOf, NullId, isNotification, Serials

\* The error answers are answers.
LEMMA RepliesFacts ==
    ASSUME NEW m \in MessageType
    PROVE  /\ MethodNotFound(m) \in Seq(AnswerType)
           /\ \A cause \in Errors : ErrorAnswer(m, cause) \in Seq(AnswerType)
<1>1. \A a \in AnswerType : <<a>> \in Seq(AnswerType)
  OBVIOUS
<1>2. <<>> \in Seq(AnswerType)
  OBVIOUS
<1>3. m.serial \in 0 .. MaxMessages
  BY BoundsAssumption DEF MessageType, Serials
<1>4. [id |-> m.serial, cause |-> "method", code |-> "MethodNotFound"] \in AnswerType
  BY <1>3 DEF AnswerType
<1>5. \A cause \in Errors :
         [id |-> m.serial, cause |-> cause, code |-> SyncCode(cause)] \in AnswerType
  BY <1>3 DEF AnswerType, SyncCode, Outcomes, Errors
<1> HIDE DEF AnswerType
<1> QED
  BY <1>1, <1>2, <1>4, <1>5 DEF MethodNotFound, ErrorAnswer

\* The answers made of a result are answers.
LEMMA ValueFacts ==
    ASSUME NEW style, NEW id \in 0 .. MaxMessages, NEW cause \in Outcomes \ {"unknown"}
    PROVE  /\ ValueAnswer(style, id) \in Seq(AnswerType)
           /\ <<[id |-> id, cause |-> cause, code |-> AsyncCode(cause)]>> \in Seq(AnswerType)
<1>1. \A a \in AnswerType : <<a>> \in Seq(AnswerType)
  OBVIOUS
<1>2. <<>> \in Seq(AnswerType)
  OBVIOUS
<1>3. /\ [id |-> id, cause |-> cause, code |-> AsyncCode(cause)] \in AnswerType
      /\ [id |-> id, cause |-> "value", code |-> SyncCode("value")] \in AnswerType
  BY DEF AnswerType, SyncCode, AsyncCode, Outcomes, Errors
<1> HIDE DEF AnswerType
<1> QED
  BY <1>1, <1>2, <1>3 DEF ValueAnswer

\* What the call of a handler goes by.
LEMMA CallFacts ==
    ASSUME TypeOK, ContextOnlyInHandler, NEW r \in Readers, pc[r] = "call"
    PROVE  /\ batch[r] # <<>> /\ Message(r) \in MessageType /\ Message(r).serial \in Serials
           /\ context[r][1] = IdOf(Message(r)) /\ context[r][1] \in 0 .. MaxMessages
           /\ \A h \in Called(Message(r).method) : h \in Handlers
           /\ RequestsIn(<<Message(r)>>) \subseteq Serials
<1>1. batch[r] # <<>>
  BY DEF TypeOK, ReadersTyped
<1>2. Message(r) \in MessageType /\ IdOf(Message(r)) \in 0 .. MaxMessages
  BY <1>1, MessageFacts DEF TypeOK
<1>3. context[r] = <<IdOf(Message(r))>>
  BY DEF ContextOnlyInHandler
<1>4. Message(r).method \in Methods /\ Message(r).serial \in Serials
  BY <1>2 DEF MessageType
<1>5. \A h \in Called(Message(r).method) : h \in Handlers
  BY <1>4 DEF Called, TypeOK
<1>6. RequestsIn(<<Message(r)>>) \subseteq Serials
  BY <1>2, <1>4, SingleRequest
<1>7. context[r][1] = IdOf(Message(r))
  BY <1>3
<1> QED
  BY <1>1, <1>2, <1>4, <1>5, <1>6, <1>7

\* r has read n messages, whose serials follow those read before.
HasRead(r, n) ==
    /\ n \in 1 .. MaxMessages /\ received' = received + n /\ received' \in 0 .. MaxMessages
    /\ allowAsync'[r] => n = 1
    /\ Len(batch'[r]) = n /\ DOMAIN batch'[r] = 1 .. n
    /\ \A i \in 1 .. n : /\ batch'[r][i] \in MessageType /\ batch'[r][i].serial = received + i
                         /\ \E f \in Forms : /\ f.kind = batch'[r][i].kind
                                            /\ f.method = batch'[r][i].method
    /\ pc[r] = "idle" /\ pc'[r] = "dispatch" /\ index'[r] = 1
    /\ answers' = answers /\ answers[r] = <<>>
    /\ origin' = [k \in Serials |->
                      IF k \in received + 1 .. received + n THEN received + 1 ELSE origin[k]]
    /\ \A q \in Readers : q # r =>
          /\ batch'[q] = batch[q] /\ pc'[q] = pc[q]
          /\ index'[q] = index[q] /\ allowAsync'[q] = allowAsync[q]
    /\ ReadersTyped' /\ ~poolDraining /\ ~destroyed
    /\ UNCHANGED <<captured, poolVars, destroyed, outbox, abandoned>>

\* readMessage brings the reader one message or more.
LEMMA ReadFacts ==
    ASSUME TypeOK, NEW r \in Readers, readMessage(r)
    PROVE  \E n \in 1 .. MaxMessages : HasRead(r, n)
<1> USE DEF TypeOK, ReadersTyped
<1>1. PICK size \in 1 .. MaxBatch, single \in BOOLEAN :
        /\ single => size = 1
        /\ received + size <= MaxMessages
        /\ \E forms \in [1 .. size -> Forms] :
              batch' = [batch EXCEPT ![r] =
                  [i \in 1 .. size |-> [serial |-> received + i,
                                        kind |-> forms[i].kind,
                                        method |-> forms[i].method]]]
        /\ allowAsync' = [allowAsync EXCEPT ![r] = single]
        /\ origin' = [n \in Serials |->
              IF n \in received + 1 .. received + size THEN received + 1 ELSE origin[n]]
        /\ received' = received + size
  BY DEF readMessage
<1>2. PICK forms \in [1 .. size -> Forms] :
        batch' = [batch EXCEPT ![r] =
            [i \in 1 .. size |-> [serial |-> received + i,
                                  kind |-> forms[i].kind,
                                  method |-> forms[i].method]]]
  BY <1>1
<1> DEFINE new == [i \in 1 .. size |-> [serial |-> received + i,
                                        kind |-> forms[i].kind,
                                        method |-> forms[i].method]]
<1>3. \A i \in 1 .. size : forms[i].kind \in {"request", "notification", "response"}
                            /\ forms[i].method \in Methods
  <2>1. \A i \in 1 .. size : forms[i] \in Forms
    OBVIOUS
  <2> QED
    BY <2>1, FormsAssumption
<1>4. \A i \in 1 .. size : received + i \in Serials
  BY <1>1, BoundsAssumption DEF Serials
<1>5. new \in [1 .. size -> MessageType] /\ size \in Nat /\ size > 0
  <2>1. \A i \in 1 .. size : [serial |-> received + i, kind |-> forms[i].kind,
                               method |-> forms[i].method] \in MessageType
    BY <1>3, <1>4 DEF MessageType
  <2>2. new \in [1 .. size -> MessageType]
    BY <2>1, Zenon
  <2>3. size \in Nat /\ size > 0
    BY BoundsAssumption
  <2> QED
    BY <2>2, <2>3, Zenon
<1>6. new \in Seq(MessageType) /\ DOMAIN new = 1 .. size /\ Len(new) = size
  BY <1>5, SeqDef, LenProperties
<1>7. \A i \in 1 .. size : /\ new[i] \in MessageType /\ new[i].serial = received + i
                           /\ \E f \in Forms : f.kind = new[i].kind /\ f.method = new[i].method
  <2>1. \A i \in 1 .. size :
           /\ forms[i] \in Forms /\ new[i].serial = received + i
           /\ forms[i].kind = new[i].kind /\ forms[i].method = new[i].method
    OBVIOUS
  <2> HIDE DEF new
  <2> QED
    BY <1>5, <2>1
<1>8. new # <<>> /\ 1 \in DOMAIN new
  <2>1. 1 \in DOMAIN new
    BY <1>5, <1>6
  <2>2. DOMAIN <<>> = {}
    OBVIOUS
  <2> HIDE DEF new
  <2> QED
    BY <2>1, <2>2
<1>9. /\ pc[r] = "idle" /\ answers[r] = <<>>
      /\ index' = [index EXCEPT ![r] = 1]
      /\ answers' = [answers EXCEPT ![r] = <<>>]
      /\ pc' = [pc EXCEPT ![r] = "dispatch"]
  BY DEF readMessage
<1>10. batch' = [batch EXCEPT ![r] = new]
  BY <1>2
<1> HIDE DEF new
<1>11. allowAsync' \in [Readers -> BOOLEAN] /\ (allowAsync'[r] <=> single)
       /\ \A q \in Readers : q # r => allowAsync'[q] = allowAsync[q]
  BY <1>1, Zenon
<1>12. answers' = answers
  BY <1>9
<1>13. size \in 1 .. MaxMessages /\ received + size \in 0 .. MaxMessages
  BY <1>1, BoundsAssumption
<1>14. ReadersTyped'
  <2>1. /\ pc' \in [Readers -> {"idle", "dispatch", "call", "write"}]
        /\ batch' \in [Readers -> Seq(MessageType)]
        /\ index' \in [Readers -> Nat \ {0}]
    BY <1>6, <1>9, <1>10
  <2>2. ASSUME NEW q \in Readers
        PROVE  /\ pc'[q] \in {"dispatch", "call"} <=> batch'[q] # <<>>
               /\ batch'[q] # <<>> => index'[q] \in DOMAIN batch'[q]
               /\ pc'[q] = "idle" => answers'[q] = <<>>
               /\ pc'[q] = "write" => answers'[q] # <<>>
    <3>1. CASE q = r
      BY <1>8, <1>9, <1>10, <3>1
    <3>2. CASE q # r
      BY <1>9, <1>10, <1>12, <3>2
    <3> QED
      BY <3>1, <3>2
  <2> QED
    BY <1>11, <1>12, <2>1, <2>2
<1>15. batch'[r] = new /\ index'[r] = 1 /\ pc'[r] = "dispatch"
       /\ \A q \in Readers : q # r => /\ batch'[q] = batch[q] /\ pc'[q] = pc[q]
                                     /\ index'[q] = index[q]
  BY <1>9, <1>10
<1>16. /\ ~poolDraining /\ ~destroyed
       /\ UNCHANGED <<captured, poolVars, destroyed, outbox, abandoned>>
  BY DEF readMessage
<1>17. /\ Len(batch'[r]) = size /\ DOMAIN batch'[r] = 1 .. size
       /\ \A i \in 1 .. size :
             /\ batch'[r][i] \in MessageType /\ batch'[r][i].serial = received + i
             /\ \E f \in Forms : f.kind = batch'[r][i].kind /\ f.method = batch'[r][i].method
  BY <1>6, <1>7, <1>15
<1>18. /\ size \in 1 .. MaxMessages /\ received' = received + size
       /\ received' \in 0 .. MaxMessages /\ (allowAsync'[r] => size = 1)
       /\ origin' = [k \in Serials |->
                IF k \in received + 1 .. received + size THEN received + 1 ELSE origin[k]]
  BY <1>1, <1>11, <1>13
<1>19. HasRead(r, size)
  BY <1>9, <1>11, <1>12, <1>14, <1>15, <1>16, <1>17, <1>18 DEF HasRead
<1> QED
  BY <1>13, <1>19

-----------------------------------------------------------------------------
(* One step preserves each part of the invariant. *)

\* What is in the pool keeps its type where a step leaves the pool alone.
LEMMA PoolUnchanged ==
    ASSUME PoolTyped, UNCHANGED <<captured, poolVars>>
    PROVE  PoolTyped'
BY DEF PoolTyped, PoolTasks, poolVars

\* Every variable keeps its type.
LEMMA TypeStep ==
    TypeOK /\ ContextOnlyInHandler /\ LeftToPool /\ [Next]_vars => TypeOK'
<1> SUFFICES ASSUME TypeOK, ContextOnlyInHandler, LeftToPool, [Next]_vars PROVE TypeOK'
  OBVIOUS
<1> USE DEF readerVars, poolVars, boundVars
<1>1. ASSUME NEW m \in Methods, NEW h \in Handlers \union {NoHandler}, Change(m, h)
      PROVE  TypeOK'
  BY <1>1, BoundsAssumption DEF Change, TypeOK, ReadersTyped, PoolTyped, PoolTasks
<1>2. ASSUME NEW r \in Readers, readMessage(r) PROVE TypeOK'
  <2>1. PICK n \in 1 .. MaxMessages : HasRead(r, n)
    BY <1>2, ReadFacts
  <2>2. origin' \in [Serials -> 0 .. MaxMessages]
    BY <2>1, BoundsAssumption DEF HasRead, TypeOK
  <2>3. UNCHANGED <<table, context, captured, poolVars, destroyed, outbox, abandoned, boundVars>>
    BY <1>2 DEF readMessage
  <2> QED
    BY <2>1, <2>2, <2>3 DEF HasRead, TypeOK, PoolTyped, PoolTasks
<1>3. ASSUME NEW r \in Readers, ReaderStep(r) PROVE TypeOK'
  <2> USE DEF TypeOK
  <2>1. CASE DispatchResponse(r)
    <3>1. batch[r] # <<>> /\ <<>> \in Seq(AnswerType)
      BY <2>1 DEF DispatchResponse, ReadersTyped
    <3>2. ReadersTyped' /\ abandoned' \subseteq Serials
      BY <2>1, <3>1, AdvanceFacts, ThrowFacts DEF DispatchResponse
    <3> QED
      BY <2>1, <3>2 DEF DispatchResponse, PoolTyped, PoolTasks
  <2>2. CASE DispatchUnknown(r)
    <3>1. batch[r] # <<>> /\ MethodNotFound(Message(r)) \in Seq(AnswerType)
      BY <2>2, MessageFacts, RepliesFacts DEF DispatchUnknown, ReadersTyped
    <3>2. ReadersTyped'
      BY <2>2, <3>1, AdvanceFacts DEF DispatchUnknown
    <3> QED
      BY <2>2, <3>2 DEF DispatchUnknown, PoolTyped, PoolTasks
  <2>3. CASE DispatchRequest(r)
    <3>1. IdOf(Message(r)) \in 0 .. MaxMessages
      BY <2>3, MessageFacts DEF DispatchRequest, ReadersTyped
    <3> QED
      BY <2>3, <3>1 DEF DispatchRequest, ReadersTyped, PoolTyped, PoolTasks
  <2>4. CASE CallFails(r)
    <3>1. batch[r] # <<>> /\ Message(r) \in MessageType
      BY <2>4, MessageFacts DEF CallFails, ReadersTyped
    <3>2. PICK cause \in Errors : Advance(r, ErrorAnswer(Message(r), cause))
      BY <2>4 DEF CallFails
    <3>3. ErrorAnswer(Message(r), cause) \in Seq(AnswerType)
      BY <3>1, RepliesFacts DEF Outcomes, Errors
    <3>4. ReadersTyped'
      BY <3>1, <3>2, <3>3, AdvanceFacts
    <3> QED
      BY <2>4, <3>4 DEF CallFails, ClearContext, PoolTyped, PoolTasks
  <2>5. CASE CallThrowsUnknown(r)
    <3>1. ReadersTyped' /\ abandoned' \subseteq Serials
      BY <2>5, ThrowFacts DEF CallThrowsUnknown
    <3>2. context' = [context EXCEPT ![r] = <<>>]
          /\ UNCHANGED <<table, captured, poolVars, destroyed, outbox, received, origin,
                         boundVars>>
      BY <2>5, Zenon DEF CallThrowsUnknown, ClearContext
    <3>3. PoolTyped'
      BY <3>2, PoolUnchanged
    <3> QED
      BY <3>1, <3>2, <3>3
  <2>6. CASE CallReturns(r)
    <3>1. pc[r] = "call"
      BY <2>6 DEF CallReturns
    <3>2. PICK h \in Called(Message(r).method) :
            LET replies == ValueAnswer(h.style, context[r][1])
            IN  /\ Advance(r, replies)
                /\ abandoned' = IF replies = <<>>
                                THEN abandoned \union RequestsIn(<<Message(r)>>)
                                ELSE abandoned
      BY <2>6 DEF CallReturns
    <3>3. "value" \in Outcomes \ {"unknown"}
      BY DEF Outcomes
    <3>4. ValueAnswer(h.style, context[r][1]) \in Seq(AnswerType)
      BY <3>1, <3>3, CallFacts, ValueFacts
    <3>5. ReadersTyped' /\ abandoned' \subseteq Serials
      BY <3>1, <3>2, <3>4, CallFacts, AdvanceFacts
    <3> QED
      BY <2>6, <3>5 DEF CallReturns, ClearContext, PoolTyped, PoolTasks
  <2>7. CASE CallDefers(r)
    <3>1. pc[r] = "call"
      BY <2>7 DEF CallDefers
    <3> DEFINE n == Message(r).serial
    <3>2. PICK h \in Called(Message(r).method) :
            /\ captured' = [captured EXCEPT ![n] = <<[style |-> h.style, id |-> context[r][1]]>>]
            /\ abandoned' = IF Answers(h.style, context[r][1]) THEN abandoned
                            ELSE abandoned \union RequestsIn(<<Message(r)>>)
            /\ Advance(r, <<>>)
      BY <2>7 DEF CallDefers, CapturedId, DeferredReplies
    <3>3. ReadersTyped' /\ abandoned' \subseteq Serials
      BY <3>1, <3>2, CallFacts, AdvanceFacts, EmptySeq
    <3>4. [style |-> h.style, id |-> context[r][1]] \in CapturedType /\ n \in Serials
      BY <3>1, <3>2, CallFacts DEF CapturedType, Handlers
    <3>5. /\ captured' \in [Serials -> {<<>>} \union {<<c>> : c \in CapturedType}]
          /\ captured'[n] # <<>> /\ \A k \in Serials : k # n => captured'[k] = captured[k]
      BY <3>2, <3>4 DEF PoolTyped
    <3>6. Pool!Accept(n)
      BY <2>7 DEF CallDefers
    <3>7. PoolTasks' = PoolTasks \union {n} /\ poolQueue' \in Seq(Serials)
      BY <3>4, <3>6, PoolFacts
    <3>8. PoolTasks \subseteq Serials
      BY ElementOfSeq, LenProperties DEF PoolTasks, PoolTyped
    <3>9. \A k \in PoolTasks' : captured'[k] # <<>>
      BY <3>5, <3>7, <3>8 DEF PoolTyped
    <3>10. UNCHANGED <<poolRunning, poolOutcome, poolDraining>>
      BY <3>6 DEF Pool!Accept
    <3>11. PoolTyped'
      BY <3>5, <3>7, <3>9, <3>10 DEF PoolTyped
    <3> HIDE DEF n
    <3> QED
      BY <2>7, <3>3, <3>11 DEF CallDefers, ClearContext
  <2>8. CASE Write(r)
    <3>1. outbox' \in Seq([answer : AnswerType, write : Nat])
      BY <2>8, WrittenFacts DEF Write, ReadersTyped
    <3>2. ReadersTyped'
      BY <2>8 DEF Write, ReadersTyped
    <3> QED
      BY <2>8, <3>1, <3>2 DEF Write, PoolTyped, PoolTasks
  <2>9. CASE WriteThrows(r)
    <3>1. failures' \in 0 .. MaxWriteFailures
      BY <2>9, BoundsAssumption DEF WriteThrows
    <3>2. ReadersTyped' /\ abandoned' \subseteq Serials
      BY <2>9, ThrowFacts DEF WriteThrows
    <3>3. UNCHANGED <<table, context, captured, poolVars, destroyed, outbox, received,
                      origin, changes>>
      BY <2>9, Zenon DEF WriteThrows
    <3>4. PoolTyped'
      BY <3>3, PoolUnchanged
    <3> QED
      BY <3>1, <3>2, <3>3, <3>4
  <2> QED
    BY <1>3, <2>1, <2>2, <2>3, <2>4, <2>5, <2>6, <2>7, <2>8, <2>9 DEF ReaderStep
<1>4. ASSUME TaskStarts PROVE TypeOK'
  <2>1. PoolTasks' = PoolTasks /\ poolQueue' \in Seq(Serials) /\ poolRunning' \subseteq Serials
    BY <1>4, PoolFacts DEF TaskStarts, TypeOK
  <2> QED
    BY <1>4, <2>1 DEF TaskStarts, Pool!Start, TypeOK, ReadersTyped, PoolTyped
<1>5. ASSUME NEW n \in Serials, TaskEnds(n) PROVE TypeOK'
  <2> USE DEF TypeOK
  <2>1. Pool!Finish(n) /\ UNCHANGED <<table, readerVars, context, captured, destroyed, received,
                                     origin, changes>>
    BY <1>5 DEF TaskEnds, TaskAnswers, TaskEndsSilently, TaskThrows
  <2>2. PoolTyped'
    BY <2>1, PoolFacts DEF PoolTyped, Pool!Finish
  <2>3. n \in PoolTasks /\ captured[n] # <<>>
    BY <2>1, PoolFacts DEF PoolTyped
  <2>4. PICK c \in CapturedType : captured[n] = <<c>>
    BY <2>3 DEF PoolTyped
  <2>5. captured[n][1] \in CapturedType /\ captured[n][1].id \in 0 .. MaxMessages
    BY <2>4 DEF CapturedType
  <2>6. /\ outbox' \in Seq([answer : AnswerType, write : Nat])
        /\ abandoned' \subseteq Serials /\ failures' \in 0 .. MaxWriteFailures
    <3>1. CASE TaskAnswers(n)
      <4>1. PICK cause \in Outcomes \ {"unknown"} :
              Written(<<[id |-> captured[n][1].id, cause |-> cause, code |-> AsyncCode(cause)]>>)
        BY <3>1 DEF TaskAnswers
      <4>2. <<[id |-> captured[n][1].id, cause |-> cause, code |-> AsyncCode(cause)]>>
                \in Seq(AnswerType)
        BY <2>5, ValueFacts
      <4> QED
        BY <3>1, <4>1, <4>2, WrittenFacts DEF TaskAnswers
    <3>2. CASE TaskEndsSilently(n)
      BY <3>2 DEF TaskEndsSilently
    <3>3. CASE TaskThrows(n)
      <4>1. {captured[n][1].id} \ {NullId} \subseteq Serials
        BY <2>5, BoundsAssumption DEF Serials, NullId
      <4>2. abandoned' \subseteq Serials /\ outbox' = outbox
        BY <3>3, <4>1 DEF TaskThrows
      <4>3. failures' \in 0 .. MaxWriteFailures
        BY <3>3, BoundsAssumption DEF TaskThrows
      <4> QED
        BY <4>2, <4>3
    <3> QED
      BY <1>5, <3>1, <3>2, <3>3 DEF TaskEnds
  <2> QED
    BY <2>1, <2>2, <2>6 DEF ReadersTyped
<1>6. ASSUME Destroy PROVE TypeOK'
  BY <1>6 DEF Destroy, Pool!BeginDrain, TypeOK, ReadersTyped, PoolTyped, PoolTasks
<1>7. ASSUME PoolDrained PROVE TypeOK'
  <2>1. /\ UNCHANGED <<poolQueue, poolRunning, poolOutcome>> /\ poolDraining' = FALSE
        /\ destroyed' = TRUE
        /\ UNCHANGED <<table, readerVars, captured, outbox, received, origin, abandoned,
                       boundVars>>
    BY <1>7, Zenon DEF PoolDrained, Pool!EndDrain
  <2>2. ReadersTyped'
    BY <2>1 DEF TypeOK, ReadersTyped
  <2>3. PoolTyped'
    BY <2>1 DEF TypeOK, PoolTyped, PoolTasks
  <2> QED
    BY <2>1, <2>2, <2>3 DEF TypeOK
<1>8. ASSUME UNCHANGED vars PROVE TypeOK'
  BY <1>8 DEF vars, TypeOK, ReadersTyped, PoolTyped, PoolTasks
<1> QED
  BY <1>1, <1>2, <1>3, <1>4, <1>5, <1>6, <1>7, <1>8, OfferedAssumption
     DEF Next, addHandler, remove

-----------------------------------------------------------------------------
(* The steps of a reader, by what they do with the messages it has in hand *)

\* The current message is done: its answer joins the others, or there is none.
KeepsOn(r) ==
    \E replies \in Seq(AnswerType) :
        /\ batch[r] # <<>> /\ Advance(r, replies) /\ Len(replies) <= 1
        /\ \A i \in DOMAIN replies : replies[i].id \in {NullId} \union RequestsIn(<<Message(r)>>)
        /\ abandoned' = abandoned \union
              (RequestsIn(<<Message(r)>>) \ {replies[i].id : i \in DOMAIN replies})
        /\ UNCHANGED <<captured, poolVars, destroyed, outbox, received, origin>>

\* The current message is left to the pool, which will answer it or need not.
Defers(r) ==
    /\ batch[r] # <<>> /\ Advance(r, <<>>) /\ allowAsync[r] /\ ~poolDraining
    /\ Message(r).kind # "response" /\ Pool!Accept(Message(r).serial)
    /\ \E style \in Styles :
          LET id == IdOf(Message(r))
          IN  /\ captured' = [captured EXCEPT ![Message(r).serial] =
                                 <<[style |-> style, id |-> id]>>]
              /\ abandoned' = IF Answers(style, id) THEN abandoned
                              ELSE abandoned \union RequestsIn(<<Message(r)>>)
    /\ UNCHANGED <<destroyed, outbox, received, origin>>

Throws(r) ==
    /\ pc[r] # "idle" /\ Throw(r)
    /\ UNCHANGED <<captured, poolVars, destroyed, outbox, received, origin>>

\* Every step of a reader is one of these, a dispatch or a write.
LEMMA ReaderCases ==
    ASSUME TypeOK, ContextOnlyInHandler, BatchesAreRuns, NEW r \in Readers, ReaderStep(r)
    PROVE  KeepsOn(r) \/ Defers(r) \/ Throws(r) \/ DispatchRequest(r) \/ Write(r)
<1>1. batch[r] # <<>> => Message(r) \in MessageType
  BY MessageFacts DEF TypeOK
<1>2. batch[r] # <<>> => RequestsIn(<<Message(r)>>) =
        IF Message(r).kind = "request" THEN {Message(r).serial} ELSE {}
  BY <1>1, SingleRequest
<1>3. \A a \in AnswerType : /\ <<a>> \in Seq(AnswerType) /\ Len(<<a>>) = 1
                            /\ DOMAIN <<a>> = {1} /\ <<a>>[1] = a
  OBVIOUS
<1>4. <<>> \in Seq(AnswerType) /\ Len(<<>>) = 0 /\ DOMAIN <<>> = {}
  OBVIOUS
<1>5. ASSUME batch[r] # <<>>, Advance(r, <<>>),
              abandoned' = abandoned \union RequestsIn(<<Message(r)>>),
              UNCHANGED <<captured, poolVars, destroyed, outbox, received, origin>>
       PROVE  KeepsOn(r)
  <2>1. PICK none \in Seq(AnswerType) : none = <<>>
    BY <1>4
  <2>2. Len(none) <= 1 /\ DOMAIN none = {}
    BY <1>4, <2>1
  <2>3. {none[i].id : i \in DOMAIN none} = {}
    BY <2>2
  <2> QED
    BY <1>5, <2>1, <2>2, <2>3 DEF KeepsOn
<1>6. CASE DispatchResponse(r)
  <2>1. batch[r] # <<>> /\ pc[r] # "idle" /\ RequestsIn(<<Message(r)>>) = {}
    BY <1>2, <1>6 DEF DispatchResponse, TypeOK, ReadersTyped
  <2>2. Advance(r, <<>>) /\ UNCHANGED abandoned => KeepsOn(r)
    BY <1>6, <1>5, <2>1 DEF DispatchResponse
  <2> QED
    BY <1>6, <2>1, <2>2 DEF DispatchResponse, Throws
<1>7. ASSUME NEW a \in AnswerType, a.id = Message(r).serial, batch[r] # <<>>,
             Message(r).kind # "response",
             Advance(r, IF isNotification(Message(r)) THEN <<>> ELSE <<a>>),
             UNCHANGED <<abandoned, captured, poolVars, destroyed, outbox, received, origin>>
      PROVE  KeepsOn(r)
  <2>1. CASE isNotification(Message(r))
    BY <1>2, <1>7, <1>5, <2>1 DEF isNotification
  <2>2. CASE ~isNotification(Message(r))
    <3>1. Message(r).kind = "request"
      BY <1>1, <1>7, <2>2 DEF isNotification, MessageType
    <3>2. /\ <<a>> \in Seq(AnswerType) /\ Len(<<a>>) <= 1
          /\ \A i \in DOMAIN <<a>> : <<a>>[i].id \in {NullId} \union RequestsIn(<<Message(r)>>)
          /\ RequestsIn(<<Message(r)>>) \ {<<a>>[i].id : i \in DOMAIN <<a>>} = {}
      BY <1>2, <1>3, <1>7, <3>1
    <3>3. abandoned' = abandoned \union
              (RequestsIn(<<Message(r)>>) \ {<<a>>[i].id : i \in DOMAIN <<a>>})
      BY <1>7, <3>2
    <3> QED
      BY <1>7, <2>2, <3>2, <3>3 DEF KeepsOn
  <2> QED
    BY <2>1, <2>2
<1>8. batch[r] # <<>> => Message(r).serial \in 0 .. MaxMessages
  BY <1>1, BoundsAssumption DEF MessageType, Serials
<1>9. CASE DispatchUnknown(r)
  <2> DEFINE a == [id |-> Message(r).serial, cause |-> "method", code |-> "MethodNotFound"]
  <2>1. batch[r] # <<>>
    BY <1>9 DEF DispatchUnknown, TypeOK, ReadersTyped
  <2>2. a \in AnswerType /\ a.id = Message(r).serial
    BY <1>8, <2>1 DEF AnswerType
  <2>3. /\ Advance(r, IF isNotification(Message(r)) THEN <<>> ELSE <<a>>)
        /\ Message(r).kind # "response"
        /\ UNCHANGED <<abandoned, captured, poolVars, destroyed, outbox, received, origin>>
    BY <1>9 DEF DispatchUnknown, MethodNotFound
  <2> HIDE DEF a
  <2> QED
    BY <1>7, <2>1, <2>2, <2>3
<1>10. pc[r] = "call" => batch[r] # <<>> /\ Message(r).kind # "response"
  BY DEF BatchesAreRuns, TypeOK, ReadersTyped
<1>11. CASE CallFails(r)
  <2>1. PICK cause \in Errors : Advance(r, ErrorAnswer(Message(r), cause))
    BY <1>11 DEF CallFails
  <2> DEFINE a == [id |-> Message(r).serial, cause |-> cause, code |-> SyncCode(cause)]
  <2>2. batch[r] # <<>> /\ Message(r).kind # "response"
    BY <1>10, <1>11 DEF CallFails
  <2>3. a \in AnswerType /\ a.id = Message(r).serial
    BY <1>8, <2>2 DEF AnswerType, SyncCode, Errors, Outcomes
  <2>4. /\ Advance(r, IF isNotification(Message(r)) THEN <<>> ELSE <<a>>)
        /\ UNCHANGED <<abandoned, captured, poolVars, destroyed, outbox, received, origin>>
    BY <1>11, <2>1 DEF CallFails, ErrorAnswer
  <2> HIDE DEF a
  <2> QED
    BY <1>7, <2>2, <2>3, <2>4
<1>12. CASE CallThrowsUnknown(r)
  BY <1>12 DEF CallThrowsUnknown, Throws
<1>13. pc[r] = "call" =>
         /\ context[r][1] = IdOf(Message(r)) /\ IdOf(Message(r)) \in 0 .. MaxMessages
         /\ Message(r).kind \in {"request", "notification"}
         /\ \A h \in Called(Message(r).method) : h \in Handlers
  BY <1>1, <1>10, CallFacts DEF MessageType
<1>14. CASE CallReturns(r)
  <2>1. PICK h \in Called(Message(r).method) :
          LET replies == ValueAnswer(h.style, context[r][1])
          IN  /\ Advance(r, replies)
              /\ abandoned' = IF replies = <<>>
                              THEN abandoned \union RequestsIn(<<Message(r)>>)
                              ELSE abandoned
    BY <1>14 DEF CallReturns
  <2> DEFINE id == IdOf(Message(r))
             a == [id |-> id, cause |-> "value", code |-> SyncCode("value")]
  <2>2. pc[r] = "call" /\ batch[r] # <<>>
        /\ UNCHANGED <<captured, poolVars, destroyed, outbox, received, origin>>
    BY <1>10, <1>14 DEF CallReturns
  <2>3. context[r][1] = id /\ a \in AnswerType /\ a.id = id
    BY <1>13, <2>2 DEF AnswerType, SyncCode, Outcomes, Errors
  <2>4. id \in {NullId} \union RequestsIn(<<Message(r)>>)
        /\ (RequestsIn(<<Message(r)>>) \subseteq {id})
    BY <1>2, <1>13, <2>2 DEF IdOf, isNotification
  <2>5. <<a>> # <<>>
    BY <1>3, <1>4, <2>3
  <2>6. CASE Answers(h.style, id)
    <3>1. Advance(r, <<a>>) /\ abandoned' = abandoned
      BY <2>1, <2>3, <2>5, <2>6 DEF ValueAnswer
    <3>2. /\ <<a>> \in Seq(AnswerType) /\ Len(<<a>>) <= 1
          /\ \A i \in DOMAIN <<a>> : <<a>>[i].id \in {NullId} \union RequestsIn(<<Message(r)>>)
          /\ RequestsIn(<<Message(r)>>) \ {<<a>>[i].id : i \in DOMAIN <<a>>} = {}
      <4> HIDE DEF a, id
      <4> QED
        BY <1>3, <2>3, <2>4
    <3> QED
      BY <2>2, <3>1, <3>2 DEF KeepsOn
  <2>7. CASE ~Answers(h.style, id)
    <3>1. Advance(r, <<>>) /\ abandoned' = abandoned \union RequestsIn(<<Message(r)>>)
      BY <2>1, <2>3, <2>7 DEF ValueAnswer
    <3> QED
      BY <1>5, <2>2, <3>1
  <2> QED
    BY <2>6, <2>7
<1>15. CASE CallDefers(r)
  <2>1. PICK h \in Called(Message(r).method) :
          /\ captured' = [captured EXCEPT ![Message(r).serial] =
                             <<[style |-> h.style, id |-> context[r][1]]>>]
          /\ abandoned' = IF Answers(h.style, context[r][1]) THEN abandoned
                          ELSE abandoned \union RequestsIn(<<Message(r)>>)
          /\ Advance(r, <<>>) /\ allowAsync[r]
    BY <1>15 DEF CallDefers, CapturedId, DeferredReplies, Deferred
  <2>2. pc[r] = "call" /\ batch[r] # <<>> /\ Pool!Accept(Message(r).serial)
        /\ UNCHANGED <<destroyed, outbox, received, origin>>
    BY <1>10, <1>15 DEF CallDefers
  <2>3. h.style \in Styles /\ context[r][1] = IdOf(Message(r)) /\ ~poolDraining
    BY <1>13, <2>1, <2>2 DEF Handlers, Pool!Accept
  <2> QED
    BY <1>10, <2>1, <2>2, <2>3 DEF Defers
<1>16. CASE WriteThrows(r)
  BY <1>16 DEF WriteThrows, Throws
<1> QED
  BY <1>6, <1>9, <1>11, <1>12, <1>14, <1>15, <1>16 DEF ReaderStep

\* What r has in hand, and what it still owes, when the current message is done.
LEMMA AdvanceOwing ==
    ASSUME ReadersTyped, BatchesAreRuns, NEW r \in Readers, batch[r] # <<>>,
           NEW replies \in Seq(AnswerType), Advance(r, replies)
    PROVE  /\ Rest(r) = Rest(r)' \union RequestsIn(<<Message(r)>>)
           /\ Message(r).serial \notin Rest(r)'
           /\ Held(r)' = Held(r) \union ({replies[i].id : i \in DOMAIN replies} \ {NullId})
           /\ \A i \in DOMAIN batch'[r] :
                 i \in DOMAIN batch[r] /\ batch'[r][i] = batch[r][i]
           /\ Message(r).serial \in {batch[r][i].serial : i \in DOMAIN batch[r]}
           /\ RequestsIn(<<Message(r)>>) \subseteq {Message(r).serial}
<1> DEFINE k == index[r]
           n == Len(batch[r])
<1>1. k \in 1 .. n /\ DOMAIN batch[r] = 1 .. n /\ n \in Nat /\ Message(r) \in MessageType
  BY MessageFacts
<1>2. RequestsIn(<<Message(r)>>) =
        IF batch[r][k].kind = "request" THEN {batch[r][k].serial} ELSE {}
  BY <1>1, SingleRequest DEF Message
<1>3. \A i \in k + 1 .. n : batch[r][i].serial # batch[r][k].serial
  <2>1. /\ batch[r][k].serial = batch[r][1].serial + k - 1
        /\ \A i \in k + 1 .. n : batch[r][i].serial = batch[r][1].serial + i - 1
    BY <1>1 DEF BatchesAreRuns
  <2>2. batch[r][1].serial \in Nat
    <3>1. batch[r][1] \in MessageType
      BY <1>1, ElementOfSeq DEF ReadersTyped
    <3> QED
      BY <3>1 DEF MessageType, Serials
  <2> QED
    BY <1>1, <2>1, <2>2
<1>4. Rest(r)' = {batch[r][i].serial : i \in {j \in k + 1 .. n : batch[r][j].kind = "request"}}
  <2>1. \/ batch'[r] = batch[r] /\ index'[r] = k + 1
        \/ k = n /\ batch'[r] = <<>> /\ index'[r] = k
    BY AdvanceFacts
  <2>2. Len(<<>>) = 0
    OBVIOUS
  <2>3. CASE k = n /\ batch'[r] = <<>> /\ index'[r] = k
    BY <1>1, <2>2, <2>3 DEF Rest
  <2> QED
    BY <2>1, <2>3 DEF Rest
<1>5. \A i \in k .. n : i = k \/ i \in k + 1 .. n
  BY <1>1
<1>6. k \in k .. n /\ k + 1 .. n \subseteq k .. n
  BY <1>1
<1>7. Rest(r) = Rest(r)' \union RequestsIn(<<Message(r)>>)
  BY <1>2, <1>4, <1>5, <1>6 DEF Rest
<1>8. Message(r).serial \notin Rest(r)'
  BY <1>3, <1>4 DEF Message
<1>9. Held(r)' = Held(r) \union ({replies[i].id : i \in DOMAIN replies} \ {NullId})
  <2>1. answers'[r] = answers[r] \o replies /\ answers[r] \in Seq(AnswerType)
    BY AdvanceFacts DEF ReadersTyped
  <2> DEFINE a == answers[r]
  <2>2. PICK b : b = a \o replies
    OBVIOUS
  <2>3. \A i \in DOMAIN a : i \in DOMAIN b /\ b[i] = a[i]
    BY <2>1, <2>2, Appended
  <2>4. \A i \in DOMAIN replies : Len(a) + i \in DOMAIN b /\ b[Len(a) + i] = replies[i]
    BY <2>1, <2>2, Appended
  <2>5. \A i \in DOMAIN b : \/ i \in DOMAIN a /\ b[i] = a[i]
                            \/ i - Len(a) \in DOMAIN replies /\ b[i] = replies[i - Len(a)]
    BY <2>1, <2>2, Appended
  <2>6. answers'[r] = b
    BY <2>1, <2>2
  <2>7. {b[i].id : i \in DOMAIN b} =
            {a[i].id : i \in DOMAIN a} \union {replies[i].id : i \in DOMAIN replies}
    <3> HIDE DEF a
    <3>1. ASSUME NEW i \in DOMAIN b
          PROVE  b[i].id \in {a[j].id : j \in DOMAIN a} \union
                                {replies[j].id : j \in DOMAIN replies}
      BY <2>5
    <3>2. ASSUME NEW i \in DOMAIN a PROVE a[i].id \in {b[j].id : j \in DOMAIN b}
      BY <2>3
    <3>3. ASSUME NEW i \in DOMAIN replies PROVE replies[i].id \in {b[j].id : j \in DOMAIN b}
      BY <2>4
    <3> QED
      BY <3>1, <3>2, <3>3
  <2>8. /\ Held(r)' = {b[i].id : i \in DOMAIN b} \ {NullId}
        /\ Held(r) = {a[i].id : i \in DOMAIN a} \ {NullId}
    BY <2>6 DEF Held
  <2> HIDE DEF a
  <2> QED
    BY <2>7, <2>8
<1>10. \A i \in DOMAIN batch'[r] : i \in DOMAIN batch[r] /\ batch'[r][i] = batch[r][i]
  <2>1. DOMAIN <<>> = {}
    OBVIOUS
  <2> QED
    BY <2>1, AdvanceFacts
<1> QED
  BY <1>1, <1>2, <1>7, <1>8, <1>9, <1>10 DEF Message

\* The others have in hand what they had.
LEMMA OthersKeep ==
    ASSUME NEW q \in Readers, batch'[q] = batch[q], index'[q] = index[q], answers'[q] = answers[q]
    PROVE  Rest(q)' = Rest(q) /\ Held(q)' = Held(q) /\ InHand(q)' = InHand(q)
BY DEF Rest, Held, InHand

\* What a reader has in hand was read, and is in no other place.
LEMMA KnownFacts ==
    ASSUME TypeOK, BatchesAreRuns, AnswersInOrder, NEW r \in Readers
    PROVE  /\ InHand(r) \subseteq 1 .. received
           /\ Rest(r) \union Held(r) \subseteq InHand(r)
           /\ Rest(r) \intersect Held(r) = {}
<1> DEFINE n == Len(batch[r])
<1>1. /\ DOMAIN batch[r] = 1 .. n /\ n \in Nat /\ received \in Nat
      /\ \A i \in 1 .. n : batch[r][i] \in MessageType
  BY LenProperties, ElementOfSeq, BoundsAssumption DEF TypeOK, ReadersTyped
<1>2. \A i \in 1 .. n : batch[r][i].serial \in 1 .. received
  BY <1>1 DEF MessageType, Serials, BatchesAreRuns
<1>3. Held(r) \subseteq 1 .. received
  BY DEF Held, AnswersInOrder, Ordered
<1>4. index[r] \in Nat \ {0}
  BY DEF TypeOK, ReadersTyped
<1>5. \A i \in index[r] .. n : i \in 1 .. n
  BY <1>1, <1>4
<1>6. Rest(r) \subseteq {batch[r][i].serial : i \in DOMAIN batch[r]}
  BY <1>1, <1>5 DEF Rest
<1>7. ASSUME NEW x \in Rest(r), x \in Held(r) PROVE FALSE
  <2>1. PICK i \in index[r] .. n : x = batch[r][i].serial
    BY DEF Rest
  <2>2. batch[r] # <<>>
    <3>1. DOMAIN <<>> = {}
      OBVIOUS
    <3> QED
      BY <1>1, <1>5, <2>1, <3>1
  <2>3. index[r] \in 1 .. n
    BY <1>1, <2>2 DEF TypeOK, ReadersTyped
  <2>4. x < Message(r).serial
    BY <1>7, <2>2 DEF Held, AnswersInOrder, Ordered
  <2>5. /\ Message(r).serial = batch[r][1].serial + index[r] - 1
        /\ x = batch[r][1].serial + i - 1
    BY <1>1, <1>5, <2>1, <2>3 DEF Message, BatchesAreRuns
  <2>6. batch[r][1].serial \in Nat
    BY <1>1, <1>2, <2>3
  <2> QED
    BY <2>1, <2>3, <2>4, <2>5, <2>6
<1> QED
  BY <1>1, <1>2, <1>3, <1>6, <1>7 DEF InHand

\* currentRequestId() has a value in the handler, and nowhere else.
LEMMA ContextStep ==
    TypeOK /\ ContextOnlyInHandler /\ BatchesAreRuns /\ [Next]_vars => ContextOnlyInHandler'
<1> SUFFICES ASSUME TypeOK, ContextOnlyInHandler, BatchesAreRuns, [Next]_vars
             PROVE  ContextOnlyInHandler'
  OBVIOUS
<1> DEFINE Fits(q) == context[q] = IF pc[q] = "call" THEN <<IdOf(Message(q))>> ELSE <<>>
           Same(q) == /\ context'[q] = context[q] /\ pc'[q] = pc[q]
                      /\ batch'[q] = batch[q] /\ index'[q] = index[q]
<1>1. \A q \in Readers : Fits(q)
  BY DEF ContextOnlyInHandler
<1>2. ASSUME NEW q \in Readers, Same(q) PROVE Fits(q)'
  BY <1>1, <1>2 DEF Message
<1>3. CASE UNCHANGED <<context, pc, batch, index>>
  BY <1>2, <1>3 DEF ContextOnlyInHandler
<1>4. ASSUME NEW r \in Readers, readMessage(r) PROVE ContextOnlyInHandler'
  <2>1. PICK n \in 1 .. MaxMessages : HasRead(r, n)
    BY <1>4, ReadFacts
  <2>2. context' = context /\ pc[r] = "idle" /\ pc'[r] = "dispatch"
    BY <1>4, <2>1 DEF readMessage, HasRead
  <2>3. Fits(r)'
    BY <1>1, <2>2
  <2>4. \A q \in Readers : q # r => Same(q)
    BY <2>1, <2>2 DEF HasRead
  <2> QED
    BY <1>2, <2>3, <2>4 DEF ContextOnlyInHandler
<1>5. ASSUME NEW r \in Readers, ReaderStep(r) PROVE ContextOnlyInHandler'
  <2>1. /\ \A q \in Readers : q # r =>
              batch'[q] = batch[q] /\ pc'[q] = pc[q] /\ index'[q] = index[q]
        /\ ~DispatchRequest(r) => pc'[r] # "call"
    <3>1. CASE KeepsOn(r) \/ Defers(r)
      <4>1. PICK replies \in Seq(AnswerType) : Advance(r, replies) /\ batch[r] # <<>>
        BY <3>1, EmptySeq DEF KeepsOn, Defers
      <4> QED
        BY <4>1, AdvanceFacts DEF TypeOK
    <3>2. CASE Throws(r)
      BY <3>2, ThrowFacts DEF Throws, TypeOK
    <3>3. CASE DispatchRequest(r) \/ Write(r)
      BY <3>3 DEF DispatchRequest, Write, TypeOK, ReadersTyped
    <3> QED
      BY <1>5, <3>1, <3>2, <3>3, ReaderCases
  <2>2. /\ DispatchRequest(r) => Fits(r)'
        /\ ~DispatchRequest(r) => context'[r] = <<>>
        /\ \A q \in Readers : q # r => context'[q] = context[q]
    <3>1. pc[r] # "call" => context[r] = <<>>
      BY <1>1
    <3>2. context \in [Readers -> {<<>>} \union {<<id>> : id \in 0 .. MaxMessages}]
      BY DEF TypeOK
    <3>3. CASE CallFails(r) \/ CallThrowsUnknown(r) \/ CallReturns(r) \/ CallDefers(r)
      <4>1. context' = [context EXCEPT ![r] = <<>>] /\ pc[r] = "call"
        BY <3>3 DEF CallFails, CallThrowsUnknown, CallReturns, CallDefers, ClearContext
      <4> QED
        BY <3>2, <4>1 DEF DispatchRequest
    <3>4. CASE DispatchResponse(r) \/ DispatchUnknown(r) \/ Write(r) \/ WriteThrows(r)
      <4>1. context' = context /\ pc[r] # "call"
        BY <3>4 DEF DispatchResponse, DispatchUnknown, Write, WriteThrows
      <4>2. ~DispatchRequest(r)
        BY <3>4 DEF DispatchResponse, DispatchUnknown, Write, WriteThrows, DispatchRequest
      <4> QED
        BY <3>1, <4>1, <4>2
    <3>5. CASE DispatchRequest(r)
      <4>1. /\ context' = [context EXCEPT ![r] = <<IdOf(Message(r))>>]
            /\ pc' = [pc EXCEPT ![r] = "call"] /\ UNCHANGED <<batch, index>>
        BY <3>5 DEF DispatchRequest
      <4> QED
        BY <3>2, <3>5, <4>1 DEF Message, TypeOK, ReadersTyped
    <3> QED
      BY <1>5, <3>3, <3>4, <3>5 DEF ReaderStep
  <2>3. Fits(r)'
    BY <2>1, <2>2
  <2>4. \A q \in Readers : q # r => Same(q)
    BY <2>1, <2>2
  <2> QED
    BY <1>2, <2>3, <2>4 DEF ContextOnlyInHandler
<1> QED
  BY <1>3, <1>4, <1>5
     DEF Next, addHandler, remove, Change, TaskStarts, TaskEnds, TaskAnswers, TaskEndsSilently,
         TaskThrows, Destroy, PoolDrained, vars, readerVars

\* A task ends: its answer is written, there is none, or it is given up.
Ends(n) ==
    /\ Pool!Finish(n)
    /\ LET c == captured[n][1]
       IN  \/ /\ Answers(c.style, c.id) /\ UNCHANGED abandoned
              /\ \E a \in AnswerType : a.id = c.id /\ Written(<<a>>)
           \/ ~Answers(c.style, c.id) /\ UNCHANGED <<outbox, abandoned>>
           \/ /\ Answers(c.style, c.id) /\ UNCHANGED outbox
              /\ abandoned' = abandoned \union ({c.id} \ {NullId})
    /\ UNCHANGED <<readerVars, captured, destroyed, received, origin>>

\* Nothing moves: a handler is added or removed, or the step is another module's.
Rests ==
    UNCHANGED <<readerVars, captured, poolVars, destroyed, outbox, received, origin, abandoned>>

\* Every step of the system: a reader's, one of the pool or of the owner, or a rest.
LEMMA StepCases ==
    ASSUME TypeOK, ContextOnlyInHandler, BatchesAreRuns, [Next]_vars
    PROVE  \/ \E r \in Readers, n \in 1 .. MaxMessages : HasRead(r, n)
           \/ \E r \in Readers :
                 KeepsOn(r) \/ Defers(r) \/ Throws(r) \/ DispatchRequest(r) \/ Write(r)
           \/ TaskStarts
           \/ \E n \in PoolTasks : Ends(n)
           \/ Destroy \/ PoolDrained \/ Rests
<1>1. ASSUME NEW r \in Readers, readMessage(r)
      PROVE  \E n \in 1 .. MaxMessages : HasRead(r, n)
  BY <1>1, ReadFacts
<1>2. ASSUME NEW n \in Serials, TaskEnds(n) PROVE n \in PoolTasks /\ Ends(n)
  <2>1. n \in PoolTasks /\ Pool!Finish(n)
        /\ UNCHANGED <<readerVars, captured, destroyed, received, origin>>
    BY <1>2, PoolFacts DEF TypeOK, TaskEnds, TaskAnswers, TaskEndsSilently, TaskThrows
  <2>2. CASE TaskAnswers(n)
    <3>1. PICK cause \in Outcomes \ {"unknown"} :
            Written(<<[id |-> captured[n][1].id, cause |-> cause, code |-> AsyncCode(cause)]>>)
      BY <2>2 DEF TaskAnswers
    <3>2. PICK c \in CapturedType : captured[n] = <<c>>
      <4>1. captured[n] # <<>> /\ n \in Serials
        BY <2>1 DEF TypeOK, PoolTyped
      <4> QED
        BY <4>1 DEF TypeOK, PoolTyped
    <3>3. captured[n][1].id \in 0 .. MaxMessages
      BY <3>2 DEF CapturedType
    <3> DEFINE a == [id |-> captured[n][1].id, cause |-> cause, code |-> AsyncCode(cause)]
    <3>4. a \in AnswerType /\ a.id = captured[n][1].id
      BY <3>3 DEF AnswerType, AsyncCode, Outcomes, Errors
    <3>5. Written(<<a>>) /\ Answers(captured[n][1].style, captured[n][1].id)
          /\ UNCHANGED abandoned
      BY <2>2, <3>1 DEF TaskAnswers
    <3> HIDE DEF a
    <3> QED
      BY <2>1, <3>4, <3>5 DEF Ends
  <2>3. CASE TaskEndsSilently(n)
    BY <2>1, <2>3 DEF TaskEndsSilently, Ends
  <2>4. CASE TaskThrows(n)
    BY <2>1, <2>4 DEF TaskThrows, Ends
  <2> QED
    BY <1>2, <2>2, <2>3, <2>4 DEF TaskEnds
<1>3. ASSUME NEW m \in Methods, addHandler(m) \/ remove(m) PROVE Rests
  BY <1>3 DEF addHandler, remove, Change, Rests
<1>4. UNCHANGED vars => Rests
  BY DEF vars, Rests
<1> QED
  BY <1>1, <1>2, <1>3, <1>4, ReaderCases DEF Next

\* Only reading brings a reader something, and tells where a message came from.
LEMMA HandStep ==
    ASSUME TypeOK, ContextOnlyInHandler, BatchesAreRuns, [Next]_vars,
           ~\E r \in Readers, n \in 1 .. MaxMessages : HasRead(r, n)
    PROVE  /\ \A q \in Readers : InHand(q)' \subseteq InHand(q)
           /\ received' = received /\ origin' = origin
           /\ \A q \in Readers : batch'[q] # <<>> =>
                 batch'[q] = batch[q] /\ allowAsync'[q] = allowAsync[q]
<1> USE DEF TypeOK
<1>1. ASSUME NEW r \in Readers,
             KeepsOn(r) \/ Defers(r) \/ Throws(r) \/ DispatchRequest(r) \/ Write(r)
      PROVE  /\ \A q \in Readers : q # r => /\ batch'[q] = batch[q] /\ index'[q] = index[q]
                                            /\ answers'[q] = answers[q]
             /\ InHand(r)' \subseteq InHand(r)
             /\ batch'[r] \in {<<>>, batch[r]} /\ allowAsync' = allowAsync
             /\ received' = received /\ origin' = origin
  <2>1. CASE KeepsOn(r) \/ Defers(r)
    <3>1. PICK replies \in Seq(AnswerType) :
            /\ Advance(r, replies) /\ batch[r] # <<>>
            /\ \A i \in DOMAIN replies :
                  replies[i].id \in {NullId} \union RequestsIn(<<Message(r)>>)
      <4>1. DOMAIN <<>> = {} /\ <<>> \in Seq(AnswerType)
        OBVIOUS
      <4> QED
        BY <2>1, <4>1 DEF KeepsOn, Defers
    <3>2. /\ Held(r)' = Held(r) \union ({replies[i].id : i \in DOMAIN replies} \ {NullId})
          /\ \A i \in DOMAIN batch'[r] : i \in DOMAIN batch[r] /\ batch'[r][i] = batch[r][i]
          /\ RequestsIn(<<Message(r)>>) \subseteq {batch[r][i].serial : i \in DOMAIN batch[r]}
      BY <3>1, AdvanceOwing
    <3>3. Held(r)' \subseteq Held(r) \union RequestsIn(<<Message(r)>>)
      BY <3>1, <3>2
    <3>4. InHand(r)' \subseteq InHand(r)
      BY <3>2, <3>3 DEF InHand
    <3>5. received' = received /\ origin' = origin
      BY <2>1 DEF KeepsOn, Defers
    <3> QED
      BY <3>1, <3>4, <3>5, AdvanceFacts
  <2>2. CASE Throws(r)
    <3>1. /\ batch'[r] = <<>> /\ answers'[r] = <<>> /\ allowAsync' = allowAsync
          /\ \A q \in Readers : q # r => /\ batch'[q] = batch[q] /\ index'[q] = index[q]
                                         /\ answers'[q] = answers[q]
      BY <2>2, ThrowFacts DEF Throws
    <3>2. DOMAIN <<>> = {}
      OBVIOUS
    <3> QED
      BY <2>2, <3>1, <3>2 DEF Throws, InHand, Held
  <2>3. CASE DispatchRequest(r)
    BY <2>3 DEF DispatchRequest, InHand, Held
  <2>4. CASE Write(r)
    <3>1. /\ batch' = batch /\ index' = index /\ allowAsync' = allowAsync
          /\ answers' = [answers EXCEPT ![r] = <<>>]
          /\ received' = received /\ origin' = origin
      BY <2>4 DEF Write
    <3>2. answers'[r] = <<>> /\ \A q \in Readers : q # r => answers'[q] = answers[q]
      BY <3>1 DEF ReadersTyped
    <3>3. DOMAIN <<>> = {}
      OBVIOUS
    <3>4. InHand(r)' \subseteq InHand(r)
      BY <3>1, <3>2, <3>3 DEF InHand, Held
    <3> QED
      BY <3>1, <3>2, <3>4
  <2> QED
    BY <1>1, <2>1, <2>2, <2>3, <2>4
<1>2. CASE UNCHANGED <<batch, index, answers, allowAsync, received, origin>>
  BY <1>2 DEF InHand, Held
<1>3. ASSUME NEW r \in Readers,
             KeepsOn(r) \/ Defers(r) \/ Throws(r) \/ DispatchRequest(r) \/ Write(r)
      PROVE  /\ \A q \in Readers : InHand(q)' \subseteq InHand(q)
             /\ received' = received /\ origin' = origin
             /\ \A q \in Readers : batch'[q] # <<>> =>
                   batch'[q] = batch[q] /\ allowAsync'[q] = allowAsync[q]
  <2>1. /\ \A q \in Readers : q # r => /\ batch'[q] = batch[q] /\ index'[q] = index[q]
                                       /\ answers'[q] = answers[q]
        /\ InHand(r)' \subseteq InHand(r)
        /\ batch'[r] \in {<<>>, batch[r]} /\ allowAsync' = allowAsync
        /\ received' = received /\ origin' = origin
    BY <1>1, <1>3
  <2>2. \A q \in Readers : q # r => InHand(q)' = InHand(q)
    BY <2>1, OthersKeep
  <2> QED
    BY <2>1, <2>2
<1>4. \/ UNCHANGED <<batch, index, answers, allowAsync, received, origin>>
      \/ \E r \in Readers :
            KeepsOn(r) \/ Defers(r) \/ Throws(r) \/ DispatchRequest(r) \/ Write(r)
  BY StepCases DEF TaskStarts, Ends, Destroy, PoolDrained, Rests, readerVars
<1> QED
  BY <1>2, <1>3, <1>4

\* A reader that has just read has in hand what it read.
LEMMA ReadHand ==
    ASSUME NEW r \in Readers, NEW n \in 1 .. MaxMessages, HasRead(r, n),
           TypeOK, BatchesAreRuns, AnswersInOrder
    PROVE  /\ InHand(r)' = received + 1 .. received + n /\ InHand(r) = {}
           /\ \A q \in Readers : q # r => InHand(q)' = InHand(q)
           /\ \A q \in Readers : answers'[q] = answers[q]
           /\ \A k \in received + 1 .. received + n : origin'[k] = received + 1
           /\ \A k \in 1 .. received : origin'[k] = origin[k]
           /\ received \in Nat /\ n \in Nat \ {0} /\ received' = received + n
<1>1. received \in Nat /\ n \in Nat \ {0} /\ received' = received + n
      /\ received + n <= MaxMessages /\ MaxMessages \in Nat
  BY BoundsAssumption DEF HasRead, TypeOK
<1>2. DOMAIN answers[r] = {} /\ answers' = answers
  <2>1. DOMAIN <<>> = {}
    OBVIOUS
  <2> QED
    BY <2>1 DEF HasRead
<1>3. Held(r) = {} /\ Held(r)' = {}
  BY <1>2 DEF Held
<1>4. {batch'[r][i].serial : i \in DOMAIN batch'[r]} = received + 1 .. received + n
  <2>1. DOMAIN batch'[r] = 1 .. n /\ \A i \in 1 .. n : batch'[r][i].serial = received + i
    BY DEF HasRead
  <2>2. \A k \in received + 1 .. received + n :
            k - received \in 1 .. n /\ k = received + (k - received)
    BY <1>1
  <2>3. \A i \in 1 .. n : received + i \in received + 1 .. received + n
    BY <1>1
  <2>4. \A k \in received + 1 .. received + n :
            k \in {batch'[r][i].serial : i \in DOMAIN batch'[r]}
    BY <2>1, <2>2
  <2>5. \A i \in DOMAIN batch'[r] : batch'[r][i].serial \in received + 1 .. received + n
    BY <2>1, <2>3
  <2> QED
    BY <2>4, <2>5
<1>5. {batch[r][i].serial : i \in DOMAIN batch[r]} = {}
  <2>1. DOMAIN <<>> = {}
    OBVIOUS
  <2>2. batch[r] = <<>>
    BY DEF HasRead, TypeOK, ReadersTyped
  <2> QED
    BY <2>1, <2>2
<1>6. \A q \in Readers : q # r => InHand(q)' = InHand(q)
  BY <1>2, OthersKeep DEF HasRead
<1>7. /\ \A k \in received + 1 .. received + n : origin'[k] = received + 1
      /\ \A k \in 1 .. received : origin'[k] = origin[k]
  BY <1>1 DEF HasRead, Serials
<1> QED
  BY <1>1, <1>2, <1>3, <1>4, <1>5, <1>6, <1>7 DEF InHand

\* A message that came alone stays alone, and one that is read alone is.
LEMMA ReadAlone ==
    ASSUME NEW r \in Readers, NEW n \in 1 .. MaxMessages, HasRead(r, n),
           TypeOK, BatchesAreRuns, AnswersInOrder, Separate
    PROVE  /\ \A x \in 1 .. received : Alone(x) => Alone(x)'
           /\ \A x : n = 1 /\ x = received + 1 => Alone(x)'
<1>1. /\ \A k \in received + 1 .. received + n : origin'[k] = received + 1
      /\ \A k \in 1 .. received : origin'[k] = origin[k]
      /\ received \in Nat /\ n \in Nat \ {0} /\ received' = received + n
  BY ReadHand
<1>2. \A k \in 1 .. received : origin[k] \in 1 .. k
  BY DEF Separate
<1>3. \A k \in 1 .. received' : k \in 1 .. received \/ k \in received + 1 .. received + n
  BY <1>1
<1>4. ASSUME NEW x \in 1 .. received, Alone(x) PROVE Alone(x)'
  <2>1. \A k \in 1 .. received : origin[k] = origin[x] => k = x
    BY <1>4 DEF Alone
  <2>2. origin[x] <= received /\ received + 1 # origin[x]
    BY <1>1, <1>2
  <2>3. \A k \in 1 .. received' : origin'[k] = origin'[x] => k = x
    BY <1>1, <1>3, <2>1, <2>2
  <2> QED
    BY <2>3 DEF Alone
<1>5. ASSUME n = 1, NEW x, x = received + 1 PROVE Alone(x)'
  <2>1. \A k \in 1 .. received : origin'[k] # received + 1
    BY <1>1, <1>2
  <2>2. received + 1 .. received + n = {x}
    BY <1>1, <1>5
  <2>3. origin'[x] = received + 1
    BY <1>1, <2>2
  <2>4. \A k \in 1 .. received' : origin'[k] = origin'[x] => k = x
    BY <1>3, <2>1, <2>2, <2>3
  <2> QED
    BY <2>4 DEF Alone
<1> QED
  BY <1>4, <1>5

\* What a reader works on remains a run of messages of one batch.
LEMMA BatchesStep ==
    TypeOK /\ ContextOnlyInHandler /\ BatchesAreRuns /\ AnswersInOrder /\ Separate /\ [Next]_vars
        => BatchesAreRuns'
<1> SUFFICES ASSUME TypeOK, ContextOnlyInHandler, BatchesAreRuns, AnswersInOrder, Separate,
                    [Next]_vars
             PROVE  BatchesAreRuns'
  OBVIOUS
<1> DEFINE Run(q) ==
               /\ \A i \in DOMAIN batch[q] :
                     /\ batch[q][i].serial = batch[q][1].serial + i - 1
                     /\ batch[q][i].serial <= received
                     /\ origin[batch[q][i].serial] = batch[q][1].serial
               /\ batch[q] # <<>> /\ allowAsync[q] =>
                     Len(batch[q]) = 1 /\ Alone(batch[q][1].serial)
           Takes(q) == pc[q] = "call" => Message(q).kind # "response"
<1>1. \A q \in Readers : Run(q) /\ Takes(q)
  BY DEF BatchesAreRuns
<1>2. DOMAIN <<>> = {}
  OBVIOUS
<1>3. ASSUME NEW r \in Readers, NEW n \in 1 .. MaxMessages, HasRead(r, n)
      PROVE  BatchesAreRuns'
  <2>1. /\ \A k \in received + 1 .. received + n : origin'[k] = received + 1
        /\ \A k \in 1 .. received : origin'[k] = origin[k]
        /\ received \in Nat /\ n \in Nat \ {0} /\ received' = received + n
    BY <1>3, ReadHand
  <2>2. DOMAIN batch'[r] = 1 .. n /\ Len(batch'[r]) = n
        /\ \A i \in 1 .. n : batch'[r][i].serial = received + i
    BY <1>3 DEF HasRead
  <2>3. 1 \in 1 .. n /\ \A i \in 1 .. n : received + i \in received + 1 .. received + n
    BY <2>1
  <2>4. /\ \A i \in DOMAIN batch'[r] :
              /\ batch'[r][i].serial = batch'[r][1].serial + i - 1
              /\ batch'[r][i].serial <= received'
              /\ origin'[batch'[r][i].serial] = batch'[r][1].serial
        /\ batch'[r][1].serial = received + 1
    <3>1. batch'[r][1].serial = received + 1
      BY <2>2, <2>3
    <3>2. ASSUME NEW i \in DOMAIN batch'[r]
          PROVE  /\ batch'[r][i].serial = received + 1 + i - 1
                 /\ batch'[r][i].serial <= received'
                 /\ origin'[batch'[r][i].serial] = received + 1
      <4>1. i \in 1 .. n /\ batch'[r][i].serial = received + i
            /\ received + i \in received + 1 .. received + n
        BY <2>2, <2>3
      <4> QED
        BY <2>1, <4>1
    <3> QED
      BY <3>1, <3>2
  <2>5. allowAsync'[r] => Len(batch'[r]) = 1 /\ Alone(batch[r][1].serial)'
    <3>1. PICK x : x = batch'[r][1].serial
      OBVIOUS
    <3>2. allowAsync'[r] => n = 1 /\ Alone(x)'
      BY <1>3, <2>4, <3>1, ReadAlone DEF HasRead
    <3> QED
      BY <2>2, <3>1, <3>2 DEF Alone
  <2>6. Run(r)' /\ Takes(r)'
    BY <1>3, <2>4, <2>5 DEF HasRead
  <2>7. ASSUME NEW q \in Readers, q # r PROVE Run(q)' /\ Takes(q)'
    <3>1. /\ batch'[q] = batch[q] /\ pc'[q] = pc[q] /\ index'[q] = index[q]
          /\ allowAsync'[q] = allowAsync[q]
      BY <1>3, <2>7 DEF HasRead
    <3>2. \A i \in DOMAIN batch[q] : batch[q][i].serial \in 1 .. received
      BY KnownFacts DEF InHand
    <3>3. \A i \in DOMAIN batch[q] : origin'[batch[q][i].serial] = origin[batch[q][i].serial]
                                     /\ batch[q][i].serial <= received'
      BY <2>1, <3>2
    <3>4. batch[q] # <<>> /\ allowAsync[q] => Alone(batch[q][1].serial)'
      <4>1. PICK x : x = batch[q][1].serial
        OBVIOUS
      <4>2. batch[q] # <<>> => x \in 1 .. received
        <5>1. batch[q] # <<>> => 1 \in DOMAIN batch[q]
          BY LenProperties, EmptySeq DEF TypeOK, ReadersTyped
        <5> QED
          BY <3>2, <4>1, <5>1
      <4>3. batch[q] # <<>> /\ allowAsync[q] => Alone(x)
        BY <1>1, <4>1
      <4>4. batch[q] # <<>> /\ allowAsync[q] => Alone(x)'
        BY <1>3, <4>2, <4>3, ReadAlone
      <4> QED
        BY <3>1, <4>1, <4>4 DEF Alone
    <3>5. Run(q)'
      BY <1>1, <3>1, <3>3, <3>4
    <3> QED
      BY <1>1, <3>1, <3>5 DEF Message
  <2> QED
    BY <2>6, <2>7 DEF BatchesAreRuns
<1>4. ASSUME ~\E r \in Readers, n \in 1 .. MaxMessages : HasRead(r, n)
      PROVE  BatchesAreRuns'
  <2>1. /\ received' = received /\ origin' = origin
        /\ \A q \in Readers : batch'[q] # <<>> =>
              batch'[q] = batch[q] /\ allowAsync'[q] = allowAsync[q]
    BY <1>4, HandStep
  <2>2. ASSUME NEW q \in Readers PROVE Run(q)'
    BY <1>1, <1>2, <2>1 DEF Alone
  <2>3. ASSUME NEW q \in Readers PROVE Takes(q)'
    <3>1. CASE UNCHANGED <<pc, batch, index>>
      BY <1>1, <3>1 DEF Message
    <3>2. ASSUME NEW r \in Readers, KeepsOn(r) \/ Defers(r) \/ Throws(r) PROVE Takes(q)'
      <4>1. /\ \A p \in Readers : p # r => /\ batch'[p] = batch[p] /\ pc'[p] = pc[p]
                                            /\ index'[p] = index[p]
            /\ pc'[r] # "call"
        <5>1. ASSUME KeepsOn(r) \/ Defers(r)
              PROVE  \E replies \in Seq(AnswerType) : Advance(r, replies) /\ batch[r] # <<>>
          BY <5>1, EmptySeq DEF KeepsOn, Defers
        <5>2. ASSUME NEW replies \in Seq(AnswerType), Advance(r, replies), batch[r] # <<>>
              PROVE  /\ \A p \in Readers : p # r => /\ batch'[p] = batch[p] /\ pc'[p] = pc[p]
                                                     /\ index'[p] = index[p]
                     /\ pc'[r] # "call"
          BY <5>2, AdvanceFacts DEF TypeOK
        <5>3. CASE Throws(r)
          BY <5>3, ThrowFacts DEF Throws, TypeOK
        <5> QED
          BY <3>2, <5>1, <5>2, <5>3
      <4> QED
        BY <1>1, <4>1 DEF Message
    <3>3. ASSUME NEW r \in Readers, DispatchRequest(r) PROVE Takes(q)'
      <4>1. /\ Message(r).kind # "response" /\ UNCHANGED <<batch, index>>
            /\ pc' = [pc EXCEPT ![r] = "call"]
        BY <3>3 DEF DispatchRequest
      <4> QED
        BY <1>1, <4>1 DEF Message, TypeOK, ReadersTyped
    <3>4. ASSUME NEW r \in Readers, Write(r) PROVE Takes(q)'
      <4>1. pc' = [pc EXCEPT ![r] = "idle"] /\ UNCHANGED <<batch, index>>
        BY <3>4 DEF Write
      <4> QED
        BY <1>1, <4>1 DEF Message, TypeOK, ReadersTyped
    <3> QED
      BY <1>4, <3>1, <3>2, <3>3, <3>4, StepCases
         DEF TaskStarts, Ends, Destroy, PoolDrained, Rests, readerVars
  <2> QED
    BY <2>2, <2>3 DEF BatchesAreRuns
<1> QED
  BY <1>3, <1>4

\* The answer to the current message goes behind the answers to those before it.
LEMMA AppendInOrder ==
    ASSUME TypeOK, BatchesAreRuns, AnswersInOrder, NEW r \in Readers, batch[r] # <<>>,
           NEW replies \in Seq(AnswerType), Advance(r, replies), Len(replies) <= 1,
           \A i \in DOMAIN replies : replies[i].id \in {NullId, Message(r).serial},
           received' = received, origin' = origin
    PROVE  Ordered(r)'
<1> DEFINE a == answers[r]
           k == index[r]
           n == Len(batch[r])
           s == Message(r).serial
           f == batch[r][1].serial
<1>1. k \in 1 .. n /\ DOMAIN batch[r] = 1 .. n /\ n \in Nat /\ Message(r) \in MessageType
  BY MessageFacts DEF TypeOK
<1>2. s \in Nat /\ s > 0 /\ s <= received /\ origin[s] = f /\ s = f + k - 1
      /\ \A i \in 1 .. n : batch[r][i].serial = f + i - 1
  BY <1>1 DEF Message, MessageType, Serials, BatchesAreRuns
<1>3. f \in Nat
  <2>1. batch[r][1] \in MessageType
    BY <1>1, ElementOfSeq DEF TypeOK, ReadersTyped
  <2> QED
    BY <2>1 DEF MessageType, Serials
<1>4. s \in 1 .. received /\ received \in Nat
  BY <1>2, BoundsAssumption DEF TypeOK
<1>5. PICK b : b = a \o replies
  OBVIOUS
<1>6. a \in Seq(AnswerType) /\ answers'[r] = b
  BY <1>5, AdvanceFacts DEF TypeOK, ReadersTyped
<1>7. /\ Len(a) \in Nat /\ DOMAIN a = 1 .. Len(a)
      /\ DOMAIN b \subseteq 1 .. Len(a) + 1
      /\ \A i \in DOMAIN b : \/ i \in DOMAIN a /\ b[i] = a[i]
                             \/ i = Len(a) + 1 /\ b[i].id \in {NullId, s}
  <2>1. Len(a) \in Nat /\ DOMAIN a = 1 .. Len(a)
    BY <1>6, LenProperties
  <2>2. DOMAIN replies = 1 .. Len(replies) /\ Len(replies) \in Nat
    BY LenProperties
  <2>3. \A i \in DOMAIN b : \/ i \in DOMAIN a /\ b[i] = a[i]
                            \/ i - Len(a) \in DOMAIN replies /\ b[i] = replies[i - Len(a)]
    BY <1>5, <1>6, Appended
  <2>4. DOMAIN b = 1 .. Len(a) + Len(replies)
    BY <1>5, <1>6, Appended
  <2>5. \A i \in DOMAIN b : i - Len(a) \in DOMAIN replies => i = Len(a) + 1
    BY <2>1, <2>2, <2>4
  <2> HIDE DEF a
  <2> QED
    BY <2>1, <2>2, <2>3, <2>4, <2>5
<1>8. \A i \in DOMAIN a : a[i].id # NullId =>
         /\ a[i].id \in 1 .. received /\ a[i].id < s /\ origin[a[i].id] = f
         /\ \A j \in DOMAIN a : a[j].id # NullId => (i < j => a[i].id < a[j].id)
  BY DEF AnswersInOrder, Ordered
<1>9. \A i \in DOMAIN b : b[i].id # NullId =>
         b[i].id \in 1 .. received /\ b[i].id <= s /\ origin[b[i].id] = f
  <2> HIDE DEF a, s, f
  <2> QED
    BY <1>2, <1>4, <1>7, <1>8
<1>10. \A i, j \in DOMAIN b : b[i].id # NullId /\ b[j].id # NullId /\ i < j => b[i].id < b[j].id
  <2> HIDE DEF a, s, f
  <2>1. ASSUME NEW i \in DOMAIN b, NEW j \in DOMAIN b, b[i].id # NullId, b[j].id # NullId, i < j
        PROVE  b[i].id < b[j].id
    <3>1. i \in DOMAIN a /\ b[i] = a[i]
      BY <1>7, <2>1
    <3>2. CASE j \in DOMAIN a /\ b[j] = a[j]
      BY <1>8, <2>1, <3>1, <3>2
    <3>3. CASE b[j].id = s
      BY <1>8, <2>1, <3>1, <3>3
    <3> QED
      BY <1>7, <2>1, <3>2, <3>3
  <2> QED
    BY <2>1
<1>11. batch'[r] # <<>> => Message(r)'.serial = s + 1 /\ batch'[r][1].serial = f
  <2>1. batch'[r] # <<>> => k < n /\ batch'[r] = batch[r] /\ index'[r] = k + 1
    BY AdvanceFacts DEF TypeOK
  <2>2. k < n => k + 1 \in 1 .. n /\ f + (k + 1) - 1 = s + 1
    BY <1>1, <1>2, <1>3, SMTT(30)
  <2> QED
    BY <1>2, <2>1, <2>2 DEF Message
<1> HIDE DEF a, s, f, k, n
<1>12. \A i \in DOMAIN b : b[i].id # NullId => b[i].id < s + 1
  BY <1>4, <1>9
<1> QED
  BY <1>6, <1>9, <1>10, <1>11, <1>12 DEF Ordered

\* The answers a reader holds remain in the order of their messages.
LEMMA AnswersStep ==
    TypeOK /\ ContextOnlyInHandler /\ BatchesAreRuns /\ AnswersInOrder /\ [Next]_vars
        => AnswersInOrder'
<1> SUFFICES ASSUME TypeOK, ContextOnlyInHandler, BatchesAreRuns, AnswersInOrder, [Next]_vars
             PROVE  AnswersInOrder'
  OBVIOUS
<1>1. \A q \in Readers : Ordered(q)
  BY DEF AnswersInOrder, Ordered
<1>2. ASSUME NEW q \in Readers,
             UNCHANGED <<received, origin>>, batch'[q] = batch[q], index'[q] = index[q],
             answers'[q] = answers[q]
      PROVE  Ordered(q)'
  BY <1>1, <1>2 DEF Ordered, Message
<1>3. DOMAIN <<>> = {}
  OBVIOUS
<1>4. ASSUME NEW q \in Readers, answers'[q] = <<>> PROVE Ordered(q)'
  BY <1>3, <1>4 DEF Ordered
<1>5. ASSUME NEW r \in Readers, NEW n \in 1 .. MaxMessages, HasRead(r, n)
      PROVE  \A q \in Readers : Ordered(q)'
  <2>1. Ordered(r)'
    BY <1>4, <1>5 DEF HasRead
  <2>2. ASSUME NEW q \in Readers, q # r PROVE Ordered(q)'
    <3>1. /\ \A k \in 1 .. received : origin'[k] = origin[k]
          /\ received \in Nat /\ n \in Nat /\ received' = received + n
          /\ answers'[q] = answers[q]
      BY <1>5, ReadHand
    <3>2. batch'[q] = batch[q] /\ index'[q] = index[q]
      BY <1>5, <2>2 DEF HasRead
    <3>3. \A k \in 1 .. received : k \in 1 .. received' /\ origin'[k] = origin[k]
      BY <3>1
    <3>4. Message(q)' = Message(q)
      BY <3>2 DEF Message
    <3>5. \A i \in DOMAIN answers[q] :
             answers[q][i].id # NullId => answers[q][i].id \in 1 .. received
      BY <1>1 DEF Ordered
    <3> QED
      BY <1>1, <3>1, <3>2, <3>3, <3>4, <3>5 DEF Ordered
  <2> QED
    BY <2>1, <2>2
<1>6. ASSUME ~\E r \in Readers, n \in 1 .. MaxMessages : HasRead(r, n), NEW q \in Readers
      PROVE  Ordered(q)'
  <2>1. received' = received /\ origin' = origin
    BY <1>6, HandStep
  <2>2. ASSUME NEW r \in Readers, NEW replies \in Seq(AnswerType), batch[r] # <<>>,
               Advance(r, replies), Len(replies) <= 1,
               \A i \in DOMAIN replies : replies[i].id \in {NullId, Message(r).serial}
        PROVE  Ordered(q)'
    <3>1. q # r => /\ batch'[q] = batch[q] /\ index'[q] = index[q]
                   /\ answers'[q] = answers[q]
      BY <2>2, AdvanceFacts DEF TypeOK
    <3> QED
      BY <1>2, <2>1, <2>2, <3>1, AppendInOrder
  <2>3. ASSUME NEW r \in Readers, KeepsOn(r) PROVE Ordered(q)'
    <3>1. batch[r] # <<>> => RequestsIn(<<Message(r)>>) \subseteq {Message(r).serial}
      BY MessageFacts, SingleRequest DEF TypeOK
    <3> QED
      BY <2>2, <2>3, <3>1 DEF KeepsOn
  <2>4. ASSUME NEW r \in Readers, Defers(r) PROVE Ordered(q)'
    <3>1. <<>> \in Seq(AnswerType) /\ Len(<<>>) <= 1
      OBVIOUS
    <3> QED
      BY <1>3, <2>2, <2>4, <3>1 DEF Defers
  <2>5. ASSUME NEW r \in Readers, Throws(r) PROVE Ordered(q)'
    BY <1>2, <1>4, <2>1, <2>5, ThrowFacts DEF Throws, TypeOK
  <2>6. ASSUME NEW r \in Readers, DispatchRequest(r) PROVE Ordered(q)'
    BY <1>2, <2>1, <2>6 DEF DispatchRequest
  <2>7. ASSUME NEW r \in Readers, Write(r) PROVE Ordered(q)'
    <3>1. answers' = [answers EXCEPT ![r] = <<>>] /\ UNCHANGED <<batch, index>>
      BY <2>7 DEF Write
    <3>2. q = r => answers'[q] = <<>>
      BY <3>1 DEF TypeOK, ReadersTyped
    <3> QED
      BY <1>2, <1>4, <2>1, <3>1, <3>2
  <2>8. CASE UNCHANGED <<batch, index, answers>>
    BY <1>2, <2>1, <2>8
  <2> QED
    BY <1>6, <2>3, <2>4, <2>5, <2>6, <2>7, <2>8, StepCases
       DEF TaskStarts, Ends, Destroy, PoolDrained, Rests, readerVars
<1> QED
  BY <1>5, <1>6 DEF AnswersInOrder, Ordered

\* What r defers came alone: r has nothing left in hand.
LEMMA DeferFacts ==
    ASSUME TypeOK, BatchesAreRuns, AnswersInOrder, Separate, NEW r \in Readers, Defers(r)
    PROVE  /\ Message(r).serial \in Serials /\ Message(r).serial <= received
           /\ Alone(Message(r).serial) /\ Message(r).serial \in InHand(r)
           /\ InHand(r)' = {} /\ batch'[r] = <<>> /\ Held(r) = {} /\ Held(r)' = {}
           /\ pc[r] # "idle" /\ ~poolDraining
           /\ PoolTasks' = PoolTasks \union {Message(r).serial}
           /\ Message(r).serial \notin PoolTasks
           /\ captured'[Message(r).serial][1].id = IdOf(Message(r))
           /\ \A k \in PoolTasks : captured'[k] = captured[k]
<1> DEFINE n == Message(r).serial
<1>1. /\ batch[r] # <<>> /\ Advance(r, <<>>) /\ allowAsync[r] /\ ~poolDraining
      /\ Pool!Accept(n)
  BY DEF Defers
<1>2. index[r] \in 1 .. Len(batch[r]) /\ DOMAIN batch[r] = 1 .. Len(batch[r])
      /\ Message(r) \in MessageType /\ IdOf(Message(r)) \in {NullId, n}
  BY <1>1, MessageFacts DEF TypeOK
<1>3. Len(batch[r]) = 1 /\ Alone(batch[r][1].serial)
  BY <1>1 DEF BatchesAreRuns
<1>4. index[r] = 1 /\ Message(r) = batch[r][1]
  BY <1>2, <1>3 DEF Message
<1>5. n \in Serials /\ n <= received /\ Alone(n) /\ n \in InHand(r) /\ origin[n] = n
  <2>1. 1 \in DOMAIN batch[r]
    BY <1>2, <1>3
  <2> QED
    BY <1>2, <1>3, <1>4, <2>1 DEF InHand, BatchesAreRuns, MessageType
<1>6. <<>> \in Seq(AnswerType) /\ DOMAIN <<>> = {}
  OBVIOUS
<1>7. batch'[r] = <<>>
  <2>1. index[r] < Len(batch[r]) \/ batch'[r] = <<>>
    BY <1>1, <1>6, AdvanceFacts DEF TypeOK
  <2> QED
    BY <1>3, <1>4, <2>1
<1>8. Held(r) = {}
  <2>1. ASSUME NEW x \in Held(r) PROVE FALSE
    <3>1. x \in 1 .. received /\ x < n /\ origin[x] = n
      BY <1>1, <1>4 DEF Held, AnswersInOrder, Ordered
    <3>2. x = n
      BY <1>5, <3>1 DEF Alone
    <3>3. n \in Nat
      BY <1>2 DEF MessageType, Serials
    <3> QED
      BY <3>1, <3>2, <3>3
  <2> QED
    BY <2>1
<1>9. Held(r)' = {}
  <2>1. Held(r)' = Held(r) \union ({<<>>[i].id : i \in DOMAIN <<>>} \ {NullId})
    BY <1>1, <1>6, AdvanceOwing DEF TypeOK
  <2>2. {<<>>[i].id : i \in DOMAIN <<>>} = {}
    BY <1>6
  <2> QED
    BY <1>8, <2>1, <2>2
<1>10. InHand(r)' = {}
  BY <1>6, <1>7, <1>9 DEF InHand
<1>11. PoolTasks' = PoolTasks \union {n} /\ n \notin PoolTasks
  BY <1>1, <1>5, PoolFacts DEF TypeOK
<1>12. PICK style \in Styles :
         captured' = [captured EXCEPT ![n] = <<[style |-> style, id |-> IdOf(Message(r))]>>]
  BY DEF Defers
<1>13. \A k \in PoolTasks : k \in Serials
  BY ElementOfSeq, LenProperties DEF PoolTasks, TypeOK, PoolTyped
<1>14. /\ captured'[n][1].id = IdOf(Message(r))
       /\ \A k \in PoolTasks : captured'[k] = captured[k]
  BY <1>5, <1>11, <1>12, <1>13 DEF TypeOK, PoolTyped
<1>15. pc[r] # "idle"
  BY <1>1 DEF TypeOK, ReadersTyped
<1> QED
  BY <1>1, <1>5, <1>7, <1>8, <1>9, <1>10, <1>11, <1>14, <1>15

\* The pool's tasks belong to messages that came alone, each once.
LEMMA PoolStep ==
    TypeOK /\ ContextOnlyInHandler /\ BatchesAreRuns /\ AnswersInOrder /\ LeftToPool /\ Separate
        /\ [Next]_vars => LeftToPool'
<1> SUFFICES ASSUME TypeOK, ContextOnlyInHandler, BatchesAreRuns, AnswersInOrder, LeftToPool,
                    Separate, [Next]_vars
             PROVE  LeftToPool'
  OBVIOUS
<1> DEFINE Left(n) == n <= received /\ Alone(n) /\ captured[n][1].id \in {n, NullId}
           Once == \A i, j \in DOMAIN poolQueue :
                      /\ poolQueue[i] \notin poolRunning
                      /\ i # j => poolQueue[i] # poolQueue[j]
<1>1. Once /\ \A n \in PoolTasks : Left(n)
  BY DEF LeftToPool
<1>2. PoolTasks \subseteq Serials
  BY ElementOfSeq, LenProperties DEF PoolTasks, TypeOK, PoolTyped
<1>3. ASSUME NEW r \in Readers, NEW n \in 1 .. MaxMessages, HasRead(r, n)
      PROVE  LeftToPool'
  <2>1. received \in Nat /\ n \in Nat /\ received' = received + n
    BY <1>3, ReadHand
  <2>2. PoolTasks' = PoolTasks /\ Once'
    BY <1>1, <1>3 DEF HasRead, PoolTasks, poolVars
  <2>3. ASSUME NEW k \in PoolTasks PROVE Left(k)'
    <3>1. k \in 1 .. received
      BY <1>1, <1>2, BoundsAssumption DEF Serials
    <3>2. Alone(k)' /\ k <= received'
      BY <1>1, <1>3, <2>1, <3>1, ReadAlone
    <3> QED
      BY <1>1, <1>3, <3>2 DEF HasRead
  <2> QED
    BY <2>2, <2>3 DEF LeftToPool
<1>4. ASSUME received' = received, origin' = origin, captured' = captured,
             PoolTasks' \subseteq PoolTasks
      PROVE  \A n \in PoolTasks' : Left(n)'
  BY <1>1, <1>4 DEF Alone
<1>5. ASSUME UNCHANGED <<captured, poolVars, received, origin>> PROVE LeftToPool'
  <2>1. PoolTasks' = PoolTasks /\ Once'
    BY <1>1, <1>5 DEF PoolTasks, poolVars
  <2> QED
    BY <1>4, <1>5, <2>1 DEF LeftToPool
<1>6. ASSUME NEW r \in Readers, Defers(r) PROVE LeftToPool'
  <2>1. PICK n : n = Message(r).serial
    OBVIOUS
  <2>2. /\ n \in Serials /\ n <= received /\ Alone(n)
        /\ PoolTasks' = PoolTasks \union {n} /\ n \notin PoolTasks
        /\ captured'[n][1].id = IdOf(Message(r))
        /\ \A k \in PoolTasks : captured'[k] = captured[k]
    BY <1>6, <2>1, DeferFacts
  <2>3. received' = received /\ origin' = origin /\ poolRunning' = poolRunning
        /\ poolQueue' = Append(poolQueue, n)
    BY <1>6, <2>1 DEF Defers, Pool!Accept
  <2>4. IdOf(Message(r)) \in {NullId, n}
    BY <1>6, <2>1, MessageFacts DEF Defers, TypeOK
  <2>5. \A k \in PoolTasks' : Left(k)'
    BY <1>1, <2>2, <2>3, <2>4 DEF Alone
  <2>6. /\ DOMAIN poolQueue = 1 .. Len(poolQueue) /\ Len(poolQueue) \in Nat
        /\ DOMAIN poolQueue' = 1 .. Len(poolQueue) + 1
        /\ \A i \in DOMAIN poolQueue : poolQueue'[i] = poolQueue[i]
        /\ poolQueue'[Len(poolQueue) + 1] = n
    BY <2>2, <2>3, AppendProperties, LenProperties DEF TypeOK, PoolTyped
  <2>7. \A i \in DOMAIN poolQueue' : i \in DOMAIN poolQueue \/ i = Len(poolQueue) + 1
    BY <2>6
  <2>8. n \notin poolRunning /\ \A i \in DOMAIN poolQueue : poolQueue[i] # n
    BY <2>2 DEF PoolTasks
  <2>9. Once'
    BY <1>1, <2>3, <2>6, <2>7, <2>8
  <2> QED
    BY <2>5, <2>9 DEF LeftToPool
<1>7. ASSUME NEW r \in Readers, KeepsOn(r) \/ Throws(r) \/ DispatchRequest(r) \/ Write(r)
      PROVE  LeftToPool'
  BY <1>5, <1>7 DEF KeepsOn, Throws, DispatchRequest, Write
<1>8. CASE TaskStarts
  <2>1. /\ PoolTasks' = PoolTasks /\ received' = received /\ origin' = origin
        /\ captured' = captured
        /\ poolQueue # <<>> /\ poolQueue' = Tail(poolQueue)
        /\ poolRunning' = poolRunning \union {Head(poolQueue)}
    BY <1>8, PoolFacts DEF TaskStarts, TypeOK, Pool!Start
  <2>2. /\ Len(poolQueue') = Len(poolQueue) - 1 /\ Head(poolQueue) = poolQueue[1]
        /\ \A i \in 1 .. Len(poolQueue') : poolQueue'[i] = poolQueue[i + 1]
        /\ poolQueue' \in Seq(Serials)
    BY <2>1, HeadTailProperties DEF TypeOK, PoolTyped
  <2>3. /\ DOMAIN poolQueue = 1 .. Len(poolQueue) /\ Len(poolQueue) \in Nat
        /\ Len(poolQueue) # 0
        /\ DOMAIN poolQueue' = 1 .. Len(poolQueue) - 1
    BY <2>1, <2>2, LenProperties, EmptySeq DEF TypeOK, PoolTyped
  <2>4. \A i \in DOMAIN poolQueue' : /\ i + 1 \in DOMAIN poolQueue /\ i + 1 # 1
                                     /\ poolQueue'[i] = poolQueue[i + 1] /\ i \in Nat
    BY <2>2, <2>3
  <2>5. 1 \in DOMAIN poolQueue
    BY <2>3
  <2>6. Once'
    BY <1>1, <2>1, <2>2, <2>4, <2>5
  <2> QED
    BY <1>4, <2>1, <2>6 DEF LeftToPool
<1>9. ASSUME NEW n \in PoolTasks, Ends(n) PROVE LeftToPool'
  <2>1. /\ received' = received /\ origin' = origin /\ captured' = captured
        /\ poolQueue' = poolQueue /\ poolRunning' = poolRunning \ {n}
    BY <1>2, <1>9, PoolFacts DEF Ends, TypeOK
  <2>2. PoolTasks' \subseteq PoolTasks /\ Once'
    BY <1>1, <2>1 DEF PoolTasks
  <2> QED
    BY <1>4, <2>1, <2>2 DEF LeftToPool
<1>10. ASSUME Destroy \/ PoolDrained PROVE LeftToPool'
  <2>1. UNCHANGED <<captured, poolQueue, poolRunning, received, origin>>
    BY <1>10 DEF Destroy, PoolDrained, Pool!BeginDrain, Pool!EndDrain
  <2>2. PoolTasks' = PoolTasks /\ Once'
    BY <1>1, <2>1 DEF PoolTasks
  <2> QED
    BY <1>4, <2>1, <2>2 DEF LeftToPool
<1>11. CASE Rests
  BY <1>5, <1>11 DEF Rests
<1> QED
  BY <1>3, <1>6, <1>7, <1>8, <1>9, <1>10, <1>11, StepCases

\* What a write adds to the requests that were answered.
LEMMA SentFacts ==
    ASSUME TypeOK, NEW s \in Seq(AnswerType), Written(s)
    PROVE  Sent' = Sent \union ({s[i].id : i \in DOMAIN s} \ {NullId})
<1>1. /\ \A i \in DOMAIN outbox : i \in DOMAIN outbox' /\ outbox'[i] = outbox[i]
      /\ \A i \in DOMAIN s : /\ Len(outbox) + i \in DOMAIN outbox'
                             /\ outbox'[Len(outbox) + i].answer = s[i]
      /\ \A i \in DOMAIN outbox' : \/ i \in DOMAIN outbox
                                   \/ /\ i - Len(outbox) \in DOMAIN s
                                      /\ outbox'[i].answer = s[i - Len(outbox)]
  <2>1. /\ DOMAIN outbox = 1 .. Len(outbox) /\ DOMAIN s = 1 .. Len(s)
        /\ Len(outbox) \in Nat /\ Len(s) \in Nat
        /\ DOMAIN outbox' = 1 .. Len(outbox) + Len(s)
        /\ \A i \in DOMAIN outbox : outbox'[i] = outbox[i]
        /\ \A i \in DOMAIN s :
              /\ Len(outbox) + i \in DOMAIN outbox'
              /\ outbox'[Len(outbox) + i].answer = s[i]
        /\ \A i \in DOMAIN outbox' : i \in DOMAIN outbox \/ i - Len(outbox) \in DOMAIN s
    BY WrittenFacts DEF TypeOK
  <2>2. ASSUME NEW i \in DOMAIN outbox', i - Len(outbox) \in DOMAIN s
        PROVE  outbox'[i].answer = s[i - Len(outbox)]
    <3>1. PICK j \in DOMAIN s : j = i - Len(outbox)
      BY <2>2
    <3>2. Len(outbox) + j = i
      BY <2>1, <3>1
    <3> QED
      BY <2>1, <3>1, <3>2
  <2>3. \A i \in DOMAIN outbox : i \in DOMAIN outbox' /\ outbox'[i] = outbox[i]
    BY <2>1
  <2>4. \A i \in DOMAIN s : /\ Len(outbox) + i \in DOMAIN outbox'
                            /\ outbox'[Len(outbox) + i].answer = s[i]
    BY <2>1
  <2>5. \A i \in DOMAIN outbox' : i \in DOMAIN outbox \/ i - Len(outbox) \in DOMAIN s
    BY <2>1
  <2> QED
    BY <2>2, <2>3, <2>4, <2>5
<1>2. /\ Sent = {outbox[i].answer.id : i \in DOMAIN outbox} \ {NullId}
      /\ Sent' = {outbox'[i].answer.id : i \in DOMAIN outbox'} \ {NullId}
  BY DEF Sent, SentIds
<1>3. {outbox'[i].answer.id : i \in DOMAIN outbox'} =
        {outbox[i].answer.id : i \in DOMAIN outbox} \union {s[i].id : i \in DOMAIN s}
  <2>1. ASSUME NEW i \in DOMAIN outbox'
        PROVE  outbox'[i].answer.id \in
                 {outbox[j].answer.id : j \in DOMAIN outbox} \union {s[j].id : j \in DOMAIN s}
    BY <1>1
  <2>2. ASSUME NEW i \in DOMAIN outbox
        PROVE  outbox[i].answer.id \in {outbox'[j].answer.id : j \in DOMAIN outbox'}
    BY <1>1
  <2>3. ASSUME NEW i \in DOMAIN s
        PROVE  s[i].id \in {outbox'[j].answer.id : j \in DOMAIN outbox'}
    BY <1>1
  <2> QED
    BY <2>1, <2>2, <2>3
<1> QED
  BY <1>2, <1>3

\* What a reader writes is what it held, and nothing is left in its hand.
LEMMA WriteFacts ==
    ASSUME TypeOK, NEW r \in Readers, Write(r)
    PROVE  /\ Written(answers[r]) /\ answers[r] \in Seq(AnswerType)
           /\ Sent' = Sent \union Held(r) /\ InHand(r)' = {} /\ Rest(r)' = {} /\ Rest(r) = {}
           /\ batch'[r] = <<>> /\ Held(r)' = {}
<1>1. /\ Written(answers[r]) /\ answers[r] \in Seq(AnswerType) /\ batch' = batch
      /\ index' = index /\ answers' = [answers EXCEPT ![r] = <<>>] /\ batch[r] = <<>>
  BY DEF Write, TypeOK, ReadersTyped
<1>2. Sent' = Sent \union Held(r)
  BY <1>1, SentFacts DEF Held
<1>3. answers'[r] = <<>> /\ batch'[r] = <<>>
  BY <1>1 DEF TypeOK, ReadersTyped
<1>4. DOMAIN <<>> = {} /\ Len(<<>>) = 0
  OBVIOUS
<1>5. InHand(r)' = {} /\ Held(r)' = {}
  BY <1>3, <1>4 DEF InHand, Held
<1>6. Rest(r) = {} /\ Rest(r)' = {}
  <2>1. index[r] \in Nat \ {0} /\ index' = index
    BY <1>1 DEF TypeOK, ReadersTyped
  <2>2. index[r] .. 0 = {}
    BY <2>1
  <2> QED
    BY <1>1, <1>3, <1>4, <2>1, <2>2 DEF Rest
<1> QED
  BY <1>1, <1>2, <1>3, <1>5, <1>6

\* What a task sends or gives up is its own message.
LEMMA EndFacts ==
    ASSUME TypeOK, LeftToPool, NEW n \in PoolTasks, Ends(n)
    PROVE  /\ n \in Serials /\ n \in 1 .. received /\ captured[n][1].id \in {n, NullId}
           /\ PoolTasks' = PoolTasks \ {n}
           /\ \/ /\ Answers(captured[n][1].style, captured[n][1].id) /\ abandoned' = abandoned
                 /\ \E a \in AnswerType : a.id = captured[n][1].id /\ Written(<<a>>)
                 /\ Sent' = Sent \union ({captured[n][1].id} \ {NullId})
              \/ /\ ~Answers(captured[n][1].style, captured[n][1].id)
                 /\ outbox' = outbox /\ Sent' = Sent /\ abandoned' = abandoned
              \/ /\ Answers(captured[n][1].style, captured[n][1].id)
                 /\ outbox' = outbox /\ Sent' = Sent
                 /\ abandoned' = abandoned \union ({captured[n][1].id} \ {NullId})
<1>1. n \in Serials
  BY ElementOfSeq, LenProperties DEF PoolTasks, TypeOK, PoolTyped
<1>2. n \in 1 .. received /\ captured[n][1].id \in {n, NullId}
  BY <1>1, BoundsAssumption DEF LeftToPool, Serials, TypeOK
<1>3. PoolTasks' = PoolTasks \ {n}
  BY <1>1, PoolFacts DEF Ends, TypeOK
<1>4. ASSUME NEW a \in AnswerType, Written(<<a>>)
      PROVE  Sent' = Sent \union ({a.id} \ {NullId})
  <2>1. /\ <<a>> \in Seq(AnswerType) /\ DOMAIN <<a>> = {1} /\ <<a>>[1] = a
    OBVIOUS
  <2>2. {<<a>>[i].id : i \in DOMAIN <<a>>} = {a.id}
    BY <2>1
  <2> QED
    BY <1>4, <2>1, <2>2, SentFacts
<1>5. outbox' = outbox => Sent' = Sent
  BY DEF Sent, SentIds
<1> QED
  BY <1>1, <1>2, <1>3, <1>4, <1>5 DEF Ends

\* No step brings messages of one batch to two places.
LEMMA SeparateStep ==
    TypeOK /\ ContextOnlyInHandler /\ BatchesAreRuns /\ AnswersInOrder /\ LeftToPool /\ Separate
        /\ [Next]_vars => Separate'
<1> SUFFICES ASSUME TypeOK, ContextOnlyInHandler, BatchesAreRuns, AnswersInOrder, LeftToPool,
                    Separate, [Next]_vars
             PROVE  Separate'
  OBVIOUS
<1>1. PoolTasks \subseteq Serials /\ PoolTasks \subseteq 1 .. received
  <2>1. PoolTasks \subseteq Serials
    BY ElementOfSeq, LenProperties DEF PoolTasks, TypeOK, PoolTyped
  <2> QED
    BY <2>1, BoundsAssumption DEF LeftToPool, Serials, TypeOK
<1>2. \A q \in Readers : /\ InHand(q) \subseteq 1 .. received
                         /\ Rest(q) \union Held(q) \subseteq InHand(q)
  BY KnownFacts
<1>3. outbox' = outbox => Sent' = Sent
  BY DEF Sent, SentIds
<1>4. poolVars' = poolVars => PoolTasks' = PoolTasks
  BY DEF PoolTasks, poolVars
<1>5. ASSUME NEW r \in Readers, NEW n \in 1 .. MaxMessages, HasRead(r, n)
      PROVE  Separate'
  <2>1. /\ InHand(r)' = received + 1 .. received + n
        /\ \A q \in Readers : q # r => InHand(q)' = InHand(q)
        /\ \A k \in received + 1 .. received + n : origin'[k] = received + 1
        /\ \A k \in 1 .. received : origin'[k] = origin[k]
        /\ received \in Nat /\ n \in Nat \ {0} /\ received' = received + n
    BY <1>5, ReadHand
  <2>2. PoolTasks' = PoolTasks /\ Sent' = Sent /\ abandoned' = abandoned
    BY <1>3, <1>4, <1>5 DEF HasRead
  <2>3. \A k \in 1 .. received : /\ k \in 1 .. received' /\ origin'[k] = origin[k]
                                 /\ origin[k] # received + 1
    BY <2>1 DEF Separate
  <2>4. \A k \in 1 .. received' : k \in 1 .. received \/ k \in received + 1 .. received + n
    BY <2>1
  <2>5. \A k \in 1 .. received' : origin'[k] \in 1 .. k
    BY <2>1, <2>3, <2>4 DEF Separate
  <2>6. ASSUME NEW q \in Readers, NEW p \in Readers, q # p PROVE Apart(InHand(q), InHand(p))'
    <3>1. CASE q # r /\ p # r
      BY <1>2, <2>1, <2>3, <2>6, <3>1 DEF Separate, Apart
    <3>2. CASE q = r
      BY <1>2, <2>1, <2>3, <2>6, <3>2 DEF Apart
    <3>3. CASE p = r
      BY <1>2, <2>1, <2>3, <2>6, <3>3 DEF Apart
    <3> QED
      BY <3>1, <3>2, <3>3
  <2>7. ASSUME NEW q \in Readers PROVE Apart(InHand(q), PoolTasks)' /\ Apart(InHand(q), Sent)'
    <3>1. CASE q # r
      BY <1>1, <1>2, <2>1, <2>2, <2>3, <3>1 DEF Separate, Apart
    <3>2. CASE q = r
      BY <1>1, <2>1, <2>2, <2>3, <3>2 DEF Separate, Apart
    <3> QED
      BY <3>1, <3>2
  <2> QED
    BY <2>2, <2>3, <2>5, <2>6, <2>7 DEF Separate
<1>6. ASSUME ~\E r \in Readers, n \in 1 .. MaxMessages : HasRead(r, n),
             abandoned' \subseteq 1 .. received,
             PoolTasks' \subseteq 1 .. received, Sent' \subseteq 1 .. received,
             PoolTasks' \intersect Sent' = {},
             \/ PoolTasks' \union Sent' \subseteq PoolTasks \union Sent
             \/ \E p \in Readers :
                   /\ InHand(p)' = {}
                   /\ PoolTasks' \union Sent' \subseteq PoolTasks \union Sent \union InHand(p)
      PROVE  Separate'
  <2>1. /\ \A q \in Readers : InHand(q)' \subseteq InHand(q)
        /\ received' = received /\ origin' = origin
    BY <1>6, HandStep
  <2>2. ASSUME NEW q \in Readers, NEW p \in Readers, q # p PROVE Apart(InHand(q), InHand(p))'
    BY <2>1, <2>2 DEF Separate, Apart
  <2>3. ASSUME NEW q \in Readers, NEW x \in InHand(q)', NEW y \in PoolTasks' \union Sent'
        PROVE  origin[x] # origin[y]
    <3>1. x \in InHand(q)
      BY <2>1
    <3>2. CASE y \in PoolTasks \union Sent
      BY <3>1, <3>2 DEF Separate, Apart
    <3>3. CASE \E p \in Readers : InHand(p)' = {} /\ y \in InHand(p)
      <4>1. PICK p \in Readers : InHand(p)' = {} /\ y \in InHand(p)
        BY <3>3
      <4>2. p # q
        BY <2>3, <4>1
      <4> QED
        BY <3>1, <4>1, <4>2 DEF Separate, Apart
    <3> QED
      BY <1>6, <3>2, <3>3
  <2>4. \A q \in Readers : Apart(InHand(q), PoolTasks)' /\ Apart(InHand(q), Sent)'
    BY <2>1, <2>3 DEF Apart
  <2> QED
    BY <1>6, <2>1, <2>2, <2>4 DEF Separate
<1>7. Sent \subseteq 1 .. received /\ abandoned \subseteq 1 .. received
      /\ PoolTasks \intersect Sent = {}
  BY DEF Separate
<1>8. ASSUME NEW r \in Readers, batch[r] # <<>>
      PROVE  RequestsIn(<<Message(r)>>) \subseteq InHand(r)
  <2>1. RequestsIn(<<Message(r)>>) \subseteq {Message(r).serial}
        /\ index[r] \in DOMAIN batch[r]
    BY <1>8, MessageFacts, SingleRequest DEF TypeOK
  <2> QED
    BY <2>1 DEF InHand, Message
<1>9. ASSUME ~\E r \in Readers, n \in 1 .. MaxMessages : HasRead(r, n) PROVE Separate'
  <2>1. ASSUME NEW r \in Readers, KeepsOn(r) PROVE Separate'
    <3>1. Sent' = Sent /\ PoolTasks' = PoolTasks
      BY <1>3, <1>4, <2>1 DEF KeepsOn
    <3>2. abandoned' \subseteq 1 .. received
      BY <1>2, <1>7, <1>8, <2>1 DEF KeepsOn
    <3> QED
      BY <1>1, <1>6, <1>7, <1>9, <3>1, <3>2
  <2>2. ASSUME NEW r \in Readers, Defers(r) PROVE Separate'
    <3>1. PICK n : n = Message(r).serial
      OBVIOUS
    <3>2. n \in InHand(r) /\ InHand(r)' = {} /\ PoolTasks' = PoolTasks \union {n}
      BY <2>2, <3>1, DeferFacts
    <3>3. Sent' = Sent /\ batch[r] # <<>>
      BY <1>3, <2>2 DEF Defers
    <3>4. abandoned' \subseteq abandoned \union RequestsIn(<<Message(r)>>)
      BY <2>2 DEF Defers
    <3>5. abandoned' \subseteq 1 .. received
      BY <1>2, <1>7, <1>8, <3>3, <3>4
    <3>6. n \notin Sent
      BY <3>2 DEF Separate, Apart
    <3>7. PoolTasks' \subseteq 1 .. received
      BY <1>1, <1>2, <3>2
    <3>8. PoolTasks' \intersect Sent' = {}
      BY <1>7, <3>2, <3>3, <3>6
    <3>9. PoolTasks' \union Sent' \subseteq PoolTasks \union Sent \union InHand(r)
      BY <3>2, <3>3
    <3> QED
      BY <1>6, <1>7, <1>9, <3>2, <3>3, <3>5, <3>7, <3>8, <3>9
  <2>3. ASSUME NEW r \in Readers, Throws(r) PROVE Separate'
    <3>1. Sent' = Sent /\ PoolTasks' = PoolTasks
      BY <1>3, <1>4, <2>3 DEF Throws
    <3>2. abandoned' = abandoned \union Rest(r) \union Held(r)
      BY <2>3, ThrowFacts DEF Throws, TypeOK
    <3>3. abandoned' \subseteq 1 .. received
      BY <1>2, <1>7, <3>2
    <3> QED
      BY <1>1, <1>6, <1>7, <1>9, <3>1, <3>3
  <2>4. ASSUME NEW r \in Readers, DispatchRequest(r) PROVE Separate'
    <3>1. Sent' = Sent /\ PoolTasks' = PoolTasks /\ abandoned' = abandoned
      BY <1>3, <1>4, <2>4 DEF DispatchRequest
    <3> QED
      BY <1>1, <1>6, <1>7, <1>9, <3>1
  <2>5. ASSUME NEW r \in Readers, Write(r) PROVE Separate'
    <3>1. Sent' = Sent \union Held(r) /\ InHand(r)' = {}
      BY <2>5, WriteFacts
    <3>2. PoolTasks' = PoolTasks /\ abandoned' = abandoned
      BY <1>4, <2>5 DEF Write
    <3>3. PoolTasks \intersect Held(r) = {}
      BY <1>2 DEF Separate, Apart
    <3>4. PoolTasks' \intersect Sent' = {}
      BY <1>7, <3>1, <3>2, <3>3
    <3>5. Sent' \subseteq 1 .. received /\ PoolTasks' \subseteq 1 .. received
      BY <1>1, <1>2, <1>7, <3>1, <3>2
    <3>6. PoolTasks' \union Sent' \subseteq PoolTasks \union Sent \union InHand(r)
      BY <1>2, <3>1, <3>2
    <3> QED
      BY <1>6, <1>7, <1>9, <3>1, <3>2, <3>4, <3>5, <3>6
  <2>6. ASSUME NEW n \in PoolTasks, Ends(n) PROVE Separate'
    <3>1. /\ n \in 1 .. received /\ PoolTasks' = PoolTasks \ {n}
          /\ Sent' \subseteq Sent \union {n} /\ abandoned' \subseteq abandoned \union {n}
      BY <2>6, EndFacts
    <3> QED
      BY <1>1, <1>6, <1>7, <1>9, <3>1
  <2>7. CASE TaskStarts \/ Destroy \/ PoolDrained \/ Rests
    <3>1. outbox' = outbox /\ abandoned' = abandoned
      BY <2>7 DEF TaskStarts, Destroy, PoolDrained, Rests
    <3>2. TaskStarts => PoolTasks' = PoolTasks
      BY PoolFacts DEF TaskStarts, TypeOK
    <3>3. Destroy \/ PoolDrained \/ Rests => PoolTasks' = PoolTasks
      BY DEF Destroy, PoolDrained, Rests, Pool!BeginDrain, Pool!EndDrain, PoolTasks, poolVars
    <3> QED
      BY <1>1, <1>3, <1>6, <1>7, <1>9, <2>7, <3>1, <3>2, <3>3
  <2> QED
    BY <1>9, <2>1, <2>2, <2>3, <2>4, <2>5, <2>6, <2>7, StepCases
<1> QED
  BY <1>5, <1>9, StepCases

\* The destructor starts when no reader is left, and ends when no task is.
LEMMA ClosingStep ==
    TypeOK /\ ContextOnlyInHandler /\ BatchesAreRuns /\ LeftToPool /\ Closing /\ [Next]_vars
        => Closing'
<1> SUFFICES ASSUME TypeOK, ContextOnlyInHandler, BatchesAreRuns, LeftToPool, Closing, [Next]_vars
             PROVE  Closing'
  OBVIOUS
<1>1. ASSUME NEW r \in Readers, NEW n \in 1 .. MaxMessages, HasRead(r, n) PROVE Closing'
  BY <1>1 DEF HasRead, poolVars, Closing
<1>2. ASSUME NEW r \in Readers,
             KeepsOn(r) \/ Defers(r) \/ Throws(r) \/ DispatchRequest(r) \/ Write(r)
      PROVE  Closing'
  <2>1. pc[r] # "idle"
    BY <1>2 DEF KeepsOn, Defers, Throws, DispatchRequest, Write, TypeOK, ReadersTyped
  <2>2. poolDraining' = poolDraining /\ destroyed' = destroyed
    BY <1>2 DEF KeepsOn, Defers, Throws, DispatchRequest, Write, Pool!Accept, poolVars
  <2> QED
    BY <2>1, <2>2 DEF Closing
<1>3. CASE TaskStarts
  BY <1>3, PoolFacts DEF TaskStarts, Pool!Start, TypeOK, Closing, readerVars
<1>4. ASSUME NEW n \in PoolTasks, Ends(n) PROVE Closing'
  BY <1>4, EndFacts DEF Ends, Pool!Finish, Closing, readerVars
<1>5. CASE Destroy
  BY <1>5 DEF Destroy, Pool!BeginDrain, PoolTasks, Closing, readerVars
<1>6. CASE PoolDrained
  <2>1. DOMAIN <<>> = {}
    OBVIOUS
  <2>2. PoolTasks' = {}
    BY <1>6, <2>1 DEF PoolDrained, Pool!EndDrain, PoolTasks
  <2> QED
    BY <1>6, <2>2 DEF PoolDrained, Pool!EndDrain, Closing, readerVars
<1>7. CASE Rests
  BY <1>7 DEF Rests, PoolTasks, Closing, readerVars, poolVars
<1> QED
  BY <1>1, <1>2, <1>3, <1>4, <1>5, <1>6, <1>7, StepCases

-----------------------------------------------------------------------------
(* What a step does to the requests that are owed an answer *)

\* Every request that is owed an answer was read, and is in one place.
LEMMA OwedFacts ==
    ASSUME TypeOK, BatchesAreRuns, AnswersInOrder, LeftToPool, Separate
    PROVE  /\ Owed \subseteq 1 .. received /\ InPool \subseteq PoolTasks
           /\ PoolTasks \subseteq Serials
           /\ \A r \in Readers :
                 /\ (Rest(r) \union Held(r)) \intersect InPool = {}
                 /\ Rest(r) \union Held(r) \subseteq Owed
                 /\ \A q \in Readers : q # r =>
                       (Rest(r) \union Held(r)) \intersect (Rest(q) \union Held(q)) = {}
<1>1. PoolTasks \subseteq Serials /\ PoolTasks \subseteq 1 .. received
  <2>1. PoolTasks \subseteq Serials
    BY ElementOfSeq, LenProperties DEF PoolTasks, TypeOK, PoolTyped
  <2> QED
    BY <2>1, BoundsAssumption DEF LeftToPool, Serials, TypeOK
<1>2. InPool \subseteq PoolTasks
  BY DEF InPool, LeftToPool
<1>3. \A r \in Readers : /\ InHand(r) \subseteq 1 .. received
                         /\ Rest(r) \union Held(r) \subseteq InHand(r)
  BY KnownFacts
<1>4. \A r \in Readers : Rest(r) \union Held(r) \subseteq Owed
  BY OwedIs DEF Owes
<1>5. Owed \subseteq 1 .. received
  BY <1>1, <1>2, <1>3, OwedIs DEF Owes
<1>6. ASSUME NEW r \in Readers, NEW x \in Rest(r) \union Held(r)
      PROVE  x \notin InPool /\ \A q \in Readers : q # r => x \notin Rest(q) \union Held(q)
  <2>1. x \in InHand(r)
    BY <1>3
  <2>2. x \notin PoolTasks
    BY <2>1 DEF Separate, Apart
  <2>3. \A q \in Readers : q # r => x \notin InHand(q)
    BY <2>1 DEF Separate, Apart
  <2> QED
    BY <1>2, <1>3, <2>2, <2>3
<1> QED
  BY <1>1, <1>2, <1>4, <1>5, <1>6

\* Of what is owed, lost is no longer.
Settles(lost) == lost \subseteq Owed /\ Owed' = Owed \ lost

\* A reader settles some of the requests it has, and no one else's.
LEMMA ReaderSettles ==
    ASSUME TypeOK, TypeOK', BatchesAreRuns, AnswersInOrder, LeftToPool, Separate,
           NEW r \in Readers, NEW lost, lost \subseteq Rest(r) \union Held(r),
           Rest(r)' \union Held(r)' = (Rest(r) \union Held(r)) \ lost, InPool' = InPool,
           \A q \in Readers : q # r => Rest(q)' = Rest(q) /\ Held(q)' = Held(q)
    PROVE  Settles(lost)
<1>1. lost \subseteq Owed
  BY OwedFacts
<1>2. ASSUME NEW x PROVE Owes(x)' <=> Owes(x) /\ x \notin lost
  BY OwedFacts DEF Owes
<1>3. Owed' = Owed \ lost
  BY <1>2, OwedIs, OwedIsNext
<1> QED
  BY <1>1, <1>3 DEF Settles

\* A request that is left to the pool is owed there, or settled if the task is not
\* to answer it.
LEMMA DeferSettles ==
    ASSUME TypeOK, TypeOK', BatchesAreRuns, AnswersInOrder, LeftToPool, Separate,
           NEW r \in Readers, Defers(r)
    PROVE  \E lost : Settles(lost) /\ abandoned' = abandoned \union lost
<1>1. PICK n : n = Message(r).serial
  OBVIOUS
<1>2. /\ n \in Serials /\ batch'[r] = <<>> /\ Held(r) = {} /\ Held(r)' = {}
      /\ PoolTasks' = PoolTasks \union {n} /\ n \notin PoolTasks
      /\ \A k \in PoolTasks : captured'[k] = captured[k]
  BY <1>1, DeferFacts
<1>3. PICK style \in Styles :
        /\ captured' = [captured EXCEPT ![n] = <<[style |-> style, id |-> IdOf(Message(r))]>>]
        /\ abandoned' = IF Answers(style, IdOf(Message(r))) THEN abandoned
                        ELSE abandoned \union RequestsIn(<<Message(r)>>)
  BY <1>1 DEF Defers
<1>4. PICK id : id = IdOf(Message(r))
  OBVIOUS
<1>5. /\ captured'[n][1].style = style /\ captured'[n][1].id = id
  BY <1>2, <1>3, <1>4 DEF TypeOK, PoolTyped
<1>6. batch[r] # <<>> /\ Advance(r, <<>>) /\ Message(r).kind # "response"
      /\ <<>> \in Seq(AnswerType)
  BY DEF Defers
<1>7. PICK Q : Q = RequestsIn(<<Message(r)>>)
  OBVIOUS
<1>8. Q = {id} \ {NullId} /\ Q \subseteq {n}
  <2>1. Message(r) \in MessageType /\ Q = IF Message(r).kind = "request" THEN {n} ELSE {}
    BY <1>1, <1>6, <1>7, MessageFacts, SingleRequest DEF TypeOK
  <2>2. n # NullId
    BY <1>2, BoundsAssumption DEF Serials, NullId
  <2> QED
    BY <1>1, <1>4, <1>6, <2>1, <2>2 DEF MessageType, IdOf, isNotification
<1>9. Rest(r) = Rest(r)' \union Q
  BY <1>6, <1>7, AdvanceOwing DEF TypeOK
<1>10. Rest(r)' = {}
  <2>1. index'[r] \in Nat \ {0} /\ Len(<<>>) = 0
    BY DEF TypeOK, ReadersTyped
  <2>2. index'[r] .. 0 = {}
    BY <2>1
  <2> QED
    BY <1>2, <2>1, <2>2 DEF Rest
<1>11. \A q \in Readers : q # r => Rest(q)' = Rest(q) /\ Held(q)' = Held(q)
  BY <1>6, AdvanceFacts, OthersKeep DEF TypeOK
<1>12. Q \intersect InPool = {} /\ Q \subseteq Owed
       /\ \A q \in Readers : q # r => Q \intersect (Rest(q) \union Held(q)) = {}
  BY <1>9, OwedFacts
<1>13. \A x : x \in InPool' <=> x \in InPool \/ (Answers(style, id) /\ x \in Q)
  BY <1>2, <1>5, <1>8 DEF InPool
<1>14. \A x : Owes(x)' <=> Owes(x) /\ (x \in Q => Answers(style, id))
  BY <1>2, <1>9, <1>10, <1>11, <1>12, <1>13 DEF Owes
<1>15. CASE Answers(style, id)
  <2>1. Owed' = Owed
    BY <1>14, <1>15, OwedIs, OwedIsNext
  <2>2. Settles({}) /\ abandoned' = abandoned \union {}
    BY <1>3, <1>4, <1>15, <2>1 DEF Settles
  <2> QED
    BY <2>2
<1>16. CASE ~Answers(style, id)
  <2>1. Owed' = Owed \ Q
    BY <1>14, <1>16, OwedIs, OwedIsNext
  <2>2. Settles(Q) /\ abandoned' = abandoned \union Q
    BY <1>3, <1>4, <1>7, <1>12, <1>16, <2>1 DEF Settles
  <2> QED
    BY <2>2
<1> QED
  BY <1>15, <1>16

\* A task that ends settles the request it was to answer.
LEMMA EndSettles ==
    ASSUME TypeOK, TypeOK', BatchesAreRuns, AnswersInOrder, LeftToPool, Separate,
           NEW n \in PoolTasks, Ends(n)
    PROVE  Settles(IF Answers(captured[n][1].style, captured[n][1].id)
                   THEN {captured[n][1].id} \ {NullId} ELSE {})
<1> DEFINE Due(k) == Answers(captured[k][1].style, captured[k][1].id)
           lost == IF Due(n) THEN {captured[n][1].id} \ {NullId} ELSE {}
<1>1. PoolTasks' = PoolTasks \ {n} /\ captured' = captured
      /\ \A k \in PoolTasks : captured[k][1].id \in {k, NullId}
  BY EndFacts DEF Ends, LeftToPool
<1>2. InPool = {captured[k][1].id : k \in {t \in PoolTasks : Due(t)}} \ {NullId}
      /\ InPool' = {captured[k][1].id : k \in {t \in PoolTasks' : Due(t)}} \ {NullId}
  BY <1>1 DEF InPool
<1>3. lost \subseteq InPool /\ InPool' = InPool \ lost
  <2> HIDE DEF Due
  <2> QED
    BY <1>1, <1>2
<1>4. \A q \in Readers : Rest(q)' = Rest(q) /\ Held(q)' = Held(q)
  BY DEF Ends, readerVars, Rest, Held
<1> HIDE DEF lost
<1>5. \A q \in Readers : (Rest(q) \union Held(q)) \intersect lost = {}
  BY <1>3, OwedFacts
<1>6. ASSUME NEW x PROVE Owes(x)' <=> Owes(x) /\ x \notin lost
  BY <1>3, <1>4, <1>5 DEF Owes
<1>7. Settles(lost)
  BY <1>3, <1>6, OwedIs, OwedIsNext DEF Owes, Settles
<1> QED
  BY <1>7 DEF lost

\* The three things that happen to what is owed: requests are read, answers to some
\* that are owed are written together, or some are given up.
Reads ==
    \E new \in SUBSET Serials :
        /\ new \intersect 1 .. received = {} /\ Owed' = Owed \union new
        /\ outbox' = outbox /\ abandoned' = abandoned
Sends ==
    \E s \in Seq(AnswerType) :
        /\ Written(s) /\ s # <<>> /\ abandoned' = abandoned
        /\ \/ \E r \in Readers : s = answers[r]
           \/ \E n \in PoolTasks : /\ Answers(captured[n][1].style, captured[n][1].id)
                                   /\ \A i \in DOMAIN s : s[i].id = captured[n][1].id
        /\ Settles({s[i].id : i \in DOMAIN s} \ {NullId})
        /\ \A i, j \in DOMAIN s : i # j /\ s[i].id # NullId => s[i].id # s[j].id
GivesUp ==
    \E lost : Settles(lost) /\ abandoned' = abandoned \union lost /\ outbox' = outbox

\* Every step does one of them, to what is owed then.
LEMMA OwedSteps ==
    ASSUME TypeOK, TypeOK', ContextOnlyInHandler, BatchesAreRuns, AnswersInOrder, LeftToPool,
           Separate, [Next]_vars
    PROVE  Reads \/ Sends \/ GivesUp
<1>1. DOMAIN <<>> = {} /\ <<>> \in Seq(AnswerType) /\ Len(<<>>) = 0
  OBVIOUS
<1>2. ASSUME NEW r \in Readers, NEW n \in 1 .. MaxMessages, HasRead(r, n) PROVE Reads
  <2>1. /\ InHand(r)' = received + 1 .. received + n /\ InHand(r) = {}
        /\ received \in Nat /\ n \in Nat \ {0} /\ received' = received + n
        /\ received' \in 0 .. MaxMessages
    BY <1>2, ReadHand DEF HasRead
  <2>2. \A q \in Readers : q # r => Rest(q)' = Rest(q) /\ Held(q)' = Held(q)
    BY <1>2, OthersKeep DEF HasRead
  <2>3. Rest(r) = {} /\ Held(r) = {} /\ Held(r)' = {}
    BY <1>1, <1>2, <2>1, KnownFacts DEF HasRead, Held
  <2>4. Rest(r)' \subseteq InHand(r)'
    <3>1. index'[r] = 1 /\ DOMAIN batch'[r] = 1 .. n /\ Len(batch'[r]) = n
      BY <1>2 DEF HasRead
    <3> QED
      BY <3>1 DEF Rest, InHand
  <2>5. InPool' = InPool /\ outbox' = outbox /\ abandoned' = abandoned
    BY <1>2 DEF HasRead, InPool, PoolTasks, poolVars
  <2>6. ASSUME NEW x PROVE Owes(x)' <=> Owes(x) \/ x \in Rest(r)'
    BY <2>2, <2>3, <2>5 DEF Owes
  <2>7. Owed' = Owed \union Rest(r)'
    BY <2>6, OwedIs, OwedIsNext
  <2>8. Rest(r)' \intersect 1 .. received = {} /\ Rest(r)' \in SUBSET Serials
    BY <2>1, <2>4, BoundsAssumption DEF Serials
  <2> QED
    BY <2>5, <2>7, <2>8 DEF Reads
<1>3. ASSUME NEW r \in Readers, KeepsOn(r) PROVE GivesUp
  <2>1. PICK replies \in Seq(AnswerType) :
          /\ batch[r] # <<>> /\ Advance(r, replies)
          /\ \A i \in DOMAIN replies :
                replies[i].id \in {NullId} \union RequestsIn(<<Message(r)>>)
          /\ abandoned' = abandoned \union
                (RequestsIn(<<Message(r)>>) \ {replies[i].id : i \in DOMAIN replies})
          /\ UNCHANGED <<captured, poolVars, outbox>>
    BY <1>3 DEF KeepsOn
  <2>2. PICK Q : Q = RequestsIn(<<Message(r)>>)
    OBVIOUS
  <2>3. PICK ids : ids = {replies[i].id : i \in DOMAIN replies}
    OBVIOUS
  <2>4. /\ Rest(r) = Rest(r)' \union Q /\ Held(r)' = Held(r) \union (ids \ {NullId})
        /\ Message(r).serial \notin Rest(r)' /\ Q \subseteq {Message(r).serial}
    BY <2>1, <2>2, <2>3, AdvanceOwing DEF TypeOK
  <2>5. ids \subseteq {NullId} \union Q
    BY <2>1, <2>2, <2>3
  <2>6. Rest(r) \intersect Held(r) = {} /\ Rest(r) \subseteq Serials
    BY KnownFacts, OwingFacts DEF TypeOK
  <2>7. NullId \notin Serials
    BY BoundsAssumption DEF Serials, NullId
  <2>8. Rest(r)' \union Held(r)' = (Rest(r) \union Held(r)) \ (Q \ ids)
    BY <2>4, <2>5, <2>6, <2>7
  <2>9. InPool' = InPool
    BY <2>1 DEF InPool, PoolTasks, poolVars
  <2>10. \A q \in Readers : q # r => Rest(q)' = Rest(q) /\ Held(q)' = Held(q)
    BY <2>1, AdvanceFacts, OthersKeep DEF TypeOK
  <2>11. Settles(Q \ ids)
    BY <2>4, <2>8, <2>9, <2>10, ReaderSettles
  <2>12. abandoned' = abandoned \union (Q \ ids) /\ outbox' = outbox
    BY <2>1, <2>2, <2>3
  <2> QED
    BY <2>11, <2>12 DEF GivesUp
<1>4. ASSUME NEW r \in Readers, Defers(r) PROVE GivesUp
  BY <1>4, DeferSettles DEF GivesUp, Defers
<1>5. ASSUME NEW r \in Readers, Throws(r) PROVE GivesUp
  <2>1. /\ abandoned' = abandoned \union Rest(r) \union Held(r)
        /\ batch'[r] = <<>> /\ answers'[r] = <<>>
        /\ \A q \in Readers : q # r => Rest(q)' = Rest(q) /\ Held(q)' = Held(q)
        /\ InPool' = InPool /\ outbox' = outbox
    BY <1>5, ThrowFacts, OthersKeep DEF Throws, TypeOK, InPool, PoolTasks, poolVars
  <2>2. Rest(r)' = {} /\ Held(r)' = {}
    <3>1. index'[r] \in Nat \ {0}
      BY DEF TypeOK, ReadersTyped
    <3>2. index'[r] .. 0 = {}
      BY <3>1
    <3> QED
      BY <1>1, <2>1, <3>2 DEF Rest, Held
  <2>3. Settles(Rest(r) \union Held(r))
    BY <2>1, <2>2, ReaderSettles
  <2> QED
    BY <2>1, <2>3 DEF GivesUp
<1>6. ASSUME UNCHANGED <<batch, index, answers, outbox, abandoned>>, InPool' = InPool
      PROVE  GivesUp
  <2>1. \A q \in Readers : Rest(q)' = Rest(q) /\ Held(q)' = Held(q)
    BY <1>6 DEF Rest, Held
  <2>2. ASSUME NEW x PROVE Owes(x)' <=> Owes(x)
    BY <1>6, <2>1 DEF Owes
  <2>3. Owed' = Owed
    BY <2>2, OwedIs, OwedIsNext
  <2>4. Settles({}) /\ abandoned' = abandoned \union {} /\ outbox' = outbox
    BY <1>6, <2>3 DEF Settles
  <2> QED
    BY <2>4 DEF GivesUp
<1>7. ASSUME NEW r \in Readers, Write(r) PROVE Sends
  <2>1. /\ Written(answers[r]) /\ answers[r] \in Seq(AnswerType) /\ answers[r] # <<>>
        /\ Rest(r)' = {} /\ Rest(r) = {} /\ Held(r)' = {}
    BY <1>7, WriteFacts DEF Write, TypeOK, ReadersTyped
  <2>2. /\ UNCHANGED <<batch, index, captured, poolVars, abandoned>>
        /\ answers' = [answers EXCEPT ![r] = <<>>]
    BY <1>7 DEF Write
  <2>3. \A q \in Readers : q # r => Rest(q)' = Rest(q) /\ Held(q)' = Held(q)
    <3>1. \A q \in Readers : q # r => answers'[q] = answers[q]
      BY <2>2 DEF TypeOK, ReadersTyped
    <3> QED
      BY <2>2, <3>1, OthersKeep
  <2>4. InPool' = InPool
    BY <2>2 DEF InPool, PoolTasks, poolVars
  <2>5. Settles(Held(r))
    BY <2>1, <2>3, <2>4, ReaderSettles
  <2>6. \A i, j \in DOMAIN answers[r] :
           i # j /\ answers[r][i].id # NullId => answers[r][i].id # answers[r][j].id
    <3>1. ASSUME NEW i \in DOMAIN answers[r], NEW j \in DOMAIN answers[r], i < j,
                 answers[r][i].id # NullId, answers[r][j].id # NullId
          PROVE  answers[r][i].id # answers[r][j].id
      <4>1. answers[r][i].id < answers[r][j].id /\ answers[r][i].id \in 1 .. received
        BY <3>1 DEF AnswersInOrder, Ordered
      <4> QED
        BY <4>1
    <3>2. \A i, j \in DOMAIN answers[r] : i < j \/ j < i \/ i = j
      BY <2>1, LenProperties
    <3> QED
      BY <3>1, <3>2
  <2> QED
    BY <2>1, <2>2, <2>5, <2>6 DEF Sends, Held
<1>8. ASSUME NEW n \in PoolTasks, Ends(n) PROVE Sends \/ GivesUp
  <2>1. PICK c : c = captured[n][1]
    OBVIOUS
  <2>2. Settles(IF Answers(c.style, c.id) THEN {c.id} \ {NullId} ELSE {})
    BY <1>8, <2>1, EndSettles
  <2>3. CASE /\ Answers(c.style, c.id) /\ abandoned' = abandoned
             /\ \E a \in AnswerType : a.id = c.id /\ Written(<<a>>)
    <3>1. PICK a \in AnswerType : a.id = c.id /\ Written(<<a>>)
      BY <2>3
    <3>2. <<a>> \in Seq(AnswerType) /\ DOMAIN <<a>> = {1} /\ <<a>>[1] = a
      OBVIOUS
    <3>3. {<<a>>[i].id : i \in DOMAIN <<a>>} = {c.id} /\ <<a>> # <<>>
      BY <1>1, <3>1, <3>2
    <3>4. Settles({c.id} \ {NullId})
      BY <2>2, <2>3
    <3>5. \A i, j \in DOMAIN <<a>> :
             i # j /\ <<a>>[i].id # NullId => <<a>>[i].id # <<a>>[j].id
      BY <3>2
    <3>6. PICK s \in Seq(AnswerType) : s = <<a>>
      BY <3>2
    <3>7. /\ {s[i].id : i \in DOMAIN s} = {c.id} /\ Written(s) /\ s # <<>>
          /\ \A i \in DOMAIN s : s[i].id = c.id
          /\ \A i, j \in DOMAIN s : i # j /\ s[i].id # NullId => s[i].id # s[j].id
      BY <3>1, <3>2, <3>3, <3>5, <3>6
    <3> QED
      BY <2>1, <2>3, <3>4, <3>7 DEF Sends
  <2>4. CASE ~Answers(c.style, c.id) /\ outbox' = outbox /\ abandoned' = abandoned
    <3>1. Settles({}) /\ abandoned' = abandoned \union {}
      BY <2>2, <2>4
    <3> QED
      BY <2>4, <3>1 DEF GivesUp
  <2>5. CASE /\ Answers(c.style, c.id) /\ outbox' = outbox
             /\ abandoned' = abandoned \union ({c.id} \ {NullId})
    BY <2>2, <2>5 DEF GivesUp
  <2> QED
    BY <1>8, <2>1, <2>3, <2>4, <2>5, EndFacts
<1>9. ASSUME NEW r \in Readers, DispatchRequest(r) PROVE GivesUp
  BY <1>6, <1>9 DEF DispatchRequest, InPool, PoolTasks, poolVars
<1>10. CASE TaskStarts
  <2>1. PoolTasks' = PoolTasks /\ captured' = captured
    BY <1>10, PoolFacts DEF TaskStarts, TypeOK
  <2> QED
    BY <1>6, <1>10, <2>1 DEF TaskStarts, readerVars, InPool
<1>11. CASE Destroy \/ PoolDrained \/ Rests
  BY <1>6, <1>11 DEF Destroy, PoolDrained, Rests, Pool!BeginDrain, Pool!EndDrain,
                     InPool, PoolTasks, poolVars, readerVars
<1> QED
  BY <1>2, <1>3, <1>4, <1>5, <1>7, <1>8, <1>9, <1>10, <1>11, StepCases

\* A request is settled once.
LEMMA SettledOnceStep ==
    TypeOK /\ TypeOK' /\ ContextOnlyInHandler /\ BatchesAreRuns /\ AnswersInOrder /\ LeftToPool
        /\ Separate /\ SettledOnce /\ [Next]_vars => SettledOnce'
<1> SUFFICES ASSUME TypeOK, TypeOK', ContextOnlyInHandler, BatchesAreRuns, AnswersInOrder,
                    LeftToPool, Separate, SettledOnce, [Next]_vars
             PROVE  SettledOnce'
  OBVIOUS
<1>1. /\ Owed \subseteq 1 .. received /\ abandoned \subseteq 1 .. received
      /\ \A i \in DOMAIN outbox : outbox[i].answer.id \in {NullId} \union 1 .. received
  BY OwedFacts DEF Separate, Sent, SentIds
<1>2. NullId \notin Serials /\ 1 .. received \subseteq Serials
  BY BoundsAssumption DEF Serials, NullId, TypeOK
<1>3. /\ Owed \intersect abandoned = {}
      /\ \A i \in DOMAIN outbox :
            /\ outbox[i].answer.id \notin Owed \union abandoned
            /\ \A j \in DOMAIN outbox : i # j /\ outbox[i].answer.id # NullId
                                           => outbox[i].answer.id # outbox[j].answer.id
  BY DEF SettledOnce, SentIds
<1>4. SUFFICES
        /\ Owed' \intersect abandoned' = {}
        /\ \A i \in DOMAIN outbox' :
              /\ outbox'[i].answer.id \notin Owed' \union abandoned'
              /\ \A j \in DOMAIN outbox' : i # j /\ outbox'[i].answer.id # NullId
                                             => outbox'[i].answer.id # outbox'[j].answer.id
  BY DEF SettledOnce, SentIds
<1>5. CASE Reads
  <2>1. PICK new \in SUBSET Serials :
          /\ new \intersect 1 .. received = {} /\ Owed' = Owed \union new
          /\ outbox' = outbox /\ abandoned' = abandoned
    BY <1>5 DEF Reads
  <2> QED
    BY <1>1, <1>2, <1>3, <2>1
<1>6. CASE GivesUp
  <2>1. PICK lost : /\ lost \subseteq Owed /\ Owed' = Owed \ lost
                    /\ abandoned' = abandoned \union lost /\ outbox' = outbox
    BY <1>6 DEF GivesUp, Settles
  <2> QED
    BY <1>3, <2>1
<1>7. CASE Sends
  <2>1. PICK s \in Seq(AnswerType) :
          /\ Written(s) /\ abandoned' = abandoned
          /\ Settles({s[i].id : i \in DOMAIN s} \ {NullId})
          /\ \A i, j \in DOMAIN s : i # j /\ s[i].id # NullId => s[i].id # s[j].id
    BY <1>7 DEF Sends
  <2>2. PICK ids : ids = {s[i].id : i \in DOMAIN s}
    OBVIOUS
  <2>3. ids \ {NullId} \subseteq Owed /\ Owed' = Owed \ (ids \ {NullId})
        /\ \A i \in DOMAIN s : s[i].id \in ids
    BY <2>1, <2>2 DEF Settles
  <2>4. /\ \A i \in DOMAIN outbox : outbox'[i] = outbox[i]
        /\ \A i \in DOMAIN outbox' : \/ i \in DOMAIN outbox
                                     \/ /\ i - Len(outbox) \in DOMAIN s
                                        /\ outbox'[i].answer.id = s[i - Len(outbox)].id
        /\ DOMAIN outbox' \subseteq Nat /\ Len(outbox) \in Nat
    <3>1. /\ DOMAIN outbox' = 1 .. Len(outbox) + Len(s) /\ Len(outbox) \in Nat /\ Len(s) \in Nat
          /\ \A i \in DOMAIN outbox : outbox'[i] = outbox[i]
          /\ \A i \in DOMAIN s : outbox'[Len(outbox) + i].answer = s[i]
          /\ \A i \in DOMAIN outbox' : i \in DOMAIN outbox \/ i - Len(outbox) \in DOMAIN s
      BY <2>1, WrittenFacts DEF TypeOK
    <3>2. ASSUME NEW i \in DOMAIN outbox', i - Len(outbox) \in DOMAIN s
          PROVE  outbox'[i].answer = s[i - Len(outbox)]
      <4>1. PICK k \in DOMAIN s : k = i - Len(outbox)
        BY <3>2
      <4>2. Len(outbox) + k = i
        BY <3>1, <4>1
      <4> QED
        BY <3>1, <4>1, <4>2
    <3> QED
      BY <3>1, <3>2
  <2>5. \A i \in DOMAIN outbox' : \/ i \in DOMAIN outbox /\ outbox'[i] = outbox[i]
                                     /\ outbox'[i].answer.id \notin Owed
                                  \/ outbox'[i].answer.id \in ids /\ i - Len(outbox) \in DOMAIN s
    BY <1>3, <2>3, <2>4
  <2>6. ASSUME NEW i \in DOMAIN outbox' PROVE outbox'[i].answer.id \notin Owed' \union abandoned'
    BY <1>1, <1>2, <1>3, <2>1, <2>3, <2>5
  <2>7. ASSUME NEW i \in DOMAIN outbox', NEW j \in DOMAIN outbox', i # j,
               outbox'[i].answer.id # NullId
        PROVE  outbox'[i].answer.id # outbox'[j].answer.id
    <3>1. CASE i \in DOMAIN outbox /\ j \in DOMAIN outbox
      BY <1>3, <2>4, <2>7, <3>1
    <3>2. CASE i \in DOMAIN outbox /\ j \notin DOMAIN outbox
      BY <1>3, <2>3, <2>4, <2>5, <2>7, <3>2
    <3>3. CASE i \notin DOMAIN outbox /\ j \in DOMAIN outbox
      BY <1>3, <2>3, <2>4, <2>5, <2>7, <3>3
    <3>4. CASE i \notin DOMAIN outbox /\ j \notin DOMAIN outbox
      <4>1. /\ i - Len(outbox) \in DOMAIN s /\ j - Len(outbox) \in DOMAIN s
            /\ outbox'[i].answer.id = s[i - Len(outbox)].id
            /\ outbox'[j].answer.id = s[j - Len(outbox)].id
            /\ i - Len(outbox) # j - Len(outbox)
        BY <2>4, <2>7, <3>4
      <4> QED
        BY <2>1, <2>7, <4>1
    <3> QED
      BY <3>1, <3>2, <3>3, <3>4
  <2>8. Owed' \intersect abandoned' = {}
    BY <1>3, <2>1, <2>3
  <2> QED
    BY <2>6, <2>7, <2>8
<1> QED
  BY <1>5, <1>6, <1>7, OwedSteps

\* Answers in their order, of batches nothing was sent for, keep the output in order.
LEMMA WrittenInOrder ==
    ASSUME TypeOK, Separate, BatchAnsweredInOrder, origin' = origin,
           NEW s \in Seq(AnswerType), Written(s),
           \A i, j \in DOMAIN s : s[i].id # NullId /\ s[j].id # NullId /\ i < j
                                      => s[i].id < s[j].id,
           \A i \in DOMAIN s : s[i].id # NullId => \A x \in Sent : origin[s[i].id] # origin[x]
    PROVE  BatchAnsweredInOrder'
<1> DEFINE k == Len(outbox)
<1>1. /\ DOMAIN outbox' = 1 .. k + Len(s) /\ k \in Nat /\ Len(s) \in Nat
      /\ DOMAIN outbox = 1 .. k /\ DOMAIN s = 1 .. Len(s)
      /\ \A i \in DOMAIN outbox : outbox'[i] = outbox[i]
      /\ \A i \in DOMAIN s : outbox'[k + i].answer = s[i] /\ outbox'[k + i].write = k
  BY WrittenFacts DEF TypeOK
<1>2. \A i \in DOMAIN outbox : outbox[i].answer.id # NullId => outbox[i].answer.id \in Sent
  BY DEF Sent, SentIds
<1>3. \A i, j \in DOMAIN outbox :
         LET x == outbox[i].answer.id
             y == outbox[j].answer.id
         IN  x # NullId /\ y # NullId /\ x < y /\ origin[x] = origin[y]
                => i < j /\ outbox[i].write = outbox[j].write
  <2>1. \A i \in DOMAIN outbox : SentIds[i] = outbox[i].answer.id
    BY DEF SentIds
  <2> QED
    BY <2>1 DEF BatchAnsweredInOrder
<1>4. \A i \in DOMAIN s : s[i].id \in Nat
  <2>1. \A i \in DOMAIN s : s[i] \in AnswerType
    BY <1>1, ElementOfSeq
  <2> QED
    BY <2>1 DEF AnswerType
<1>5. \A i \in DOMAIN outbox' : \/ i \in DOMAIN outbox
                                \/ \E m \in DOMAIN s : i = k + m
  <2>1. ASSUME NEW i \in DOMAIN outbox', i \notin DOMAIN outbox
        PROVE  i - k \in DOMAIN s /\ i = k + (i - k)
    BY <1>1, <2>1
  <2> QED
    BY <2>1
<1> HIDE DEF k
<1>6. ASSUME NEW i \in DOMAIN outbox', NEW j \in DOMAIN outbox',
             outbox'[i].answer.id # NullId, outbox'[j].answer.id # NullId,
             outbox'[i].answer.id < outbox'[j].answer.id,
             origin[outbox'[i].answer.id] = origin[outbox'[j].answer.id]
      PROVE  i < j /\ outbox'[i].write = outbox'[j].write
  <2>1. CASE i \in DOMAIN outbox /\ j \in DOMAIN outbox
    BY <1>1, <1>3, <1>6, <2>1
  <2>2. ASSUME NEW m \in DOMAIN s, i = k + m, j \in DOMAIN outbox PROVE FALSE
    BY <1>1, <1>2, <1>6, <2>2
  <2>3. ASSUME NEW m \in DOMAIN s, j = k + m, i \in DOMAIN outbox PROVE FALSE
    BY <1>1, <1>2, <1>6, <2>3
  <2>4. ASSUME NEW m \in DOMAIN s, NEW l \in DOMAIN s, i = k + m, j = k + l
        PROVE  i < j /\ outbox'[i].write = outbox'[j].write
    <3>1. s[m].id < s[l].id /\ s[m].id # NullId /\ s[l].id # NullId
      BY <1>1, <1>6, <2>4
    <3>2. m \in Nat /\ l \in Nat
      BY <1>1
    <3>3. m < l
      BY <1>4, <3>1, <3>2
    <3> QED
      BY <1>1, <2>4, <3>2, <3>3
  <2> QED
    BY <1>5, <2>1, <2>2, <2>3, <2>4
<1> QED
  BY <1>6 DEF BatchAnsweredInOrder, SentIds

\* The answers of a batch are written at once, in order.
LEMMA BatchAnsweredStep ==
    TypeOK /\ ContextOnlyInHandler /\ BatchesAreRuns /\ AnswersInOrder /\ LeftToPool /\ Separate
        /\ BatchAnsweredInOrder /\ [Next]_vars => BatchAnsweredInOrder'
<1> SUFFICES ASSUME TypeOK, ContextOnlyInHandler, BatchesAreRuns, AnswersInOrder, LeftToPool,
                    Separate, BatchAnsweredInOrder, [Next]_vars
             PROVE  BatchAnsweredInOrder'
  OBVIOUS
<1>1. ASSUME NEW r \in Readers, NEW n \in 1 .. MaxMessages, HasRead(r, n)
      PROVE  BatchAnsweredInOrder'
  <2>1. \A k \in 1 .. received : origin'[k] = origin[k]
    BY <1>1, ReadHand
  <2>2. \A i \in DOMAIN outbox :
           outbox[i].answer.id # NullId => outbox[i].answer.id \in 1 .. received
    BY DEF Separate, Sent, SentIds
  <2>3. outbox' = outbox
    BY <1>1 DEF HasRead
  <2> QED
    BY <2>1, <2>2, <2>3 DEF BatchAnsweredInOrder, SentIds
<1>2. ASSUME outbox' = outbox, origin' = origin PROVE BatchAnsweredInOrder'
  BY <1>2 DEF BatchAnsweredInOrder, SentIds
<1>3. ASSUME NEW r \in Readers, Write(r) PROVE BatchAnsweredInOrder'
  <2>1. Written(answers[r]) /\ answers[r] \in Seq(AnswerType) /\ origin' = origin
    BY <1>3, WriteFacts DEF Write
  <2>2. \A i, j \in DOMAIN answers[r] :
           answers[r][i].id # NullId /\ answers[r][j].id # NullId /\ i < j
               => answers[r][i].id < answers[r][j].id
    BY DEF AnswersInOrder, Ordered
  <2>3. ASSUME NEW i \in DOMAIN answers[r], answers[r][i].id # NullId, NEW x \in Sent
        PROVE  origin[answers[r][i].id] # origin[x]
    <3>1. answers[r][i].id \in InHand(r)
      BY <2>3 DEF InHand, Held
    <3> QED
      BY <3>1 DEF Separate, Apart
  <2> QED
    BY <2>1, <2>2, <2>3, WrittenInOrder
<1>4. ASSUME NEW n \in PoolTasks, Ends(n) PROVE BatchAnsweredInOrder'
  <2>1. /\ n \in 1 .. received /\ captured[n][1].id \in {n, NullId} /\ origin' = origin
        /\ Alone(n) /\ n \notin Sent /\ Sent \subseteq 1 .. received
    BY <1>4, EndFacts DEF Ends, LeftToPool, Separate
  <2>2. ASSUME NEW a \in AnswerType, a.id = captured[n][1].id, Written(<<a>>)
        PROVE  BatchAnsweredInOrder'
    <3>1. <<a>> \in Seq(AnswerType) /\ DOMAIN <<a>> = {1} /\ <<a>>[1] = a
      OBVIOUS
    <3>2. PICK s \in Seq(AnswerType) : s = <<a>>
      BY <3>1
    <3>3. DOMAIN s = {1} /\ s[1] = a /\ Written(s)
      BY <2>2, <3>1, <3>2
    <3>4. a.id # NullId => \A x \in Sent : origin[a.id] # origin[x]
      BY <2>1, <2>2 DEF Alone
    <3>5. /\ \A i, j \in DOMAIN s : ~(i < j)
          /\ \A i \in DOMAIN s : s[i] = a
      BY <3>3
    <3> QED
      BY <2>1, <3>3, <3>4, <3>5, WrittenInOrder
  <2> QED
    BY <1>2, <1>4, <2>1, <2>2, EndFacts
<1>5. ASSUME NEW r \in Readers, KeepsOn(r) \/ Defers(r) \/ Throws(r) \/ DispatchRequest(r)
      PROVE  BatchAnsweredInOrder'
  BY <1>2, <1>5 DEF KeepsOn, Defers, Throws, DispatchRequest
<1>6. CASE TaskStarts \/ Destroy \/ PoolDrained \/ Rests
  BY <1>2, <1>6 DEF TaskStarts, Destroy, PoolDrained, Rests
<1> QED
  BY <1>1, <1>3, <1>4, <1>5, <1>6, StepCases

-----------------------------------------------------------------------------
(* The theorems *)

IInv ==
    /\ TypeOK /\ ContextOnlyInHandler
    /\ BatchesAreRuns /\ AnswersInOrder /\ LeftToPool /\ Separate /\ Closing
    /\ SettledOnce /\ BatchAnsweredInOrder

\* Before the first message is read nobody has anything in hand.
LEMMA IInvInit == Init => IInv
<1> SUFFICES ASSUME Init PROVE IInv
  OBVIOUS
<1> USE DEF Init, Pool!Init
<1>1. DOMAIN <<>> = {} /\ \A S : <<>> \in Seq(S)
  OBVIOUS
<1>2. PoolTasks = {}
  BY <1>1 DEF PoolTasks
<1>3. Sent = {}
  BY <1>1 DEF Sent
<1>4. TypeOK
  <2>1. ReadersTyped
    BY <1>1 DEF ReadersTyped
  <2>2. PoolTyped
    BY <1>1, <1>2 DEF PoolTyped
  <2>3. table \in [Methods -> Handlers \union {NoHandler}]
    BY InitialHandlersAssumption
  <2>4. context \in [Readers -> {<<>>} \union {<<id>> : id \in 0 .. MaxMessages}]
    OBVIOUS
  <2>5. outbox \in Seq([answer : AnswerType, write : Nat])
    <3> HIDE DEF AnswerType
    <3> QED
      BY <1>1
  <2>6. destroyed \in BOOLEAN /\ abandoned \subseteq Serials
    OBVIOUS
  <2>7. origin \in [Serials -> 0 .. MaxMessages] /\ received \in 0 .. MaxMessages
    BY BoundsAssumption
  <2>8. changes \in 0 .. MaxChanges /\ failures \in 0 .. MaxWriteFailures
    BY BoundsAssumption
  <2> QED
    BY <2>1, <2>2, <2>3, <2>4, <2>5, <2>6, <2>7, <2>8 DEF TypeOK
<1>5. ContextOnlyInHandler
  BY DEF ContextOnlyInHandler
<1>6. BatchesAreRuns /\ AnswersInOrder
  BY <1>1 DEF BatchesAreRuns, AnswersInOrder, Ordered
<1>7. LeftToPool /\ Closing
  BY <1>1, <1>2 DEF LeftToPool, Closing
<1>8. \A r \in Readers : InHand(r) = {}
  BY <1>1 DEF InHand, Held
<1>9. Separate
  BY <1>2, <1>3, <1>8 DEF Separate, Apart
<1>10. SettledOnce /\ BatchAnsweredInOrder
  BY <1>1 DEF SettledOnce, BatchAnsweredInOrder, SentIds
<1> QED
  BY <1>4, <1>5, <1>6, <1>7, <1>9, <1>10 DEF IInv

\* Whatever the readers, the pool, the peer and the owner do next keeps it.
LEMMA IInvStep == IInv /\ [Next]_vars => IInv'
BY TypeStep, ContextStep, BatchesStep, AnswersStep, PoolStep, SeparateStep, ClosingStep,
   SettledOnceStep, BatchAnsweredStep
   DEF IInv

\* Every state of every behaviour has the parts of the invariant.
THEOREM Invariance == Spec => []IInv
BY IInvInit, IInvStep, PTL DEF Spec

\* Every variable keeps its type: a reader has a batch exactly while it processes one,
\* and every task of the pool captured an id.
THEOREM TypeCorrect == Spec => []TypeOK
<1>1. IInv => TypeOK
  BY DEF IInv
<1> QED
  BY <1>1, Invariance, PTL

\* t_currentRequestId is set exactly while a handler runs, to the id of its message,
\* however the handler before it ended.
THEOREM ContextIsSafe == Spec => []ContextOnlyInHandler
<1>1. IInv => ContextOnlyInHandler
  BY DEF IInv
<1> QED
  BY <1>1, Invariance, PTL

\* No request is answered twice, or both answered and given up, be it by the reader or
\* by a task of the pool.
THEOREM SettlesOnce == Spec => []SettledOnce
<1>1. IInv => SettledOnce
  BY DEF IInv
<1> QED
  BY <1>1, Invariance, PTL

\* The answers of a batch are written together and in the order of its requests, however
\* many readers and tasks write besides.
THEOREM BatchesAnsweredInOrder == Spec => []BatchAnsweredInOrder
<1>1. IInv => BatchAnsweredInOrder
  BY DEF IInv
<1> QED
  BY <1>1, Invariance, PTL

\* When ~MessageHandler has returned nothing is owed: what was left to the pool is done.
THEOREM DestroyedOwingNothing == Spec => []NothingOwedWhenDestroyed
<1>1. IInv => NothingOwedWhenDestroyed
  <2> SUFFICES ASSUME IInv, destroyed, NEW x, Owes(x) PROVE FALSE
    BY OwedIs DEF IInv, NothingOwedWhenDestroyed
  <2>1. PoolTasks = {} /\ \A r \in Readers : pc[r] = "idle"
    BY DEF IInv, Closing
  <2>2. DOMAIN <<>> = {} /\ Len(<<>>) = 0
    OBVIOUS
  <2>3. ASSUME NEW r \in Readers PROVE Rest(r) = {} /\ Held(r) = {}
    <3>1. batch[r] = <<>> /\ answers[r] = <<>> /\ index[r] \in Nat \ {0}
      BY <2>1 DEF IInv, TypeOK, ReadersTyped
    <3>2. index[r] .. 0 = {}
      BY <3>1
    <3> QED
      BY <2>2, <3>1, <3>2 DEF Rest, Held
  <2>4. InPool = {}
    BY <2>1 DEF InPool
  <2> QED
    BY <2>3, <2>4 DEF Owes
<1> QED
  BY <1>1, Invariance, PTL
-----------------------------------------------------------------------------
(* RequestExchange is implemented, as long as no request wrapper is called for *)
(* a notification, whose null id it would answer.                              *)

\* From a QuietPeer, every answer held by a reader, or to be made by a task, has an id.
AnswersHaveIds ==
    /\ \A m \in Methods : Silent(m) => table[m].style # "request"
    /\ \A r \in Readers :
          /\ \A i \in DOMAIN batch[r] :
                batch[r][i].kind = "notification" => Silent(batch[r][i].method)
          /\ pc[r] = "call" => table[Message(r).method] # NoHandler
          /\ \A i \in DOMAIN answers[r] : answers[r][i].id # NullId
    /\ \A n \in PoolTasks :
          Answers(captured[n][1].style, captured[n][1].id) => captured[n][1].id # NullId

\* The part of it that one reader is about.
HasIds(r) ==
    /\ \A i \in DOMAIN batch[r] :
          batch[r][i].kind = "notification" => Silent(batch[r][i].method)
    /\ pc[r] = "call" => table[Message(r).method] # NoHandler
    /\ \A i \in DOMAIN answers[r] : answers[r][i].id # NullId

\* A reader that has done with a message and collected an answer with an id.
LEMMA AdvanceHasIds ==
    ASSUME TypeOK, NEW r \in Readers, HasIds(r), batch[r] # <<>>,
           NEW replies \in Seq(AnswerType), Advance(r, replies),
           \A i \in DOMAIN replies : replies[i].id # NullId
    PROVE  HasIds(r)'
<1>1. /\ answers'[r] = answers[r] \o replies /\ answers[r] \in Seq(AnswerType)
      /\ pc'[r] # "call" /\ batch'[r] \in {<<>>, batch[r]}
  BY AdvanceFacts DEF TypeOK, ReadersTyped
<1>2. PICK b : b = answers[r] \o replies
  OBVIOUS
<1>3. \A i \in DOMAIN b : b[i].id # NullId
  BY <1>1, <1>2, Appended DEF HasIds
<1>4. DOMAIN <<>> = {}
  OBVIOUS
<1> QED
  BY <1>1, <1>2, <1>3, <1>4 DEF HasIds

\* A reader that gave up has nothing.
LEMMA ThrowHasIds ==
    ASSUME TypeOK, NEW r \in Readers, Throw(r)
    PROVE  HasIds(r)'
<1>1. DOMAIN <<>> = {}
  OBVIOUS
<1> QED
  BY <1>1, ThrowFacts DEF TypeOK, HasIds

\* What the handler that is called answers has an id.
LEMMA CalledHasId ==
    ASSUME TypeOK, ContextOnlyInHandler, AnswersHaveIds, NEW r \in Readers, pc[r] = "call",
           NEW h \in Called(Message(r).method), Answers(h.style, context[r][1])
    PROVE  context[r][1] # NullId
<1>1. /\ batch[r] # <<>> /\ Message(r) \in MessageType /\ Message(r).serial \in Serials
      /\ context[r][1] = IdOf(Message(r))
  BY CallFacts
<1>2. h = table[Message(r).method] /\ Message(r).method \in Methods
  BY <1>1 DEF AnswersHaveIds, Called, MessageType
<1>3. SUFFICES ASSUME Message(r).kind = "notification" PROVE h.style # "request"
  BY <1>1, BoundsAssumption DEF IdOf, isNotification, Answers, Serials, NullId
<1>4. index[r] \in DOMAIN batch[r]
  BY <1>1 DEF TypeOK, ReadersTyped
<1>5. Silent(Message(r).method)
  BY <1>3, <1>4 DEF AnswersHaveIds, Message
<1> QED
  BY <1>2, <1>5 DEF AnswersHaveIds

\* Nothing that is to be answered has the null id, if the peer is quiet.
LEMMA IdsStep ==
    ASSUME QuietPeer, TypeOK, ContextOnlyInHandler, BatchesAreRuns, AnswersInOrder, LeftToPool,
           Separate, AnswersHaveIds, [Next]_vars
    PROVE  AnswersHaveIds'
<1> DEFINE TableFits == \A m \in Methods : Silent(m) => table[m].style # "request"
           PoolFits == \A n \in PoolTasks :
               Answers(captured[n][1].style, captured[n][1].id) => captured[n][1].id # NullId
<1>1. TableFits /\ PoolFits /\ \A r \in Readers : HasIds(r)
  BY DEF AnswersHaveIds, HasIds
<1>2. SUFFICES TableFits' /\ PoolFits' /\ \A r \in Readers : HasIds(r)'
  BY DEF AnswersHaveIds, HasIds
<1>3. DOMAIN <<>> = {} /\ <<>> \in Seq(AnswerType)
  OBVIOUS
<1>4. PoolTasks' = PoolTasks /\ captured' = captured => PoolFits'
  BY <1>1
<1>5. ASSUME NEW q \in Readers, table' = table, batch'[q] = batch[q], pc'[q] = pc[q],
             index'[q] = index[q], answers'[q] = answers[q]
      PROVE  HasIds(q)'
  BY <1>1, <1>5 DEF HasIds, Message
<1>6. ASSUME NEW m \in Methods, NEW h \in Offered[m] \union {NoHandler}, Change(m, h)
      PROVE  TableFits' /\ PoolFits' /\ \A r \in Readers : HasIds(r)'
  <2>1. /\ table' = [table EXCEPT ![m] = h] /\ ~Dispatching(m)
        /\ UNCHANGED <<pc, batch, index, answers, captured, poolVars>>
    BY <1>6 DEF Change, QuietPeer, readerVars
  <2>2. table'[m] = h /\ \A k \in Methods : k # m => table'[k] = table[k]
    BY <2>1 DEF TypeOK
  <2>3. h.style = "none" \/ h \in Offered[m]
    BY DEF NoHandler
  <2>4. TableFits'
    BY <1>1, <2>2, <2>3 DEF Silent
  <2>5. ASSUME NEW r \in Readers PROVE HasIds(r)'
    <3>1. pc[r] = "call" => Message(r).method \in Methods /\ Message(r).method # m
      BY <2>1, CallFacts DEF Dispatching, Message, MessageType
    <3> QED
      BY <1>1, <2>1, <2>2, <3>1 DEF HasIds, Message
  <2>6. PoolFits'
    BY <1>4, <2>1 DEF PoolTasks, poolVars
  <2> QED
    BY <2>4, <2>5, <2>6
<1>7. ASSUME NEW r \in Readers, readMessage(r)
      PROVE  TableFits' /\ PoolFits' /\ \A q \in Readers : HasIds(q)'
  <2>1. PICK n \in 1 .. MaxMessages : HasRead(r, n)
    BY <1>7, ReadFacts
  <2>2. table' = table /\ PoolTasks' = PoolTasks /\ captured' = captured
    BY <1>7, <2>1 DEF readMessage, HasRead, PoolTasks, poolVars
  <2>3. HasIds(r)'
    BY <1>1, <2>1, FormsAssumption DEF HasRead, QuietPeer, HasIds
  <2>4. \A q \in Readers : q # r => HasIds(q)'
    BY <1>5, <2>1, <2>2 DEF HasRead
  <2> QED
    BY <1>1, <1>4, <2>2, <2>3, <2>4
<1>8. ASSUME NEW r \in Readers, ReaderStep(r)
      PROVE  TableFits' /\ PoolFits' /\ \A q \in Readers : HasIds(q)'
  <2>1. table' = table
    BY <1>8 DEF ReaderStep, DispatchResponse, DispatchUnknown, DispatchRequest, CallFails,
                CallThrowsUnknown, CallReturns, CallDefers, Write, WriteThrows
  <2>2. TableFits'
    BY <1>1, <2>1
  <2>3. ASSUME NEW q \in Readers, q # r PROVE HasIds(q)'
    <3>1. /\ batch'[q] = batch[q] /\ pc'[q] = pc[q] /\ index'[q] = index[q]
          /\ answers'[q] = answers[q]
      <4>1. ASSUME NEW replies \in Seq(AnswerType), batch[r] # <<>>, Advance(r, replies)
            PROVE  /\ batch'[q] = batch[q] /\ pc'[q] = pc[q] /\ index'[q] = index[q]
                   /\ answers'[q] = answers[q]
        BY <2>3, <4>1, AdvanceFacts DEF TypeOK
      <4>2. CASE KeepsOn(r) \/ Defers(r)
        BY <1>3, <4>1, <4>2 DEF KeepsOn, Defers
      <4>3. CASE Throws(r)
        BY <2>3, <4>3, ThrowFacts DEF Throws, TypeOK
      <4>4. CASE DispatchRequest(r) \/ Write(r)
        BY <2>3, <4>4 DEF DispatchRequest, Write, TypeOK, ReadersTyped
      <4> QED
        BY <1>8, <4>2, <4>3, <4>4, ReaderCases
    <3> QED
      BY <1>5, <2>1, <3>1
  <2>4. ASSUME NEW m \in MessageType, NEW a \in AnswerType, a.id = m.serial
        PROVE  /\ \A i \in DOMAIN <<a>> : <<a>>[i].id # NullId
               /\ <<a>> \in Seq(AnswerType)
    <3>1. DOMAIN <<a>> = {1} /\ <<a>>[1] = a
      OBVIOUS
    <3> QED
      BY <2>4, <3>1, BoundsAssumption DEF MessageType, Serials, NullId
  <2>5. ASSUME batch[r] # <<>>, Advance(r, <<>>) PROVE HasIds(r)'
    <3>1. PICK none \in Seq(AnswerType) : none = <<>>
      BY <1>3
    <3>2. Advance(r, none) /\ DOMAIN none = {}
      BY <1>3, <2>5, <3>1
    <3>3. HasIds(r) /\ \A i \in DOMAIN none : none[i].id # NullId
      BY <1>1, <3>2
    <3> QED
      BY <2>5, <3>2, <3>3, AdvanceHasIds
  <2>6. pc[r] \in {"dispatch", "call"} => batch[r] # <<>> /\ Message(r) \in MessageType
           /\ Message(r).serial \in 0 .. MaxMessages
    <3>1. ReadersTyped /\ (pc[r] \in {"dispatch", "call"} => batch[r] # <<>>)
      BY DEF TypeOK, ReadersTyped
    <3>2. \A m \in MessageType : m.serial \in 0 .. MaxMessages
      BY BoundsAssumption DEF MessageType, Serials
    <3> QED
      BY <3>1, <3>2, MessageFacts
  <2>7. CASE DispatchResponse(r)
    <3>1. HasIds(r)'
      BY <2>5, <2>6, <2>7, ThrowHasIds DEF DispatchResponse
    <3> QED
      BY <1>4, <2>2, <2>3, <2>7, <3>1 DEF DispatchResponse, PoolTasks, poolVars
  <2>8. ASSUME pc[r] \in {"dispatch", "call"}, NEW a \in AnswerType, a.id = Message(r).serial,
               Advance(r, IF isNotification(Message(r)) THEN <<>> ELSE <<a>>)
        PROVE  HasIds(r)'
    <3>1. CASE isNotification(Message(r))
      BY <2>5, <2>6, <2>8, <3>1
    <3>2. CASE ~isNotification(Message(r))
      <4>1. PICK s \in Seq(AnswerType) : s = <<a>>
        BY <2>4, <2>6, <2>8
      <4>2. Advance(r, s) /\ \A i \in DOMAIN s : s[i].id # NullId
        BY <2>4, <2>6, <2>8, <3>2, <4>1
      <4> QED
        BY <1>1, <2>6, <2>8, <4>2, AdvanceHasIds
    <3> QED
      BY <3>1, <3>2
  <2>9. CASE DispatchUnknown(r)
    <3> DEFINE a == [id |-> Message(r).serial, cause |-> "method", code |-> "MethodNotFound"]
    <3>1. a \in AnswerType /\ a.id = Message(r).serial /\ pc[r] = "dispatch"
      BY <2>6, <2>9 DEF DispatchUnknown, AnswerType
    <3>2. Advance(r, IF isNotification(Message(r)) THEN <<>> ELSE <<a>>)
      BY <2>9 DEF DispatchUnknown, MethodNotFound
    <3> HIDE DEF a
    <3>3. HasIds(r)'
      BY <2>8, <3>1, <3>2
    <3> QED
      BY <1>4, <2>2, <2>3, <2>9, <3>3 DEF DispatchUnknown, PoolTasks, poolVars
  <2>10. CASE DispatchRequest(r)
    <3>1. /\ pc' = [pc EXCEPT ![r] = "call"] /\ table[Message(r).method] # NoHandler
          /\ UNCHANGED <<batch, index, answers, captured, poolVars>>
      BY <2>10 DEF DispatchRequest
    <3>2. HasIds(r)'
      BY <1>1, <2>1, <3>1 DEF HasIds, Message
    <3> QED
      BY <1>4, <2>2, <2>3, <3>1, <3>2 DEF PoolTasks, poolVars
  <2>11. CASE CallFails(r)
    <3>1. PICK cause \in Errors : Advance(r, ErrorAnswer(Message(r), cause))
      BY <2>11 DEF CallFails
    <3> DEFINE a == [id |-> Message(r).serial, cause |-> cause, code |-> SyncCode(cause)]
    <3>2. a \in AnswerType /\ a.id = Message(r).serial /\ pc[r] = "call"
      BY <2>6, <2>11 DEF CallFails, AnswerType, SyncCode, Outcomes, Errors
    <3>3. Advance(r, IF isNotification(Message(r)) THEN <<>> ELSE <<a>>)
      BY <3>1 DEF ErrorAnswer
    <3> HIDE DEF a
    <3>4. HasIds(r)'
      BY <2>8, <3>2, <3>3
    <3> QED
      BY <1>4, <2>2, <2>3, <2>11, <3>4 DEF CallFails, PoolTasks, poolVars
  <2>12. CASE CallThrowsUnknown(r)
    BY <1>4, <2>2, <2>3, <2>12, ThrowHasIds DEF CallThrowsUnknown, PoolTasks, poolVars
  <2>13. CASE CallReturns(r)
    <3>1. PICK h \in Called(Message(r).method) : Advance(r, ValueAnswer(h.style, context[r][1]))
      BY <2>13 DEF CallReturns
    <3>2. pc[r] = "call" /\ "value" \in Outcomes \ {"unknown"}
      BY <2>13 DEF CallReturns, Outcomes
    <3>3. PICK s : s = ValueAnswer(h.style, context[r][1])
      OBVIOUS
    <3>4. s \in Seq(AnswerType)
      BY <3>2, <3>3, CallFacts, ValueFacts
    <3>5. \A i \in DOMAIN s : s[i].id # NullId
      <4>1. CASE Answers(h.style, context[r][1])
        <5> DEFINE a == [id |-> context[r][1], cause |-> "value", code |-> SyncCode("value")]
        <5>1. s = <<a>> /\ a.id = context[r][1]
          BY <3>3, <4>1 DEF ValueAnswer
        <5> HIDE DEF a
        <5>2. DOMAIN <<a>> = {1} /\ <<a>>[1] = a
          OBVIOUS
        <5> QED
          BY <3>2, <4>1, <5>1, <5>2, CalledHasId
      <4>2. CASE ~Answers(h.style, context[r][1])
        BY <1>3, <3>3, <4>2 DEF ValueAnswer
      <4> QED
        BY <4>1, <4>2
    <3>6. HasIds(r)'
      BY <1>1, <2>6, <3>1, <3>2, <3>3, <3>4, <3>5, AdvanceHasIds
    <3> QED
      BY <1>4, <2>2, <2>3, <2>13, <3>6 DEF CallReturns, PoolTasks, poolVars
  <2>14. CASE CallDefers(r)
    <3>1. PICK n : n = Message(r).serial
      OBVIOUS
    <3>2. PICK h \in Called(Message(r).method) :
            /\ captured' = [captured EXCEPT ![n] = <<[style |-> h.style, id |-> context[r][1]]>>]
            /\ Advance(r, <<>>)
      BY <2>14, <3>1 DEF CallDefers, CapturedId, DeferredReplies
    <3>3. pc[r] = "call" /\ Pool!Accept(n) /\ n \in Serials
      BY <2>14, <3>1, CallFacts DEF CallDefers
    <3>4. PoolTasks' = PoolTasks \union {n} /\ n \notin PoolTasks /\ PoolTasks \subseteq Serials
      BY <3>3, PoolFacts, OwedFacts DEF TypeOK
    <3>5. /\ captured'[n][1].style = h.style /\ captured'[n][1].id = context[r][1]
          /\ \A k \in PoolTasks : captured'[k] = captured[k]
      BY <3>2, <3>3, <3>4 DEF TypeOK, PoolTyped
    <3>6. Answers(h.style, context[r][1]) => context[r][1] # NullId
      BY <3>3, CalledHasId
    <3>7. PoolFits'
      BY <1>1, <3>4, <3>5, <3>6
    <3>8. HasIds(r)'
      BY <2>5, <2>6, <3>2, <3>3
    <3> QED
      BY <2>2, <2>3, <3>7, <3>8
  <2>15. CASE Write(r)
    <3>1. answers'[r] = <<>> /\ batch'[r] = batch[r] /\ pc'[r] # "call"
      BY <2>15 DEF Write, TypeOK, ReadersTyped
    <3>2. HasIds(r)'
      BY <1>1, <1>3, <3>1 DEF HasIds
    <3> QED
      BY <1>4, <2>2, <2>3, <2>15, <3>2 DEF Write, PoolTasks, poolVars
  <2>16. CASE WriteThrows(r)
    BY <1>4, <2>2, <2>3, <2>16, ThrowHasIds DEF WriteThrows, PoolTasks, poolVars
  <2> QED
    BY <1>8, <2>7, <2>9, <2>10, <2>11, <2>12, <2>13, <2>14, <2>15, <2>16 DEF ReaderStep
<1>9. ASSUME table' = table, UNCHANGED readerVars, captured' = captured,
             PoolTasks' \subseteq PoolTasks
      PROVE  TableFits' /\ PoolFits' /\ \A r \in Readers : HasIds(r)'
  BY <1>1, <1>5, <1>9 DEF readerVars
<1>10. CASE TaskStarts
  <2>1. PoolTasks' = PoolTasks
    BY <1>10, PoolFacts DEF TaskStarts, TypeOK
  <2> QED
    BY <1>9, <1>10, <2>1 DEF TaskStarts
<1>11. ASSUME NEW n \in Serials, TaskEnds(n)
       PROVE  TableFits' /\ PoolFits' /\ \A r \in Readers : HasIds(r)'
  <2>1. Pool!Finish(n) /\ UNCHANGED <<table, readerVars, captured>>
    BY <1>11 DEF TaskEnds, TaskAnswers, TaskEndsSilently, TaskThrows
  <2>2. PoolTasks' \subseteq PoolTasks
    BY <2>1, PoolFacts DEF TypeOK
  <2> QED
    BY <1>9, <2>1, <2>2
<1>12. CASE Destroy \/ PoolDrained \/ UNCHANGED vars
  <2>1. /\ table' = table /\ UNCHANGED readerVars /\ captured' = captured
        /\ poolQueue' = poolQueue /\ poolRunning' = poolRunning
    BY <1>12 DEF Destroy, PoolDrained, Pool!BeginDrain, Pool!EndDrain, vars, poolVars
  <2> QED
    BY <1>9, <2>1 DEF PoolTasks
<1>13. ASSUME NEW m \in Methods, addHandler(m) \/ remove(m)
       PROVE  TableFits' /\ PoolFits' /\ \A r \in Readers : HasIds(r)'
  <2>1. PICK h \in Offered[m] \union {NoHandler} : Change(m, h)
    BY <1>13 DEF addHandler, remove
  <2> QED
    BY <1>6, <2>1
<1> HIDE DEF TableFits, PoolFits
<1> QED
  BY <1>7, <1>8, <1>10, <1>11, <1>12, <1>13 DEF Next

-----------------------------------------------------------------------------
(* The refinement *)

\* The ids that are written, as a sequence.
LEMMA SentIdsFacts ==
    ASSUME TypeOK
    PROVE  /\ SentIds \in Seq(Nat) /\ Len(SentIds) = Len(outbox)
           /\ DOMAIN SentIds = DOMAIN outbox /\ DOMAIN outbox = 1 .. Len(outbox)
           /\ Len(outbox) \in Nat
           /\ \A i \in DOMAIN outbox : SentIds[i] = outbox[i].answer.id
<1>1. DOMAIN outbox = 1 .. Len(outbox) /\ Len(outbox) \in Nat
      /\ \A i \in 1 .. Len(outbox) : outbox[i] \in [answer : AnswerType, write : Nat]
  BY LenProperties, ElementOfSeq DEF TypeOK
<1>2. \A i \in 1 .. Len(outbox) : outbox[i].answer.id \in Nat
  BY <1>1, BoundsAssumption DEF AnswerType
<1>3. SentIds \in [1 .. Len(outbox) -> Nat]
  BY <1>1, <1>2 DEF SentIds
<1>4. SentIds \in Seq(Nat)
  BY <1>1, <1>3, SeqDef
<1> QED
  BY <1>1, <1>3, <1>4, LenProperties DEF SentIds

\* One write is one answer, or those of a batch, of the exchange.
LEMMA SendsAnswer ==
    ASSUME TypeOK, TypeOK', AnswersHaveIds, Sends
    PROVE  Exchange!Answer
<1>1. PICK s \in Seq(AnswerType) :
        /\ Written(s) /\ s # <<>> /\ abandoned' = abandoned
        /\ \/ \E r \in Readers : s = answers[r]
           \/ \E n \in PoolTasks : /\ Answers(captured[n][1].style, captured[n][1].id)
                                   /\ \A i \in DOMAIN s : s[i].id = captured[n][1].id
        /\ Settles({s[i].id : i \in DOMAIN s} \ {NullId})
        /\ \A i, j \in DOMAIN s : i # j /\ s[i].id # NullId => s[i].id # s[j].id
  BY DEF Sends
<1>2. \A i \in DOMAIN s : s[i].id # NullId
  BY <1>1 DEF AnswersHaveIds
<1>3. PICK k \in Nat : k = Len(outbox)
  BY SentIdsFacts
<1>4. PICK n \in Nat : n = Len(s) /\ n > 0 /\ DOMAIN s = 1 .. n
  BY <1>1, LenProperties, EmptySeq
<1>5. /\ DOMAIN outbox' = 1 .. k + n /\ DOMAIN outbox = 1 .. k
      /\ \A i \in 1 .. k : outbox'[i] = outbox[i]
      /\ \A i \in 1 .. n : outbox'[k + i].answer = s[i]
  BY <1>1, <1>3, <1>4, WrittenFacts DEF TypeOK
<1>6. PICK new : new = SentIds'
  OBVIOUS
<1>7. /\ new \in Seq(Nat) /\ Len(new) = k + n
      /\ \A i \in 1 .. k + n : new[i] = outbox'[i].answer.id
  <2>1. (/\ SentIds \in Seq(Nat) /\ Len(SentIds) = Len(outbox)
         /\ \A i \in DOMAIN outbox : SentIds[i] = outbox[i].answer.id)'
    BY SentIdsFacts, PTL
  <2>2. Len(outbox') = k + n
    BY <1>1, <1>3, <1>4, WrittenFacts DEF TypeOK
  <2> QED
    BY <1>5, <1>6, <2>1, <2>2
<1>8. SentIds \in Seq(Nat) /\ Len(SentIds) = k
      /\ \A i \in 1 .. k : SentIds[i] = outbox[i].answer.id
  BY <1>3, <1>5, SentIdsFacts
<1>9. \A i \in 1 .. k : new[i] = SentIds[i]
  <2>1. \A i \in 1 .. k : i \in 1 .. k + n
    OBVIOUS
  <2>2. \A i \in 1 .. k : new[i] = outbox[i].answer.id
    BY <1>5, <1>7, <2>1
  <2> QED
    BY <1>8, <2>2
<1>10. SubSeq(new, 1, k) = SentIds
  <2>1. PICK head : head = SubSeq(new, 1, k)
    OBVIOUS
  <2>2. /\ head \in Seq(Nat) /\ Len(head) = k
        /\ \A i \in 1 .. k : head[i] = new[i]
    <3>1. 1 .. k \subseteq 1 .. Len(new)
      BY <1>7
    <3>2. \A i \in 1 .. k : new[i] \in Nat
      BY <1>7, <3>1, ElementOfSeq
    <3>3. /\ SubSeq(new, 1, k) \in Seq(Nat)
          /\ Len(SubSeq(new, 1, k)) = IF 1 <= k THEN k - 1 + 1 ELSE 0
          /\ \A i \in 1 .. k - 1 + 1 : SubSeq(new, 1, k)[i] = new[1 + i - 1]
      BY <3>2, SubSeqProperties
    <3>4. k - 1 + 1 = k /\ \A i \in 1 .. k : 1 + i - 1 = i
      OBVIOUS
    <3>5. 1 <= k \/ k = 0
      OBVIOUS
    <3> QED
      BY <2>1, <3>3, <3>4, <3>5
  <2> QED
    BY <1>8, <1>9, <2>1, <2>2, SeqEqual
<1>11. \A i \in 1 .. n : new[k + i] = s[i].id
  <2>1. \A i \in 1 .. n : k + i \in 1 .. k + n
    OBVIOUS
  <2> QED
    BY <1>5, <1>7, <2>1
<1>12. PICK ids : ids = {new[i] : i \in k + 1 .. k + n}
  OBVIOUS
<1>13. ids = {s[i].id : i \in DOMAIN s}
  <2>1. \A i \in k + 1 .. k + n : i - k \in 1 .. n /\ new[i] = s[i - k].id
    <3>1. ASSUME NEW i \in k + 1 .. k + n PROVE i - k \in 1 .. n /\ k + (i - k) = i
      BY <3>1
    <3> QED
      BY <1>11, <3>1
  <2>2. \A i \in 1 .. n : k + i \in k + 1 .. k + n /\ new[k + i] = s[i].id
    BY <1>11
  <2>3. ASSUME NEW i \in k + 1 .. k + n PROVE new[i] \in {s[j].id : j \in 1 .. n}
    BY <2>1
  <2>4. ASSUME NEW i \in 1 .. n PROVE s[i].id \in {new[j] : j \in k + 1 .. k + n}
    BY <2>2
  <2> QED
    BY <1>4, <1>12, <2>3, <2>4
<1>14. ids \subseteq Owed /\ Owed' = Owed \ ids
  <2>1. NullId \notin ids
    BY <1>2, <1>13
  <2> QED
    BY <1>1, <1>13, <2>1 DEF Settles
<1>15. ASSUME NEW i \in k + 1 .. k + n, NEW j \in k + 1 .. k + n, new[i] = new[j] PROVE i = j
  <2>1. i - k \in 1 .. n /\ j - k \in 1 .. n /\ k + (i - k) = i /\ k + (j - k) = j
    OBVIOUS
  <2>2. new[i] = s[i - k].id /\ new[j] = s[j - k].id
    BY <1>11, <2>1
  <2>3. i - k = j - k
    BY <1>1, <1>2, <1>4, <1>15, <2>1, <2>2
  <2> QED
    BY <2>1, <2>3
<1>16. n \in 1 .. Len(new)
  BY <1>4, <1>7
<1> QED
  BY <1>1, <1>6, <1>7, <1>8, <1>10, <1>12, <1>14, <1>15, <1>16 DEF Exchange!Answer

\* Seen by the peer, the readers and the pool together keep the exchange: requests are
\* owed an answer when they are read, answered once each with their own ids, a batch at
\* once, or given up.
THEOREM ExchangeKept == QuietPeer => (Spec => ImplementsExchange)
<1> SUFFICES ASSUME QuietPeer PROVE Spec => ImplementsExchange
  OBVIOUS
<1> DEFINE Inv == IInv /\ AnswersHaveIds
<1>1. Init => Inv /\ Exchange!Init
  <2> SUFFICES ASSUME Init PROVE AnswersHaveIds /\ Exchange!Init
    BY IInvInit
  <2>1. DOMAIN <<>> = {}
    OBVIOUS
  <2>2. PoolTasks = {}
    BY <2>1 DEF Init, Pool!Init, PoolTasks
  <2>3. AnswersHaveIds
    BY <2>1, <2>2 DEF Init, AnswersHaveIds, Silent
  <2>4. TypeOK
    BY IInvInit DEF IInv
  <2>5. Owed = {}
    <3>1. ASSUME NEW r \in Readers PROVE Rest(r) = {} /\ Held(r) = {}
      <4>1. batch[r] = <<>> /\ answers[r] = <<>> /\ index[r] = 1 /\ Len(<<>>) = 0
        BY DEF Init
      <4>2. 1 .. 0 = {}
        OBVIOUS
      <4> QED
        BY <2>1, <4>1, <4>2 DEF Rest, Held
    <3> QED
      BY <2>2, <2>4, <3>1, OwedIs DEF Owes, InPool
  <2>6. SentIds = <<>>
    <3>1. outbox = <<>> /\ Len(<<>>) = 0
      BY DEF Init
    <3> QED
      BY <2>4, <3>1, SentIdsFacts, EmptySeq
  <2> QED
    BY <2>3, <2>5, <2>6 DEF Init, Exchange!Init
<1>2. Inv /\ [Next]_vars => Inv' /\ [Exchange!Next]_(Exchange!vars)
  <2> SUFFICES ASSUME IInv, AnswersHaveIds, [Next]_vars
               PROVE  Inv' /\ [Exchange!Next]_(Exchange!vars)
    OBVIOUS
  <2>1. Inv'
    BY IInvStep, IdsStep DEF IInv
  <2>2. TypeOK /\ TypeOK'
    BY <2>1 DEF IInv
  <2>3. CASE Reads
    <3>1. PICK new \in SUBSET Serials :
            /\ new \intersect 1 .. received = {} /\ Owed' = Owed \union new
            /\ outbox' = outbox /\ abandoned' = abandoned
      BY <2>3 DEF Reads
    <3>2. /\ Owed \subseteq 1 .. received /\ abandoned \subseteq 1 .. received
          /\ \A i \in DOMAIN SentIds : SentIds[i] \in {NullId} \union 1 .. received
      BY OwedFacts, SentIdsFacts DEF IInv, Separate, Sent
    <3>3. NullId \notin Serials
      BY BoundsAssumption DEF Serials, NullId
    <3>4. new \in SUBSET (Serials \ (Owed \union abandoned \union Exchange!Answered))
      BY <3>1, <3>2, <3>3 DEF Exchange!Answered
    <3>5. SentIds' = SentIds
      BY <3>1 DEF SentIds
    <3> QED
      BY <2>1, <3>1, <3>4, <3>5 DEF Exchange!Next, Exchange!Receive
  <2>4. CASE Sends
    BY <2>1, <2>2, <2>4, SendsAnswer DEF Exchange!Next
  <2>5. CASE GivesUp
    <3>1. PICK lost : /\ lost \subseteq Owed /\ Owed' = Owed \ lost
                      /\ abandoned' = abandoned \union lost /\ outbox' = outbox
      BY <2>5 DEF GivesUp, Settles
    <3>2. SentIds' = SentIds
      BY <3>1 DEF SentIds
    <3> QED
      BY <2>1, <3>1, <3>2 DEF Exchange!Next, Exchange!GiveUp
  <2> QED
    BY <2>2, <2>3, <2>4, <2>5, OwedSteps DEF IInv
<1> QED
  BY <1>1, <1>2, PTL DEF Spec, ImplementsExchange, Exchange!Spec
=============================================================================
