-------------------------- MODULE IncomingRequests --------------------------
(***************************************************************************)
(* The receiving half of lsp::MessageHandler: processIncomingMessages,     *)
(* processRequest, the wrappers that add() puts around callbacks, and the  *)
(* tasks they leave to the thread pool (src/lsp/messagehandler.cpp, .inl). *)
(*                                                                         *)
(* Readers are the threads in processIncomingMessages.  A message is known *)
(* by its position in the input, which also stands for its id when it is a *)
(* request; NullId is the null id of a notification.  The thread pool is   *)
(* the one TaskPool specifies.                                             *)
(***************************************************************************)
EXTENDS Integers, Sequences

CONSTANTS
    Readers,           \* threads calling processIncomingMessages
    Methods,           \* method strings
    InitialHandlers,   \* handlers added before the first message is read
    Offered,           \* handlers that may be added later
    Forms,             \* messages the peer sends
    MaxMessages,       \* bound on the messages read
    MaxBatch,          \* bound on the messages of a batch
    MaxChanges,        \* bound on the handlers added or removed later
    MaxWriteFailures,  \* bound on the writes that throw
    QuietChanges       \* TRUE: a handler in use is neither replaced nor removed

Serials == 1 .. MaxMessages
NullId == 0

\* How a wrapper answers: always, unless the message is a notification, or never.
Styles == {"request", "generic", "notification"}
Handlers == [style : Styles, async : BOOLEAN]
NoHandler == [style |-> "none", async |-> FALSE]

ASSUME InitialHandlersAssumption ==
    InitialHandlers \in [Methods -> Handlers \union {NoHandler}]
ASSUME OfferedAssumption == Offered \in [Methods -> SUBSET Handlers]
ASSUME FormsAssumption ==
    Forms \subseteq [kind : {"request", "notification", "response"}, method : Methods]
ASSUME BoundsAssumption ==
    /\ MaxMessages \in Nat /\ MaxBatch \in Nat
    /\ MaxChanges \in Nat /\ MaxWriteFailures \in Nat
    /\ QuietChanges \in BOOLEAN

\* No wrapper of method m answers a notification.
Silent(m) ==
    /\ InitialHandlers[m].style # "request"
    /\ \A h \in Offered[m] : h.style # "request"

\* The peer sends notifications to such methods only, and a handler is neither
\* replaced nor removed between its lookup and its call.
QuietPeer ==
    /\ QuietChanges
    /\ \A f \in Forms : f.kind = "notification" => Silent(f.method)

\* What a callback, or the future it returned, ends with.  "unknown" is an
\* exception that is not a std::exception.
Errors == {"RequestError", "TypeError", "exception"}
Outcomes == {"value", "unknown"} \union Errors

VARIABLES
    table,        \* m_requestHandlersByMethod
    pc,           \* where each reader is
    batch,        \* the messages the reader got from readMessage
    allowAsync,   \* TRUE for a message that is not in a batch
    index,        \* the message of the batch being processed
    context,      \* t_currentRequestId of the reader: <<>> or <<id>>
    answers,      \* responseBatch, or the one optionalResponse
    captured,     \* what the pool's tasks captured: style and id
    poolQueue, poolRunning, poolOutcome, poolDraining,   \* m_threadPool
    destroyed,    \* the destructor has returned
    outbox,       \* the answers written, each with the write it went out with
    received,     \* messages read so far
    origin,       \* first message of the batch a message came in
    abandoned,    \* requests that will not be answered
    changes, failures

poolVars == <<poolQueue, poolRunning, poolOutcome, poolDraining>>
readerVars == <<pc, batch, allowAsync, index, context, answers>>
boundVars == <<changes, failures>>
vars == <<table, readerVars, captured, poolVars, destroyed, outbox, received,
          origin, abandoned, boundVars>>

Pool == INSTANCE TaskPool WITH
    Tasks <- Serials,
    queue <- poolQueue,
    running <- poolRunning,
    outcome <- poolOutcome,
    draining <- poolDraining

Init ==
    /\ table = InitialHandlers
    /\ pc = [r \in Readers |-> "idle"]
    /\ batch = [r \in Readers |-> <<>>]
    /\ allowAsync = [r \in Readers |-> FALSE]
    /\ index = [r \in Readers |-> 1]
    /\ context = [r \in Readers |-> <<>>]
    /\ answers = [r \in Readers |-> <<>>]
    /\ captured = [n \in Serials |-> <<>>]
    /\ Pool!Init
    /\ destroyed = FALSE
    /\ outbox = <<>>
    /\ received = 0
    /\ origin = [n \in Serials |-> 0]
    /\ abandoned = {}
    /\ changes = 0
    /\ failures = 0

-----------------------------------------------------------------------------
(* Registering handlers *)

\* The reader is between the lookup of the handler for m and its return.
Dispatching(m) == \E r \in Readers : pc[r] = "call" /\ batch[r][index[r]].method = m

Change(m, h) ==
    /\ changes < MaxChanges /\ ~poolDraining /\ ~destroyed
    /\ QuietChanges => ~Dispatching(m)
    /\ table' = [table EXCEPT ![m] = h]
    /\ changes' = changes + 1
    /\ UNCHANGED <<readerVars, captured, poolVars, destroyed, outbox, received,
                   origin, abandoned, failures>>

addHandler(m) == \E h \in Offered[m] : Change(m, h)
remove(m) == table[m] # NoHandler /\ Change(m, NoHandler)

-----------------------------------------------------------------------------
(* processIncomingMessages *)

\* readMessage returned a message (single) or a batch.
readMessage(r) ==
    /\ pc[r] = "idle" /\ ~poolDraining /\ ~destroyed
    /\ \E size \in 1 .. MaxBatch, single \in BOOLEAN :
          /\ single => size = 1
          /\ received + size <= MaxMessages
          /\ \E forms \in [1 .. size -> Forms] :
                batch' = [batch EXCEPT ![r] =
                    [i \in 1 .. size |-> [serial |-> received + i,
                                          kind |-> forms[i].kind,
                                          method |-> forms[i].method]]]
          /\ allowAsync' = [allowAsync EXCEPT ![r] = single]
          /\ origin' = [n \in Serials |->
                IF n \in received + 1 .. received + size THEN received + 1 ELSE origin[n]]
          /\ received' = received + size
    /\ index' = [index EXCEPT ![r] = 1]
    /\ answers' = [answers EXCEPT ![r] = <<>>]
    /\ pc' = [pc EXCEPT ![r] = "dispatch"]
    /\ UNCHANGED <<table, context, captured, poolVars, destroyed, outbox,
                   abandoned, boundVars>>

Message(r) == batch[r][index[r]]
isNotification(m) == m.kind = "notification"
IdOf(m) == IF isNotification(m) THEN NullId ELSE m.serial
RequestsIn(s) == {s[i].serial : i \in {j \in DOMAIN s : s[j].kind = "request"}}

\* Mutant of More: only the first message of a batch.
NoMore(r) == FALSE

More(r) == index[r] < Len(batch[r])

\* The current message is done, leaving the answers in replies: go on with the
\* batch, write what was collected, or return.
Advance(r, replies) ==
    /\ answers' = [answers EXCEPT ![r] = @ \o replies]
    /\ IF More(r)
          THEN /\ index' = [index EXCEPT ![r] = @ + 1]
               /\ pc' = [pc EXCEPT ![r] = "dispatch"]
               /\ UNCHANGED <<batch, allowAsync>>
          ELSE /\ pc' = [pc EXCEPT ![r] = IF answers'[r] = <<>> THEN "idle" ELSE "write"]
               /\ batch' = [batch EXCEPT ![r] = <<>>]
               /\ UNCHANGED <<index, allowAsync>>

\* The requests a reader still has to answer, itself or through the pool.
InBatch(r) == RequestsIn(SubSeq(batch[r], index[r], Len(batch[r])))
InAnswers(r) == {answers[r][i].id : i \in DOMAIN answers[r]}

\* An exception leaves processIncomingMessages: the rest of the batch is not
\* processed and the answers collected so far are destroyed.
Throw(r) ==
    /\ abandoned' = abandoned \union InBatch(r) \union (InAnswers(r) \ {NullId})
    /\ answers' = [answers EXCEPT ![r] = <<>>]
    /\ batch' = [batch EXCEPT ![r] = <<>>]
    /\ pc' = [pc EXCEPT ![r] = "idle"]
    /\ UNCHANGED <<index, allowAsync>>

\* Mutant of ClearContext: the pointer stays.
KeepContext(r) == UNCHANGED context

ClearContext(r) == context' = [context EXCEPT ![r] = <<>>]

\* processResponse: an exception of the callback is passed on.
DispatchResponse(r) ==
    /\ pc[r] = "dispatch" /\ Message(r).kind = "response"
    /\ \/ Advance(r, <<>>) /\ UNCHANGED abandoned
       \/ Throw(r)
    /\ UNCHANGED <<table, context, captured, poolVars, destroyed, outbox,
                   received, origin, boundVars>>

MethodNotFound(m) ==
    IF isNotification(m) THEN <<>>
    ELSE <<[id |-> m.serial, cause |-> "method", code |-> "MethodNotFound"]>>

DispatchUnknown(r) ==
    /\ pc[r] = "dispatch" /\ Message(r).kind # "response"
    /\ table[Message(r).method] = NoHandler
    /\ Advance(r, MethodNotFound(Message(r)))
    /\ UNCHANGED <<table, context, captured, poolVars, destroyed, outbox,
                   received, origin, abandoned, boundVars>>

\* The handler is found and the context set; the mutex is released before the call.
DispatchRequest(r) ==
    /\ pc[r] = "dispatch" /\ Message(r).kind # "response"
    /\ table[Message(r).method] # NoHandler
    /\ context' = [context EXCEPT ![r] = <<IdOf(Message(r))>>]
    /\ pc' = [pc EXCEPT ![r] = "call"]
    /\ UNCHANGED <<table, batch, allowAsync, index, answers, captured, poolVars,
                   destroyed, outbox, received, origin, abandoned, boundVars>>

-----------------------------------------------------------------------------
(* The call of the handler, up to the end of processRequest *)

\* The call goes through the iterator of the lookup.  A replaced entry runs the
\* new callback; an erased one is freed memory, and any callback may run.
Called(m) == IF table[m] = NoHandler THEN Handlers ELSE {table[m]}

\* processRequest's catch clauses; a notification's errors are not answered.
SyncCode(cause) ==
    CASE cause = "value" -> "result"
      [] cause = "RequestError" -> "RequestErrorWithData"
      [] cause = "TypeError" -> "InvalidParams"
      [] cause = "exception" -> "InternalError"

ErrorAnswer(m, cause) ==
    IF isNotification(m) THEN <<>>
    ELSE <<[id |-> m.serial, cause |-> cause, code |-> SyncCode(cause)]>>

\* The answer of a wrapper whose callback returned: request wrappers always make
\* one, generic ones unless the id is null, notification wrappers never.
Answers(style, id) ==
    \/ style = "request"
    \/ style = "generic" /\ id # NullId

ValueAnswer(style, id) ==
    IF Answers(style, id)
    THEN <<[id |-> id, cause |-> "value", code |-> SyncCode("value")]>>
    ELSE <<>>

\* Mutant of Deferred: batches, too.
DeferredInBatch(r, h) == h.async

\* The future is handed to the pool.
Deferred(r, h) == h.async /\ allowAsync[r]

CallFails(r) ==
    /\ pc[r] = "call"
    /\ \E cause \in Errors : Advance(r, ErrorAnswer(Message(r), cause))
    /\ ClearContext(r)
    /\ UNCHANGED <<table, captured, poolVars, destroyed, outbox, received, origin,
                   abandoned, boundVars>>

CallThrowsUnknown(r) ==
    /\ pc[r] = "call"
    /\ Throw(r)
    /\ ClearContext(r)
    /\ UNCHANGED <<table, captured, poolVars, destroyed, outbox, received, origin,
                   boundVars>>

\* currentRequestId() gives the id of the answer.
CallReturns(r) ==
    /\ pc[r] = "call"
    /\ \E h \in Called(Message(r).method) :
          LET replies == ValueAnswer(h.style, context[r][1])
          IN  /\ ~Deferred(r, h)
              /\ Advance(r, replies)
              /\ abandoned' = IF replies = <<>>
                              THEN abandoned \union RequestsIn(<<Message(r)>>)
                              ELSE abandoned
    /\ ClearContext(r)
    /\ UNCHANGED <<table, captured, poolVars, destroyed, outbox, received, origin,
                   boundVars>>

\* Mutant of DeferredReplies: the wrapper answers although the task will.
RepliesAtOnce(style, id) == ValueAnswer(style, id)

DeferredReplies(style, id) == <<>>

\* Mutant of CapturedId: the id is looked up when it is gone.
LostId(r) == NullId

CapturedId(r) == context[r][1]

\* The task captures a copy of the id, and the wrapper returns no answer.
CallDefers(r) ==
    /\ pc[r] = "call"
    /\ \E h \in Called(Message(r).method) :
          LET id == CapturedId(r)
          IN  /\ Deferred(r, h)
              /\ captured' = [captured EXCEPT ![Message(r).serial] =
                                 <<[style |-> h.style, id |-> id]>>]
              /\ abandoned' = IF Answers(h.style, id) THEN abandoned
                              ELSE abandoned \union RequestsIn(<<Message(r)>>)
              /\ Advance(r, DeferredReplies(h.style, id))
    /\ Pool!Accept(Message(r).serial)
    /\ ClearContext(r)
    /\ UNCHANGED <<table, destroyed, outbox, received, origin, boundVars>>

-----------------------------------------------------------------------------
(* Writing the answers *)

\* One write puts s on the stream; it is known by what was written before it.
Written(s) ==
    outbox' = outbox \o [i \in DOMAIN s |-> [answer |-> s[i], write |-> Len(outbox)]]

Write(r) ==
    /\ pc[r] = "write"
    /\ Written(answers[r])
    /\ answers' = [answers EXCEPT ![r] = <<>>]
    /\ pc' = [pc EXCEPT ![r] = "idle"]
    /\ UNCHANGED <<table, batch, allowAsync, index, context, captured, poolVars,
                   destroyed, received, origin, abandoned, boundVars>>

WriteThrows(r) ==
    /\ pc[r] = "write"
    /\ failures < MaxWriteFailures
    /\ failures' = failures + 1
    /\ Throw(r)
    /\ UNCHANGED <<table, context, captured, poolVars, destroyed, outbox, received,
                   origin, changes>>

-----------------------------------------------------------------------------
(* The pool's tasks *)

TaskStarts ==
    /\ Pool!Start
    /\ UNCHANGED <<table, readerVars, captured, destroyed, outbox, received, origin,
                   abandoned, boundVars>>

\* createResponseFromAsyncResult
AsyncCode(cause) ==
    CASE cause = "value" -> "result"
      [] cause = "RequestError" -> "RequestErrorNoData"
      [] OTHER -> "InternalError"

\* The task got its future's result and answers, if the message has an answer.
TaskAnswers(n) ==
    /\ Pool!Finish(n)
    /\ \E cause \in Outcomes \ {"unknown"} :
          LET c == captured[n][1]
          IN  /\ Answers(c.style, c.id)
              /\ Written(<<[id |-> c.id, cause |-> cause, code |-> AsyncCode(cause)]>>)
    /\ poolOutcome'[n] = "value"
    /\ UNCHANGED <<table, readerVars, captured, destroyed, received, origin,
                   abandoned, boundVars>>

\* Nothing to send: a notification is done, or its future threw into the promise.
TaskEndsSilently(n) ==
    /\ Pool!Finish(n)
    /\ ~Answers(captured[n][1].style, captured[n][1].id)
    /\ UNCHANGED <<table, readerVars, captured, destroyed, outbox, received, origin,
                   abandoned, boundVars>>

\* The future threw something else than a std::exception, or the write threw:
\* the exception ends in the task's promise, which nobody reads.
TaskThrows(n) ==
    /\ Pool!Finish(n)
    /\ poolOutcome'[n] = "exception"
    /\ Answers(captured[n][1].style, captured[n][1].id)
    /\ abandoned' = abandoned \union ({captured[n][1].id} \ {NullId})
    /\ \/ UNCHANGED failures
       \/ failures < MaxWriteFailures /\ failures' = failures + 1
    /\ UNCHANGED <<table, readerVars, captured, destroyed, outbox, received, origin,
                   changes>>

-----------------------------------------------------------------------------
(* ~MessageHandler: no thread is in processIncomingMessages, and the pool is    *)
(* drained by its destructor.                                                   *)

Destroy ==
    /\ \A r \in Readers : pc[r] = "idle"
    /\ ~destroyed
    /\ Pool!BeginDrain
    /\ UNCHANGED <<table, readerVars, captured, destroyed, outbox, received, origin,
                   abandoned, boundVars>>

\* Mutant of PoolDrained: the destructor does not wait for the pool.
DestroyedEarly ==
    /\ poolDraining
    /\ poolDraining' = FALSE
    /\ destroyed' = TRUE
    /\ UNCHANGED <<table, readerVars, captured, poolQueue, poolRunning, poolOutcome,
                   outbox, received, origin, abandoned, boundVars>>

PoolDrained ==
    /\ Pool!EndDrain
    /\ destroyed' = TRUE
    /\ UNCHANGED <<table, readerVars, captured, outbox, received, origin, abandoned,
                   boundVars>>

-----------------------------------------------------------------------------
ReaderStep(r) ==
    \/ DispatchResponse(r) \/ DispatchUnknown(r) \/ DispatchRequest(r)
    \/ CallFails(r) \/ CallThrowsUnknown(r) \/ CallReturns(r) \/ CallDefers(r)
    \/ Write(r) \/ WriteThrows(r)

TaskEnds(n) == TaskAnswers(n) \/ TaskEndsSilently(n) \/ TaskThrows(n)

Next ==
    \/ \E m \in Methods : addHandler(m) \/ remove(m)
    \/ \E r \in Readers : readMessage(r) \/ ReaderStep(r)
    \/ TaskStarts
    \/ \E n \in Serials : TaskEnds(n)
    \/ Destroy
    \/ PoolDrained

\* Callbacks and futures complete, and every thread that can run does.
Fairness ==
    /\ \A r \in Readers : WF_vars(ReaderStep(r))
    /\ WF_vars(TaskStarts)
    /\ \A n \in Serials : WF_vars(TaskEnds(n))
    /\ WF_vars(PoolDrained)

Spec == Init /\ [][Next]_vars
FairSpec == Spec /\ Fairness

-----------------------------------------------------------------------------
(* Invariants *)

PoolTasks == poolRunning \union {poolQueue[i] : i \in DOMAIN poolQueue}

AnswerType ==
    [id : 0 .. MaxMessages, cause : Outcomes \union {"method"},
     code : {"result", "RequestErrorWithData", "RequestErrorNoData",
             "InvalidParams", "InternalError", "MethodNotFound"}]

MessageType ==
    [serial : Serials, kind : {"request", "notification", "response"}, method : Methods]

CapturedType == [style : Styles, id : 0 .. MaxMessages]

\* A reader has a batch while it processes one, and answers while it writes them.
ReadersTyped ==
    /\ pc \in [Readers -> {"idle", "dispatch", "call", "write"}]
    /\ batch \in [Readers -> Seq(MessageType)]
    /\ allowAsync \in [Readers -> BOOLEAN]
    /\ index \in [Readers -> Nat \ {0}]
    /\ answers \in [Readers -> Seq(AnswerType)]
    /\ \A r \in Readers :
          /\ pc[r] \in {"dispatch", "call"} <=> batch[r] # <<>>
          /\ batch[r] # <<>> => index[r] \in DOMAIN batch[r]
          /\ pc[r] = "idle" => answers[r] = <<>>
          /\ pc[r] = "write" => answers[r] # <<>>

PoolTyped ==
    /\ captured \in [Serials -> {<<>>} \union {<<c>> : c \in CapturedType}]
    /\ poolQueue \in Seq(Serials) /\ poolRunning \subseteq Serials
    /\ poolOutcome \in [Serials -> {"none"} \union Pool!Outcomes]
    /\ poolDraining \in BOOLEAN
    /\ \A n \in PoolTasks : captured[n] # <<>>

TypeOK ==
    /\ table \in [Methods -> Handlers \union {NoHandler}]
    /\ ReadersTyped /\ PoolTyped
    /\ context \in [Readers -> {<<>>} \union {<<id>> : id \in 0 .. MaxMessages}]
    /\ destroyed \in BOOLEAN
    /\ outbox \in Seq([answer : AnswerType, write : Nat])
    /\ received \in 0 .. MaxMessages
    /\ origin \in [Serials -> 0 .. MaxMessages]
    /\ abandoned \subseteq Serials
    /\ changes \in 0 .. MaxChanges /\ failures \in 0 .. MaxWriteFailures

\* currentRequestId() has a value exactly inside a handler, and it is the id of
\* the message being handled: processRequest and processResponse assert that it
\* is clear when they start, however the previous handler ended.
ContextOnlyInHandler ==
    \A r \in Readers :
        context[r] = IF pc[r] = "call" THEN <<IdOf(Message(r))>> ELSE <<>>

\* What is sent answers a request that was read: nothing else has an answer.
SentIds == [i \in DOMAIN outbox |-> outbox[i].answer.id]

\* Requests read and neither answered nor given up.
Owed ==
    (UNION {InBatch(r) : r \in {q \in Readers : batch[q] # <<>>}})
        \union (UNION {InAnswers(r) \ {NullId} : r \in Readers})
        \union ({captured[n][1].id : n \in {t \in PoolTasks :
                    Answers(captured[t][1].style, captured[t][1].id)}} \ {NullId})

\* A request is settled in one way only: it is owed, answered or given up.
\* Answering it in the reader and again in a task, or answering what was given
\* up when a batch was aborted, would break it.
SettledOnce ==
    /\ Owed \intersect abandoned = {}
    /\ \A i \in DOMAIN SentIds :
          /\ SentIds[i] \notin Owed \union abandoned
          /\ \A j \in DOMAIN SentIds : i # j /\ SentIds[i] # NullId => SentIds[i] # SentIds[j]

\* The answers of a batch are written together, in the order of its requests, whoever
\* else writes: no request of a batch is left to the pool, and its answers are not
\* spread over several writes.
BatchAnsweredInOrder ==
    \A i, j \in DOMAIN outbox :
        LET x == SentIds[i]
            y == SentIds[j]
        IN  (x # NullId /\ y # NullId /\ x < y /\ origin[x] = origin[y])
                => i < j /\ outbox[i].write = outbox[j].write

\* The destructor returns only when every answer it left to the pool is settled.
NothingOwedWhenDestroyed == destroyed => Owed = {}

-----------------------------------------------------------------------------
(* Refinement and liveness *)

Exchange == INSTANCE RequestExchange WITH
    Requests <- Serials,
    owed <- Owed,
    sent <- SentIds,
    givenUp <- abandoned

\* Seen by the peer, the readers and the pool keep the exchange: every answer is
\* to a request still owed one.
ImplementsExchange == Exchange!Spec

\* Every request read is answered or given up, be it left to the pool, too.
RequestsAreSettled ==
    \A n \in Serials :
        n \in Owed ~> n \in abandoned \/ \E i \in DOMAIN SentIds : SentIds[i] = n
=============================================================================
