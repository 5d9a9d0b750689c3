# A TLA+ model of lsp-framework

`lsp-framework` is a C++ library for language servers and clients: JSON-RPC 2.0
over an `io::Stream`, with handlers for incoming messages, requests to the other
side and a pool of threads for asynchronous handlers. This directory models its
core in TLA+, checks the model with TLC and proves the most important facts about
it with TLAPS. All source references are to `src/`.

- [The system](#the-system)
- [Modules](#modules)
- [The models and the code](#the-models-and-the-code)
- [Runs](#runs)
- [Fairness](#fairness)
- [Proofs](#proofs)
- [What the model found](#what-the-model-found)
- [What is left out](#what-is-left-out)
- [Plan](#plan)

## The system

| component | state | operations | talks to |
|---|---|---|---|
| `ThreadPool` (`lsp/threadpool.*`) | flag `m_waitForNewTasks`, queue of tasks, vector of threads, one mutex, one condition variable | `addTask`, the workers' loop, `waitUntilFinished` (also the destructor) | runs the tasks of the message handler |
| `MessageHandler`, incoming (`lsp/messagehandler.*`) | table of handlers with its mutex, thread-local `t_currentRequestId`, tasks left to the pool | `add`, `remove`, `processIncomingMessages`, `processRequest`, the wrappers `add` makes | `Connection`, `ThreadPool`, user callbacks |
| `MessageHandler`, outgoing | the global request counter, map of pending requests with its mutex, result objects | `sendRequest` (5 overloads), `sendNotification`, `processResponse` | `Connection`, futures and callbacks of the user |
| `Connection` (`lsp/connection.*`) | a read mutex and a write mutex, local state of a `readMessage` | `readMessage`, `writeMessage` | `io::Stream`, JSON-RPC codec |
| JSON-RPC codec (`lsp/jsonrpc/*`) | none | `create...`, `messageToJson`, `messageFromJson` and the batch versions | `Connection` |
| streams (`lsp/io/*`, `Process::Impl`) | descriptors | `read`, `write` | the operating system |
| `Process` (`lsp/process.*`) | pid, two descriptors | `start`, `isRunning`, `wait`, `terminate` | the operating system |
| JSON (`lsp/json/*`) | the parser's position and stack | `parse`, `stringify`, string literals | codec, serialization |
| serialization (`lsp/serialization.h`, `nullable.h`, `strmap.h`) | none | `toJson`, `fromJson` of the message types | typed handlers and requests |
| `Uri` (`lsp/uri.*`) | text and the positions of its parts | `parse`, getters, setters, `encode`, `decode` | message types |
| `lspgen` (`lspgen/lspgen.cpp`) | the types of the meta model | writes the message types and their conversions | serialization |
| examples (`examples/*`) | state of the server; the client's two threads | initialize, hover, shutdown, exit; connect, listen | message handler, sockets, the pool |

How they meet: a thread in `processIncomingMessages` takes one message off the
connection, finds the handler under a mutex, calls it without the mutex and writes
the answer, or lets a task of the pool wait for the handler's future and write it
(`messagehandler.cpp:23-150`, `messagehandler.inl:48-61`). Any thread, a callback
included, may call `sendRequest`, which makes an entry in the map of pending
requests and writes the request while it holds the map's mutex
(`messagehandler.cpp:257-265`). The answer is read by some thread in
`processIncomingMessages`, which moves the result object out of the map and
completes it without the mutex (`messagehandler.cpp:152-192`). Readers that cannot
parse a message write an error response themselves (`connection.cpp:191-200`), so
everybody writes: readers, senders and tasks.

What is hard here, and what makes each component correct:

- **One condition variable for two kinds of waiters.** Workers wait for tasks and
  callers of `addTask` wait for the end of a drain on the same `m_event`, and
  `notify_one` wakes any of them. Correct means: no queued task waits for a
  notification somebody else has got, none is left when the threads have exited,
  each runs once, and `waitUntilFinished` does not return before all are done.
- **A loop over `m_threads` without the mutex.** It is sound only because nobody can
  add a thread during a drain.
- **A request has one answer.** It can be made by the reader, in a batch, or by a
  task later; exceptions leave at several places. Correct means: with its own id, at
  most once, a batch in one write, and every request settled in the end.
- **Thread-local context.** It must be reset however a callback ends, and it is a
  pointer to a local variable, which an asynchronous task must not use.
- **A pending request is completed once**, by the response to it, with answers that
  come before `sendRequest` returns, twice, late or to nobody, and with ids that
  come round; a destroyed handler leaves no future that never becomes ready.
- **Framing with several readers and writers**, messages that are rejected, partial
  writes, and streams that disagree about the end of the input.
- **A parser with a stack of pointers into the value it builds**: arrays move their items
  when they grow, and what may follow what is spread over four handlers. Correct means: no
  pointer dangles, the loop ends, exactly the language is accepted, with the right value.
- **Locks held over calls**: the map's mutex over a write, the read mutex over a
  blocking read.
- **Types that the compiler never sees whole.** Which alternative of a variant JSON is taken for
  depends on the members it requires, on literals, and on the order of alternatives that the
  generator has changed. Correct means: what is sent arrives, JSON of a type is taken, other
  JSON is refused.
- **Positions in a string.** The parts of a URI are found by sums of 16-bit lengths, which
  every setter changes. Correct means: the getters return what was set, and the text of a URI
  is read back.
- **Inherited descriptors.** Each child holds ends of the pipes of others, so that ends of
  input that `start` and `wait` count on may not come. Correct means: descriptors have an
  owner, children are reaped, and calls return.
- **Two programs that end.** Answers, `shutdown`, `exit` and the loss of the connection come
  in any order. Correct means: a session that is not disturbed ends cleanly, and both programs
  end whatever happens.

## Modules

| module | contents |
|---|---|
| `TaskPool` | what a pool promises: tasks start in order, run once, a drain ends when all are done |
| `ThreadPool` | the pool of the code, at the grain of critical sections and notifications |
| `ThreadPoolProofs` | its invariants, and that it implements `TaskPool` |
| `RequestExchange` | what a peer may expect for the requests it sends |
| `IncomingRequests` | the receiving half of `MessageHandler`, over the pool of `TaskPool` |
| `IncomingRequestsProofs` | its invariants, and that it implements `RequestExchange` |
| `OutgoingRequests` | the sending half of `MessageHandler` |
| `OutgoingRequestsProofs` | its invariants |
| `Connection` | framing, locks and the end of the input |
| `ConnectionProofs` | its invariants |
| `JsonValues` | JSON values, and what a conversion returns |
| `JsonRpc` | the codec and, apart from it, the definition of a JSON-RPC message |
| `Lspgen` | the C++ types that the generator makes of the meta model, and what a generated structure converts |
| `Conversion` | `toJson`, `fromJson` and the tests that choose an alternative, for these types |
| `TypedMessages` | typed content in messages, and a definition of the JSON of a type |
| `JsonText` | the JSON parser and the string literals |
| `JsonTextProofs` | that its stack is a path and its loop ends |
| `JsonLanguage` | the language the parser is to accept, defined by decomposition of texts, and the writer |
| `UriText` | the one string of a URI with its 16-bit lengths, beside the parts it stands for |
| `CodecProofs` | the properties of `UriText` and `JsonRpc` |
| `Processes` | child processes with the descriptors that they inherit |
| `ProcessesProofs` | its invariants |
| `LifeCycle` | the life of a server as its client leads it through |
| `Session` | the example client and server over a socket |
| `SessionProofs` | its invariant, and that it implements `LifeCycle` |
| `MC...` | instances for TLC: handlers, frames, messages, types and texts of the runs |

```
   ThreadPool ==implements==> TaskPool <--INSTANCE-- IncomingRequests ==implements==> RequestExchange
   OutgoingRequests      Connection      Processes      UriText      JsonLanguage --EXTENDS--> JsonText
   TypedMessages --EXTENDS--> JsonRpc, Conversion --EXTENDS--> Lspgen --EXTENDS--> JsonValues
   Session ==implements==> LifeCycle
```

A module of proofs extends the module it is about; `CodecProofs` extends two, `UriText`
and `JsonRpc`.

`IncomingRequests` does not contain the threads of the pool: its actions
`CallDefers`, `TaskStarts`, `TaskAnswers`, `Destroy` and `PoolDrained` are joint steps
with `TaskPool`'s `Accept`, `Start`, `Finish`, `BeginDrain` and `EndDrain`, and that
`ThreadPool` has no other behaviours is proved (theorem `Refinement`); that what comes of it
is `RequestExchange` is proved too (`ExchangeKept`). `TypedMessages` puts
the codec and the conversions together: a value becomes JSON, a message, JSON on the wire, a
message, and a value again. `Session` takes what a message handler does with one message, the
subject of `IncomingRequests` and `OutgoingRequests`, as one step.

Operators called mutants in the modules are wrong versions of the operator that
follows them, a dropped guard or a missing reset; `PROJECT.json` says which property
fails with which. They are not part of the model.

## The models and the code

### ThreadPool

A critical section of `m_mutex` is one action, and so is a notification, which the
code makes after it has released the mutex (`threadpool.cpp:28,39,55-56`). Blocking in
`m_event.wait` is the state `"waiting"`, left by a notification or spuriously for a
state in which the predicate is tested again. `worker[i]` is where the thread
`m_threads[i-1]` is: `"loop"` before the critical section at line 67, `"run"` in
`execute`, `"exited"` after the `break`. `caller[s]` and `holding[s]` are a thread in
`addTask` and the task it brought; `closing` and `joined` are the one thread in
`waitUntilFinished` (calling it from two threads at once would join threads twice and
is not a legal use). The constructor runs before the first step: its workers start in
`"loop"`.

| code | action |
|---|---|
| `addTask` 45-48 | `AddTaskWait` when draining |
| `addTask` 50-55, `addThread` | `AddTask` |
| `addTask` 56 | `NotifyOne` |
| worker 70-71 / 73-77 / 80-81 / 83 | `WorkerWait` / `WorkerTake` / `WorkerExit` / `WorkerExecute` |
| `waitUntilFinished` 23-26 / 28 / 30-31 / 33-37 / 40 | `WaitBegin` / `WaitNotifyAll` / `WaitJoin` / `WaitClear` / `WaitNotifyAgain` |

### IncomingRequests

A message is its position in the input; this is also the id of a request.
`readMessage` is the return of `Connection::readMessage` with a message or a batch.
The lookup (`DispatchRequest`, `DispatchUnknown`) and the end of the call (`CallFails`,
`CallThrowsUnknown`, `CallReturns`, `CallDefers`) are separate steps: the code releases
the mutex between them, so the table may change, and `Called` says what is then run.
`CallReturns` stands for the callback and for the wait for its future when the handler
is synchronous or the message is in a batch. `Throw` is an exception that leaves
`processIncomingMessages` and takes the collected answers with it. What `add` makes of a
callback is its *style*: the wrappers of typed requests always answer
(`messagehandler.inl:63,69`), those of generic callbacks unless the id is null
(`messagehandler.cpp:208,242`), those of notifications never. An answer records its id,
what caused it and its error code. The tasks of the pool hold what the lambda captured.
The history variables are `outbox` (the answers written, each with the number of the write
it went out with), `origin`, `received` and `abandoned`. `QuietPeer` says what the handler
leaves to the peer and the user; the instances for TLC are tested for it.

`RequestExchange` sees `Owed` (requests in a batch not yet processed, in answers not yet
written, or in tasks), the ids written, and the requests given up.

### OutgoingRequests

`sendRequest` is three steps, because it holds the mutex over a write that may block or
throw: `SendLock` (lock, counter, entry), `SendWrite` or `SendWriteThrows`, `SendReturn`.
`processResponse` is `TakeResult` or `IgnoreResponse` under the mutex and then one of
`DeliverFuture`, `DeliverCallback`, `ThenThrows`. While it delivers to callbacks, a reader
may send requests of its own. Requests are numbered by the counter before it is reduced to
the width of `json::Integer` (`IdCount` values), so two requests with the same id remain
distinct. The result object of a request is its entry in `calls`: what the user saw of it.
The peer chooses which request it answers, how often, with a result or an error.

### Connection

Input and output are sequences of characters; the text of a header line is one character
and so is a byte of a content. A step of a reader consumes one character, as
`InputReader::peek` and `get` do, except for the content, which is one `read`. The three
streams differ at the end of the input: `standardIO` returns without data
(`standardio.cpp:26`), a socket throws (`socket.cpp:198`), a process does not return
(`process.cpp:208`). `signed` says whether the build's `char` is: the first test of
`readNextMessageHeaderField` compares a `char` with the int `eof()` (`SeesEof`), so it never
succeeds where `char` is unsigned, and takes a byte `0xff` for the end where it is signed. A content
is taken for a message, no JSON, no message of the
protocol, or JSON of the wrong type (`Verdict`); what of these is which is the codec's
affair. `read` and `written` are history variables. A character of a frame is none of
the two that end lines (`CharsAssumption`). `SoundPeer` is a peer that writes headers as
`writeMessageData` does, with the length of the content that follows; the frames of `connection` are
tested for it, those of `connection_live` have every mistake.

### JsonRpc

JSON values are `[kind, v]`, objects are functions from their keys. `messageToJson`,
`messageFromJson` and the batch versions are operators, with the failing checks in the order
of the code (`RequestFailure`, `ErrorFailure`, `ResponseFailure`). Numbers are counted in
halves so that the cast to `json::Integer` is not the identity. `IsMessage` defines the
messages of the protocol without looking at the code. The assumptions say that what is sent
has a type of `jsonrpc.h` (`MayBeSent`) and that a batch has a message in it; of what arrives they
say only that an array is a sequence.

### Lspgen, Conversion and TypedMessages

A type, of the meta model or of C++, is `[kind, of]`. `cppTypeName` makes a C++ type of one of
the meta model as `lspgen.cpp` does: literals of an "or" are merged when they have the same names
and go behind the other alternatives (`Alternatives`), one null makes a `Nullable` of the
rest (`OrTypeName`), a structure keeps its definition. `Members`, `StructureProperties`,
`literalProperties` and `requiredProperties` are what the generator writes into the conversions
of a structure, with its bases, its mixins, and literals that are values of inherited members.

| code (`serialization.h`) | operator |
|---|---|
| `canDeserializeTypeFromJson`, `canDeserialize...` | `canDeserialize`, `canDeserializeStruct`, `canDeserializeTuple` |
| `fromJson` of a structure and of its members, generated | `structFromJson`, `memberFromJson`, `optionalFromJson` |
| `deserializableVariantIndex`, `fromJson` of a variant | `variantFromJson` |
| `fromJson` of maps, tuples, numbers, enumerations, URIs | `mapFromJson`, `tupleFromJson`, `numberFromJson`, `enumerationFromValue`, `parseUri` |
| `toJson` | `toJson`, `structToJson` |

`TypedMessages` sends a value (`SendTyped`) or lets another peer send any JSON (`ArriveTyped`),
takes it through the steps of `JsonRpc`, and converts the content (`Convert`). `Conforms` says
which JSON is of a type of the meta model, without an order of alternatives or a first
element. It has a strict reading, the protocol's, and one that allows what a converter may
overlook: unknown members, null for an optional, other values of an enumeration, keys that are no
URIs. The types of the runs are excerpts of `lspgen/metaModel.json` with every kind of type
and every combination the generator treats by itself.

### JsonText and JsonLanguage

A text is a sequence of bytes. One turn of the loop in `Parser::parse` (`json.cpp:52-74`), with
the `skipWhitespace` before it, is one action: `OpenObject`, `OpenArray` and `SimpleValue` are
`handleValue`; `Close` and `NextMember` are `handleObject`; `ObjectKey` is `handleObjectKey`;
`Close` and `NextItem` are `handleArray`; `UnexpectedEnd` and `Return` are the end of the text.
Strings, numbers and names are read within a turn by operators (`parseString`, `parseNumber`,
`parseIdentifier`). Values live at addresses in `heap`, because the stack holds `Value*`: an
`emplace_back` may move all items of its array (`grows`), a new member of an object moves
nothing, as `std::unordered_map` guarantees. An integer is kept as its digits; `Within`
decides between `Integer`, `Decimal` and an error at the limits of 32 and 64 bits.

`JsonLanguage` says which values a text denotes by cutting it at brackets, commas and colons,
without a stack; numerals and the characters of a literal are taken from `JsonText`, except that
what a literal may contain is defined again (`IsBody`). Its operators are RECURSIVE and nothing
is proved about them. `stringify` is the writer of the code.

### UriText

`uri.data` is `m_data` and `uri.len` the five lengths, modulo `Width`; `Insert`
stands for the `insert...` functions, `Without` for the removals, `Idx` for the sums that are
positions. `Width` must be above 4, or the scheme of `fileUriFromPath` would not fit; in the code it
is 65536. The steps of `parse` are operators, each with the index that the one before has reached
(`ParsedAuthority` to `ParsedFragment`). Beside the object the model keeps `parts`, what it
should consist of, a function from the parts to their texts that knows nothing of positions;
`Denoted` finds the parts of a text from its end, by delimiters. `tooLong` records that a
part was accepted whose length came round, which `setPath`, `setFragment`, `parse` and
`fileUriFromPath` do not exclude.

### Processes

`open` says which ends of which pipes are open in the program and in each child. `Fork` copies
them, `Exec` closes those of the child's own pipes that it does not use as standard input or
output, and nothing closes the others: the pipes are not made with `O_CLOEXEC`, and only the child's
own end of the error pipe is marked so (`process.cpp:88`). A thread's steps
in the constructor are its system calls: `CreatePipes`, `PipeFails`, `Fork`, `ForkFails`,
`CloseChildEnds`, `ReadEnd` or `ReadError` or `ReadInterrupted`, `ReapFailed`. `wait`,
`terminate` and the destructor are `Release` and then `WaitReturns` or `WaitInterrupted`;
`isRunning`, `id` and `stdIO` are `checkRunning`. A start in place of an older process destroys that one
(`Destroy`). Children end when they like, and must when their input ends or after a signal
(`MustExit`, external).

### Session and LifeCycle

`main` is where the client's main thread is in `runLanguageClient`, `loop` where its message
thread is; `server` is where the server's thread is, `pool` counts hover requests that wait
in its pool. `toServer` and `toClient` are messages on their way; `lost` is a connection that
carries nothing more. `directory` is where each program was started, which may be the same
place or not: the document of the session is `fileUriFromPath("foo.txt")` (`documentUri`), which
each program makes absolute by itself, and `hover` refuses another one than the server's
(`server.cpp:140-145`). `MainSends` is a step that sends: the message is sent, `send()` fails with
an exception, or the program gets `SIGPIPE` (`Effects`; `socket.cpp:214` does not
ask for `MSG_NOSIGNAL`). An exception in the main thread runs the destructor, which calls
`shutdown()`, and a second one there ends the program. `LifeCycle` knows
the client's last message and the server's state only.

## Runs

| run | bounds | properties |
|---|---|---|
| `thread_pool` | 2 submitters, 3 tasks, 2 threads, 2 drains; safety and liveness | `OnePlace NoStrandedTask NoIdleSleeper JoinLoopStable ImplementsTaskPool TasksAndDrainsEnd` |
| `incoming` | 2 readers, 4 handlers, 3 messages in batches of up to 2, 1 failing write | `ContextOnlyInHandler SettledOnce BatchAnsweredInOrder NothingOwedWhenDestroyed` |
| `incoming_changes` | 2 readers, 3 methods, 2 messages, 1 change of any handler, 1 failing write; liveness | `ImplementsExchange RequestsAreSettled` |
| `outgoing` | 1 sender, 2 readers, 4 requests, 3 ids, 2 responses; safety and liveness | `ResultHeldOnce NoResultIsLost ResponseReachesItsRequest DestroyedLeavesNothingPending EveryCallReturns` |
| `typed_messages` | every choice of sound and unsound members, batches of up to 2; 11 types, values two levels deep, JSON with one thing wrong at any place | `AcceptsTheProtocol RoundTrip ConvertedConforms ConformingIsConverted TypedRoundTrip` |
| `typed_code_action` | the result of `textDocument/codeAction` | `ConformingIsConverted`, violated, see below |
| `json_text` | all texts of up to 5 of 9 characters, all texts one edit away from 4 texts with nested values and escapes, the texts of 190 values, numerals at the limits | `StackIsPath ParsesTheLanguage WrittenIsReadBack EveryTurnGetsOn` |
| `connection` | 2 readers, 1 writer, 2 frames and a part of one; socket, standard input, process, and standard input with an unsigned `char` | `MessagesAreReadWhole FramesAreWrittenWhole ErrorsAreReported` |
| `connection_live` | 2 readers, 1 frame with any mistake and a part of one, the same streams; liveness | `EveryCallEnds` |
| `uri` | all texts of up to 4 of 7 bytes behind the scheme or the authority, 21 arguments of setters, 3 removals and 4 file paths in any order on an empty or a parsed URI, lengths come round at 10 | `PartsAreKept LengthsFit ReadBack` |
| `processes` | 2 threads, one of which starts 2 processes, 1 failed fork or interrupted call; safety and liveness | `DescriptorsAreOwned StartedIsExecuted NoZombieIsLeft EveryCallReturns` |
| `session` | a name with 2 addresses, programs started in the same one of 2 directories or in different ones, a connection that may break at any time; safety, refinement and liveness | `CleanSession ImplementsLifeCycle SessionEnds` |

What the names say, in short: `NoIdleSleeper`, `NoStrandedTask` and `TasksAndDrainsEnd` together
mean that one condition variable is enough; `SettledOnce`, `ImplementsExchange` and
`RequestsAreSettled` that a request is answered or given up, once; `ResultHeldOnce` to
`DestroyedLeavesNothingPending` that a result object is neither lost nor used twice. The
properties of the data components compare the code with a definition that works otherwise.
The comment above each property says which code it is about.

Why the bounds are enough. The pool needs two threads that sleep and a third task for a
notification to go astray, a submitter that is caught by a drain while another one
notifies, and a second drain after one that has cleared the threads; three tasks and two
of everything else give all of these, and the proofs hold for any number. Three messages
are a batch beside another reader's message or a deferred answer. Two responses to the
same request by two readers, a request sent from a callback, and a fourth request whose id
is that of the first are the cases of `OutgoingRequests`. Two frames show what a
rejected message leaves for the next one; liveness needs one that ends somewhere, with one
reader in it and one that waits for the mutex. A stray, missing or doubled character in a nested
text is an edit; three levels of arrays with three items move items while pointers to inner
values are on the stack. A type is converted by the conversions of its parts, so that two levels
below each kind of type, with one mistake, reach every branch; what a variant
chooses depends on the first element and on the names of members, which the samples vary. A length
that comes round at 10 behaves as one that comes round at 65536, with texts of 9 to 12 bytes
beside it. Two threads with three starts are a start beside a start, a start that replaces
a process, and a child that outlives the one before it. A session has two threads on
one side, one and a pool on the other, and six kinds of messages; all of its states are
reached. All that matters of the directories is whether they are the same, for which two are enough.

The parser runs by itself, and `json_text` checks that it is never stuck
(deadlock) and that every turn brings it nearer to the end (`EveryTurnGetsOn`, a variant that
takes the place of a liveness property). None of the other components ever has to do anything, and
both programs of a session end,
so their runs have `CHECK_DEADLOCK FALSE`: a state in which nobody calls any more is an end
and not a deadlock; that calls return is checked as liveness. `SYMMETRY` is used in
the two safety runs `incoming` and `connection` only, for the readers.

`QuietChanges = TRUE` in the runs of `IncomingRequests` means that a handler is
not replaced or removed during its own call, an assumption the code makes of its users: it
calls through a map iterator after it has released the mutex (`messagehandler.cpp:104-109`), and
`remove` in another thread, or in the callback itself, frees the callback that is being called.
With `QuietChanges = FALSE` an erased entry runs any callback (`Called`), and
`ImplementsExchange` fails. In the same runs notifications are sent only to methods that are not
typed requests; a notification with the method of a request is answered with a null id (see
below), an answer that `RequestExchange` does not allow.

## Fairness

- `ThreadPool`: weak fairness for each thread inside `addTask`, each worker and the thread in
  `waitUntilFinished`. Each step is enabled until it is taken: a critical section is short
  and `std::mutex` is assumed not to starve a thread for ever; a blocked wait has no step of
  its own and is ended only by a notification, so that a lost notification shows. Callbacks
  return. Nobody has to call anything, and spurious wake-ups need not happen.
- `IncomingRequests`: readers go on, tasks start and end (that is, callbacks return and
  futures become ready), a drain ends when it can. The first two are what
  `EverySubmittedTaskFinishes` gives for the pool. Nobody has to send, to change handlers or
  to destroy the handler.
- `OutgoingRequests`: a thread that is in `sendRequest` or `processResponse` and can go on
  does; writes end. The peer need not answer.
- `Connection`: a thread in `readMessage` or `writeMessage` goes on when there is a
  character, an end of the input or room to write. The peer need not send or close.
- `Processes`: a thread inside a call goes on when its system call can return, a forked child
  gets to `execvp`, and a child ends once its input has ended or a signal has reached it,
  which is what a language server does. Nobody has to call; nothing has to fail. The end of
  input is computed from all holders of the pipe, so that a descriptor somebody else has
  inherited keeps it away.
- `Session`: the threads of both programs and the pool are scheduled, the server
  gets to listen. Weak fairness of a thread as a whole is enough, because a thread has one place
  at which it can go on. Nothing makes the connection break, and nothing hides a break from a thread
  that reads.

## Proofs

Theorems hold for every value of the constants, under the assumptions named in the modules:
constants that are bounds are natural numbers, `NoTask` is no task, senders and readers are
different threads, there is at least one id, contents are no header fields, texts are sequences of
bytes, what is sent is of the types of `jsonrpc.h`. Two theorems have
a hypothesis besides, `QuietPeer` and `SoundPeer`, which TLC evaluates for the instances it runs.
Each module has an inductive invariant (`IInv`, in `ConnectionProofs` three of them, in
`CodecProofs` one for each of its two parts), proved
with one step per action; the invariants of the runs follow from it.

**ThreadPoolProofs.** The invariant is `IInv = TypeOK /\ DrainProtocol /\ OnePlace /\
NoStrandedTask /\ NoLostWakeup`. `NoStrandedTask` is not inductive alone: that the last
worker does not leave a task behind needs to know that workers exit only in a drain and with
an empty queue, and that nothing is queued in a drain, which is `DrainProtocol`. For
`NoLostWakeup` the interesting step is a `notify_one` that a submitter gets: submitters wait
only in a drain or before the second `notify_all` (`DrainProtocol` again), and then that
`notify_all` is still to come. `OnePlace` is what makes a step to the queue an `Accept` of a
fresh task. `NoIdleSleeper` counts: each task that is queued brings a notification, and
each worker that stops looking has taken a task or found none. Its proof needs the two sets to be
finite, which is invariant also when the submitters are infinitely many (`Countable`). From
these: `TypeCorrect`, `TasksAreInOnePlace`, `NoTaskIsStranded`, `NoWakeupIsLost`,
`NoSleeperIsIdle`; `JoinLoopIsSafe`, an action property; and `Refinement`, by cases on the
steps: `AddTask` is `Accept`, `WorkerTake` is `Start`, `WorkerExecute` is `Finish`, `WaitBegin`
and `WaitClear` are `BeginDrain` and `EndDrain`, and the others stutter. For `WaitClear` the
proof shows from `NoStrandedTask` that with all threads joined the queue is empty.

**OutgoingRequestsProofs.** The invariant is the conjunction of `TypeOK`, `Bookkeeping` (in
the proof module: requests that were written, that are being sent or that a response names
have been numbered, and a response carries the id of the request it answers) and the six
properties of the run that are not about the destructor. `ResponseReachesItsRequest` needs
that ids are distinct below `IdCount` (`IdFacts`) and that an entry is under the id of its
request (`ResultHeldOnce`). `NoResultIsLost` holds also when ids come round, because an
entry that is overwritten is recorded as dropped: the destructor of its promise runs. What the
destructor of the handler guarantees follows from `NoResultIsLost` and the fact that no
thread holds a result then.

**IncomingRequestsProofs.** That a request is settled once cannot be seen from what is
written: a second answer would be one of somebody who still has the request. The invariant
therefore says who may have something of a batch: a batch is a run of serials
(`BatchesAreRuns`), the answers a reader holds are to messages it has behind it, in
their order (`AnswersInOrder`), a task of the pool is about a message that came alone
(`LeftToPool`), and no two of the readers, the pool and the output have messages of the same
batch (`Separate`). `OwedIs` splits `Owed` into these places. `Closing` is what the destructor relies
on: it runs when no reader does. From `IInv`: `TypeCorrect`, `ContextIsSafe`,
`SettlesOnce`, `BatchesAnsweredInOrder`, `DestroyedOwingNothing`. None of them needs
`QuietChanges`: they hold for whatever callback an erased entry runs.

`ExchangeKept` is the refinement: every step is one of `RequestExchange` or leaves
`Owed`, the ids written and the requests given up as they are. The lemmas sort
the steps by that: they read (`Reads`), write (`Sends`), or give requests up (`GivesUp`).
`RequestExchange` knows no answer without an id, so that the theorem
has the hypothesis `QuietPeer`: no notification is sent to the wrapper of a typed request,
which would answer it, and a handler that is called is not replaced.

**ConnectionProofs.** `Typed` is `TypeOK`, with the fact that each mutex is held by the thread
that is in its part of the code and by no other (`Places`), and `LineIsBegun`: the end of a line
is read only after its text. `Counted` gives `ErrorsReported`: the errors written and those that
readers are about to write are as many as the bad contents read; the step from `parse` to `report`
and the one from `report` to `write` move one of them. `Framed` gives `FramesWrittenWhole`: the
output, with what the holder of the write mutex has still to write, is the frames of `written` one
after the other, or after a write that failed a beginning of them; several lemmas about
`FlattenSeq` (what `Whole` of one frame more is) come before it. Where such a lemma would be an
induction, the proof takes the smallest counterexample, which exists because a set of natural
numbers that is not empty has a smallest element. `InOrder` gives `MessagesRead`, from a peer that
is sound: what the peer has sent is a sequence of frames, of which the last may lack its end when
the input is closed; `cut` says at which character each of them ends. `Located` says that a prefix
of these frames is read and that the reader in the mutex is where its state says in the next frame
(`At`: in which line, how much of it is behind it, and which length it has seen). It is left in
one way only: the input ends inside a frame. Then nothing is left to read (`Over`), and no message
comes after the one that was cut short. That messages which are rejected do not disturb the next
ones is the case of a reader that goes from `parse` to `report` with the whole frame behind it.

**JsonTextProofs.** `StackIsPath` is not inductive alone: when an array grows, its items move,
and a pointer on the stack would dangle if it pointed to one of them. The invariant says that
the values are a tree (`Memory`: a value is part of one other only, the items of an array are at
different addresses) and that the stack is a path in it, on which no value is part of itself or
of one above it (`Path`), so that what moves when the array on the top grows is not on the
stack. `ToBeRead` is why a value that is opened has no parts yet. `ParserEnds` is the action
property `EveryTurnGetsOn`: a turn gets past a character, or from an object or array to a value
in it, in which the next turn must get past a character, or it ends the loop. `TypeCorrect`
bounds the position by the length of the text plus two (see below for the two). The theorems are
for every set of texts of bytes; the operators that read strings and numbers come in by lemmas on
where they stop.

**CodecProofs, URIs.** The invariant is `IInv = Shape(uri) /\ IsBuilt`. `IsBuilt` says that the
object is the one for its parts (`Built`: the parts one after the other, with their lengths), as long
as none was too long; `Shape` says what is left when one was: the lengths together are
at most that of the string. A setter exchanges one of five texts, at a position that is the
sum of the lengths before it (`OnePartChanged`), so that each setter and removal keeps `Built`
(`InsertIsSet`, `WithoutIsRemoved`). For `parse` there are two halves. Every text of a URI is
`Written(RawParts(text))`, parts that can be told apart by their delimiters (`WellFormed`,
`RawFacts`), and a text that is none fails in the scheme or behind the authority; and the code, on
`Written(f)`, finds one part of `f` after the other (`FragmentStep` to `AuthorityStep`,
`ParseWritten`). Together: `parse` finds the parts of the definition in every text
(`ParseIsDenoted`). From it: `GettersReturnTheParts` and `PartsFitTheString`.

`TextIsReadBack` needs besides that each part is canonical (`IsSound`, theorem
`PartsAreCanonical`). Its operators are folds, and what a fold makes of every text is an induction
over its length; the prover has none for operators, so that the proofs take the least length at which
the statement fails (`LeastNumber`, `SetInduction`). So it is shown that `decode` undoes `encode`
byte by byte (`EncodeFacts`) and that `toString` of an object is `Written` of its parts with the
path encoded (`WrittenObject`). A readable object is then read back by the lemmas on `parse`
(`ReadableIsRead`). That the others are not is shown for each reason there is: a relative path runs
into the authority (`PathIntoAuthority`), an authority is refused without a path, a path that begins
with two slashes is taken for an authority (`PathAsAuthority`), and a path that is too long when it
is encoded is cut, and the cut one is shorter also when the cut goes through an escape
(`PathIsCut`, `CutIsShorter`).

**CodecProofs, JSON-RPC.** `RpcInv` says where the JSON on the wire is from. `OnlyTheProtocol` follows
kind by kind: the failing checks of a request, an error and a response, one after the other, leave
exactly what `IsMessage` says (`RequestAccepted`, `ErrorAccepted`, `ResponseAccepted`); in a batch
the first element that fails decides (`FirstFailure`, `BatchAccepted`), for batches of
any length. `SentIsReceived` is `messageFromJson` on each form `messageToJson` writes
(`RequestReadBack`, `ResultReadBack`, `ErrorReadBack`), and that ids and codes are whole numbers.

**ProcessesProofs.** The invariant adds to the properties of the run that what an object holds, what a
call waits for, and what a start is about are different children (`HeldByOne`), that
a thread in `start` has a start left, and that a child which has not executed its program still has
its end of the error pipe (`ChildrenFit`), so that a start which reads the end of that pipe may
conclude that the program is executed. From it: `TypeCorrect`, `NoDescriptorLeaks`,
`NoZombieStays`, `ReturnsExecuted`.

**SessionProofs.** The client's messages are a script, and the invariant says that the server has handled
a beginning of it, that what is on its way is the next part, and that while the connection
holds both together are all that the client has sent (`InOrder`, in this module).
`AnsweredOnce` and `Where` tie the answers and the threads to the place in the script, and
`WhyLost` says that a connection is only lost when something broke it or one side has gone.
`HoverAnswered` ties the answer to `hover`, in the pool, on its way or received, to the two
directories (`HoverAnswer`): the server is active when it reads the request, so only an unknown
document makes it refuse. From it: `HoverIsAnswered`, which holds for every session,
`SessionIsClean`, and `LifeCycleKept`, the refinement of `LifeCycle`, which holds for
sessions that break, too.

The theorems `TypeCorrect` of each module, and `NoWakeupIsLost`,
`MutexIsHeldWhileSending`, `CallbacksHaveTheirContext`, `FuturesAreCompletedOnce` and
`HoverIsAnswered`, hold for every
value of the constants; no run checks these again.

**Model-checked only**: all liveness properties (`TasksAndDrainsEnd`, `RequestsAreSettled`,
`EveryCallReturns`, `EveryCallEnds`, `SessionEnds`), because fairness is beyond the prover;
what `JsonText` reads (`ParsesTheLanguage`, `WrittenIsReadBack`), and `Conversion` with what it is
built of (`ConvertedConforms`, `ConformingIsConverted`, `TypedRoundTrip`), because they are
recursive over texts and types, which the prover cannot follow.

## What the model found

`typed_code_action` ends in a violation. The result of `textDocument/codeAction` is an array of
`Command | CodeAction` (`lspgen/metaModel.json:1574-1598`). The first alternative whose required
members are there is taken (`serialization.h:300`), a `Command` requires `title` and `command`
only (`metaModel.json:5771`), and a code action may have a member `command`, "A command this code
action executes." (`metaModel.json:5876-5882`). Such a code action is taken for a command, whose
`command` must be a string, and the whole response is refused with a `TypeError`.

Other statements of the documentation that the code does not keep; the models have these
outcomes:

- Notifications "don't receive a response" (`README.md:183`), but the wrapper of a typed request answers whatever it is called with: a
  notification with that method gets a response with a null id (`messagehandler.inl:69,105`).
- "Asynchronous callbacks work exactly the same as regular request callbacks" but for the future
  (`README.md:123`); a `RequestError` thrown by one loses its data, and a `json::TypeError` there is
  answered with `InternalError` instead of `InvalidParams` (`messagehandler.inl:24-31`, compare
  `messagehandler.cpp:111-134`).
- The data of an error (`error.h:46`) is put into the response object and not into the
  error object, so the other side never sees it (`jsonrpc.cpp:168`).
- `readMessage` is to throw a `ConnectionError` when the connection is lost (`connection.h:47`),
  but when a child process closes its output `read` returns 0 and the loop in
  `process.cpp:208-221` goes on for ever.

Seen while modelling:

- *Connection.* Standard input that ends inside a header field keeps
  `connection.cpp:286` in its loop, because every character is then `Eof`; where `char` is
  unsigned this happens before a field, too. One that ends inside a content gives a content
  filled with zeros and so a parse error with an error response, not a `ConnectionError`. After a
  parse or protocol error `readMessage` throws although the stream is in order, as the `FIXME`s in
  `connection.cpp:194,199` say.
- *Requests.* A success callback that throws a `json::Error` is followed by a call of the
  error callback (`messagehandler.inl:273-277`, action `ThenThrows`); a write that fails in
  `sendRequest` leaves its entry in the map until the handler is destroyed.
- *Parser.* A number such as `-e` leaves it as `std::invalid_argument` (`json.cpp:290`), which
  `readMessage` turns into a `ConnectionError` without an error response; it steps over a colon
  that the end of the text has cut off (`json.cpp:173-176`), so that its position may be two behind
  the last byte; the test for a trailing comma (`json.cpp:152,205`) only chooses the error text;
  the two halves of a surrogate pair in `\u` escapes become three bytes each, which is no UTF-8
  (`json.cpp:703`); leading zeros and decimals like `1.` and `-.5` are accepted.
- *Serialization.* `RelativePattern.baseUri` never accepts a URI, because a `Uri` is tested as if it
  were a structure without members (`metaModel.json:11785-11799`; operator `canDeserialize`); an
  `AnnotatedTextEdit` in `TextDocumentEdit.edits` is read as a `TextEdit` and its
  `annotationId` is lost; `SymbolInformation[] | WorkspaceSymbol[]` refuses symbols whose location
  has no range; an optional `LSPAny` that is null is dropped on the way out; the required members
  that a base inherits itself do not count when an alternative is chosen; enumerations
  accept any value; a number that an integer cannot hold is cast, which is undefined
  (`Unspecified`), and `toJson` of a long has no lower bound (`serialization.h:345-351`); a
  text that is no URI becomes the empty URI. For an optional inherited literal the generator
  would write an `if` without a body (`lspgen.cpp:1551-1556`); the meta model has none.
- *URI.* `Readable` names the URIs that are not read back from their own text: an
  authority with a relative path, or with a query or fragment and no path; a path that begins
  with `//` and no authority; a path that gets too long by its escapes. Paths and fragments
  of 65536 bytes and more are accepted and cut.
- *Processes.* Two starts at the same time can block each other for ever: each child has
  inherited the other's error pipe and runs until its input ends (`HeldUp`). `wait()` does not return
  while a child that was started later lives. A failed fork leaves the error pipe open. A read of
  the error pipe that a signal interrupts counts as success, an interrupted `waitpid` leaves a
  zombie.
- *Session.* A client and a server that were started in different directories do not mean the same
  document by `foo.txt` (`uri.cpp:182`): over a healthy connection `hover` is answered with
  `InvalidParams` (`server.cpp:141`), which the client prints before it shuts down as ever
  (`client.cpp:186`): `CleanSession` says that it gets either answer where it is due
  (`HoverAnswer`) and ends cleanly with both. When the client's message thread ends because the
  connection is lost, a main thread
  that waits on a future waits for ever (`client.cpp:118`; `WaitsInVain`), because nothing breaks the
  promises before the handler is destroyed. When it does not wait, `shutdown()` returns early and
  the thread is destroyed without being joined, which ends the program by `std::terminate`
  (`client.cpp:131`). A write to a connection the other side has reset raises `SIGPIPE`
  (`socket.cpp:214`). `errno` may have changed before it is reported (`socket.cpp:145,164-166`).

## What is left out

- `ThreadPool`: a `std::thread` that cannot be created (`threadpool.cpp:53`), tasks that call `addTask`
  of their own pool (during a drain such a task would wait for itself, `threadpool.cpp:48`), two threads
  in `waitUntilFinished`. The proofs rest on submitters that are not workers, and no task
  of the message handler adds tasks.
- `IncomingRequests`: requests with an explicit null id, calls of the handler during its
  destructor, responses beyond the fact that their callback may throw (they are the subject of
  `OutgoingRequests`). A write is one step here; `Connection` has its parts.
- `OutgoingRequests`: `sendNotification`, which is a write and has no state; the conversion of
  results is success or an exception.
- `Connection`: header lines of several characters, the text of a content. Failed writes do not
  recover.
- `JsonText`: hexadecimal numbers, infinities and overflow in `std::stod`, the text and position
  of errors; in the writer decimals, which `std::to_string` rounds to six places.
- `Conversion`: the overloads for long, float and bare JSON objects and arrays, which no
  generated type uses. `Lspgen`: the order in which types are written, names, comments, the
  classes of messages, types of kind "and" and literals that are not strings, of which the
  protocol has none.
- `UriText`: relative paths in `fileUriFromPath`, which are first made absolute.
- `Processes`: the Windows half of `process.cpp`; `stdin` and `stdout` of the program itself being closed.
- `Session`: failures of `socket()`, `bind()`, `listen()` and `getaddrinfo()`, which only throw;
  Winsock; the server on standard input and the client that starts its server, whose streams and
  processes are in `Connection` and `Processes`; a directory that is renamed or removed while a
  program runs in it; a client on another machine, whose process the server cannot see.
- Error classes, message traits and build files have no state.

## Plan

Order by importance to the behaviour of a running server; 1 to 12 are done.

1. `TaskPool`, `ThreadPool`; theorems on stranded tasks, wake-ups and the refinement.
2. `RequestExchange`, `IncomingRequests` over `TaskPool`.
3. `OutgoingRequests`; theorems on result objects.
4. `JsonRpc`.
5. `Connection`.
6. `JsonText` and `JsonLanguage`.
7. `Processes`.
8. `Lspgen`, `Conversion`, `TypedMessages`; `UriText`.
9. `LifeCycle`, `Session`.
10. `ProcessesProofs`, `IncomingRequestsProofs`, `SessionProofs`.
11. `JsonTextProofs`, `ConnectionProofs`.
12. `CodecProofs`: `UriText` and `JsonRpc`.
13. `Peers`: two handlers over bounded pipes, for the mutex that is held during a write.
