------------------------------ MODULE Session ------------------------------
(***************************************************************************)
(* The two example programs, src/examples/client.cpp and server.cpp, over  *)
(* a socket (src/lsp/io/socket.cpp): a client with its main thread and a   *)
(* thread that reads messages, a server that reads messages and answers a  *)
(* hover request from its pool, and a connection that may be lost.         *)
(*                                                                         *)
(* What the library does with a message is that of IncomingRequests and    *)
(* OutgoingRequests in one step.                                           *)
(***************************************************************************)
EXTENDS Integers, Sequences

CONSTANTS
    Resolved,     \* the addresses getaddrinfo gives, in order
    Local,        \* the one the server is bound to
    Directories,  \* where the programs may be started
    MayBreak      \* the connection may be lost

ASSUME ConnectionAssumption == Resolved \in Seq(STRING) /\ MayBreak \in BOOLEAN

VARIABLES
    directory,   \* "client" or "server" -> the one it was started in, which it never leaves
    main,        \* where the client's main thread is
    address,     \* how many addresses it has tried
    m_running,
    loop,        \* the client's message thread
    answers,     \* request -> what came back for it
    listener,    \* the server's socket: "closed", "listening" or "accepted"
    server,      \* the server's thread: "none", "check", "read", "finish" or "ended"
    m_state,
    pool,        \* hover requests that wait in the server's pool
    toServer, toClient,
    lost,        \* nothing more gets through
    broken,      \* and it was neither the client nor the server that ended
    sentLast     \* the last message of the life cycle that the client sent

net == <<toServer, toClient, lost, broken>>
clientVars == <<directory, main, address, m_running, loop, answers, sentLast>>
serverVars == <<listener, server, m_state, pool>>
vars == <<net, clientVars, serverVars>>

Gone == {"done", "failed", "killed", "terminated"}

Init ==
    /\ directory \in [{"client", "server"} -> Directories]
    /\ main = "connect" /\ address = 0 /\ m_running = FALSE /\ loop = "none"
    /\ answers = [initialize |-> "none", hover |-> "none"]
    /\ listener = "closed" /\ server = "none" /\ m_state = "Uninitialized" /\ pool = 0
    /\ toServer = <<>> /\ toClient = <<>> /\ lost = FALSE /\ broken = FALSE
    /\ sentLast = "none"

-----------------------------------------------------------------------------
(* The connection *)

\* Messages on their way may still arrive, up to some point.
Break ==
    /\ MayBreak /\ ~lost /\ listener = "accepted"
    /\ \E n \in 0 .. Len(toServer), k \in 0 .. Len(toClient) :
        toServer' = SubSeq(toServer, 1, n) /\ toClient' = SubSeq(toClient, 1, k)
    /\ lost' = TRUE /\ broken' = TRUE
    /\ UNCHANGED <<clientVars, serverVars>>

\* A message to a lost connection may disappear, or send() fails, with SIGPIPE if the
\* other side has reset the connection.
Effects == IF lost THEN {"sent", "throws", "killed"} ELSE {"sent"}
Sent(queue, m) == IF lost THEN queue ELSE Append(queue, m)

-----------------------------------------------------------------------------
(* Socket::connect and the listener *)

\* A program that is killed or fails before that leaves the server waiting in accept.
SetupForListen ==
    /\ listener = "closed"
    /\ listener' = "listening"
    /\ UNCHANGED <<net, clientVars, server, m_state, pool>>

\* The addresses are tried one after the other; a socket that cannot be connected is closed.
Connect ==
    /\ main = "connect"
    /\ address < Len(Resolved)
    /\ address' = address + 1
    /\ IF listener = "listening" /\ Resolved[address + 1] = Local
       THEN main' = "startup" /\ listener' = "accepted" /\ server' = "check"
       ELSE UNCHANGED <<main, listener, server>>
    /\ UNCHANGED <<net, directory, m_running, loop, answers, sentLast, m_state, pool>>

ConnectFails ==
    /\ main = "connect"
    /\ address = Len(Resolved)
    /\ main' = "failed"
    /\ UNCHANGED <<net, directory, address, m_running, loop, answers, sentLast, serverVars>>

-----------------------------------------------------------------------------
(* The client's main thread *)

LifeCycleMessages == {"initialize", "shutdown", "exit"}
ClientSends(m) ==
    /\ toServer' = Sent(toServer, m)
    /\ sentLast' = IF m \in LifeCycleMessages THEN m ELSE sentLast

\* A step of the main thread that sends m and gets to next.  An exception leaves
\* runLanguageClient by way of the destructor, which shuts down and must not throw.
MainSends(from, m, next) ==
    /\ main = from
    /\ ClientSends(m)
    /\ \E effect \in Effects :
        main' = CASE effect = "sent" -> next
                  [] effect = "throws" -> IF from = "unwind" THEN "terminated" ELSE "unwind"
                  [] effect = "killed" -> "killed"
    /\ UNCHANGED <<toClient, lost, broken, directory, address, answers, serverVars>>

\* The message thread is started before the request is sent.
Startup ==
    /\ MainSends("startup", "initialize", "waitInitialize")
    /\ m_running' = TRUE /\ loop' = "check"

\* future.get() throws what the request was answered with; hover prints it.
WaitFor(request, next) ==
    /\ answers[request] # "none"
    /\ main' = IF answers[request] = "error" /\ request = "initialize" THEN "unwind" ELSE next
    /\ UNCHANGED <<net, directory, address, m_running, loop, answers, sentLast, serverVars>>

Sends ==
    /\ \/ MainSends("initialized", "initialized", "open")
       \/ MainSends("open", "didOpen", "hover")
       \/ MainSends("hover", "hover", "waitHover")
       \/ m_running /\ MainSends("shutdown", "shutdown", "join")
       \/ m_running /\ MainSends("unwind", "shutdown", "join")
    /\ UNCHANGED <<m_running, loop>>

Waits ==
    \/ main = "waitInitialize" /\ WaitFor("initialize", "initialized")
    \/ main = "waitHover" /\ WaitFor("hover", "shutdown")

\* shutdown() returns without joining when the message thread has ended by itself, and
\* the thread is destroyed.
ShutdownReturns ==
    /\ main \in {"shutdown", "unwind"} /\ ~m_running
    /\ main' = "terminated"
    /\ UNCHANGED <<net, directory, address, m_running, loop, answers, sentLast, serverVars>>

Joined ==
    /\ main = "join" /\ loop = "ended"
    /\ main' = "done"
    /\ UNCHANGED <<net, directory, address, m_running, loop, answers, sentLast, serverVars>>

\* The end of the program closes the connection; what was sent can still be read.
ClientGone ==
    /\ main \in Gone /\ listener = "accepted" /\ ~lost
    /\ lost' = TRUE
    /\ toClient' = <<>>
    /\ UNCHANGED <<toServer, broken, clientVars, serverVars>>

MainStep ==
    \/ Connect \/ ConnectFails \/ Startup \/ Sends \/ Waits \/ ShutdownReturns \/ Joined
    \/ ClientGone

-----------------------------------------------------------------------------
(* The client's message thread *)

\* A thread of a program that is gone does nothing.
LoopRuns == main \notin Gone

LoopCheck ==
    /\ LoopRuns /\ loop = "check"
    /\ loop' = IF m_running THEN "read" ELSE "ended"
    /\ UNCHANGED <<net, main, directory, address, m_running, answers, sentLast, serverVars>>

LoopFails ==
    /\ LoopRuns /\ loop = "read" /\ toClient = <<>> /\ lost
    /\ m_running' = FALSE
    /\ loop' = "ended"
    /\ UNCHANGED <<net, main, directory, address, answers, sentLast, serverVars>>

\* The futures of initialize and hover
LoopCompletes ==
    /\ LoopRuns /\ loop = "read" /\ toClient # <<>>
    /\ Head(toClient).to # "shutdown"
    /\ answers' = [answers EXCEPT ![Head(toClient).to] = Head(toClient).is]
    /\ toClient' = Tail(toClient)
    /\ loop' = "check"
    /\ UNCHANGED <<toServer, lost, broken, main, directory, address, m_running, sentLast, serverVars>>

\* The callback of shutdown: exit is sent, then the thread is to end.
LoopExits ==
    /\ LoopRuns /\ loop = "read" /\ toClient # <<>>
    /\ Head(toClient).to = "shutdown"
    /\ ClientSends("exit")
    /\ toClient' = Tail(toClient)
    /\ m_running' = FALSE
    /\ \E effect \in Effects :
        /\ main' = IF effect = "killed" THEN "killed" ELSE main
        /\ loop' = IF effect = "sent" THEN "check" ELSE "ended"
    /\ UNCHANGED <<lost, broken, directory, address, answers, serverVars>>

LoopStep == LoopCheck \/ LoopFails \/ LoopCompletes \/ LoopExits

-----------------------------------------------------------------------------
(* The server *)

Response(request, is) == [to |-> request, is |-> is]

\* isRunning: the process that the client has named must exist, too.
ServerCheck ==
    /\ server = "check"
    /\ server' = IF m_state = "Inactive" \/ (m_state # "Uninitialized" /\ main \in Gone)
                 THEN "finish" ELSE "read"
    /\ UNCHANGED <<net, clientVars, listener, m_state, pool>>

\* Mutant of ServerFails: the exception is caught inside the loop.
ServerGoesOn ==
    /\ server = "read" /\ toServer = <<>> /\ lost
    /\ server' = "check"
    /\ UNCHANGED <<net, clientVars, listener, m_state, pool>>

ServerFails ==
    /\ server = "read" /\ toServer = <<>> /\ lost
    /\ server' = "finish"
    /\ UNCHANGED <<net, clientVars, listener, m_state, pool>>

Reads(m) ==
    /\ server = "read" /\ toServer # <<>> /\ Head(toServer) = m
    /\ toServer' = Tail(toServer)
    /\ UNCHANGED <<lost, broken, clientVars, listener>>

Quiet == server' = "check" /\ UNCHANGED toClient
Answers(response) ==
    /\ toClient' = Sent(toClient, response)
    /\ \E effect \in Effects :
        server' = CASE effect = "sent" -> "check"
                    [] effect = "throws" -> "finish"
                    [] effect = "killed" -> "ended"

initialize ==
    /\ Reads("initialize")
    /\ IF m_state \in {"Inactive", "Uninitialized"}
       THEN m_state' = "Active" /\ Answers(Response("initialize", "result"))
       ELSE UNCHANGED m_state /\ Answers(Response("initialize", "error"))
    /\ UNCHANGED pool

\* initialized has no handler; didOpen throws unless the server is active, and like any
\* notification has no answer then either.
Notified == (Reads("initialized") \/ Reads("didOpen")) /\ Quiet /\ UNCHANGED <<m_state, pool>>

\* fileUriFromPath("foo.txt") in the client or the server: the path is made absolute.
documentUri(program) == <<directory[program], "foo.txt">>

\* Mutant of hover: any document will do.
hoverAnyDocument ==
    /\ Reads("hover")
    /\ IF m_state = "Active"
       THEN pool' = pool + 1 /\ Quiet
       ELSE Answers(Response("hover", "error")) /\ UNCHANGED pool
    /\ UNCHANGED m_state

\* verifyInitialized, then the document must be the one the server knows, then the answer
\* is left to the pool.
hover ==
    /\ Reads("hover")
    /\ IF m_state = "Active" /\ documentUri("client") = documentUri("server")
       THEN pool' = pool + 1 /\ Quiet
       ELSE Answers(Response("hover", "error")) /\ UNCHANGED pool
    /\ UNCHANGED m_state

\* Mutant of shutdown: the server does not wait for exit.
shutdownIsExit ==
    /\ Reads("shutdown")
    /\ m_state' = "Inactive"
    /\ Answers(Response("shutdown", "result"))
    /\ UNCHANGED pool

shutdown ==
    /\ Reads("shutdown")
    /\ m_state' = "Shutdown"
    /\ Answers(Response("shutdown", "result"))
    /\ UNCHANGED pool

exit == Reads("exit") /\ m_state' = "Inactive" /\ Quiet /\ UNCHANGED pool

\* An exception of a task is not noticed.
PoolAnswers ==
    /\ pool > 0 /\ server # "ended"
    /\ pool' = pool - 1
    /\ toClient' = Sent(toClient, Response("hover", "result"))
    /\ \E effect \in Effects : server' = IF effect = "killed" THEN "ended" ELSE server
    /\ UNCHANGED <<toServer, lost, broken, clientVars, listener, m_state>>

\* The message handler waits for its pool before the socket is closed.
ServerEnds ==
    /\ server = "finish" /\ pool = 0
    /\ server' = "ended"
    /\ UNCHANGED <<net, clientVars, listener, m_state, pool>>

ServerGone ==
    /\ server = "ended" /\ ~lost
    /\ lost' = TRUE
    /\ toServer' = <<>>
    /\ UNCHANGED <<toClient, broken, clientVars, serverVars>>

Handle == initialize \/ Notified \/ hover \/ shutdown \/ exit
ServerStep == ServerCheck \/ ServerFails \/ Handle \/ ServerEnds \/ ServerGone

Next == Break \/ SetupForListen \/ MainStep \/ LoopStep \/ ServerStep \/ PoolAnswers

\* Threads are scheduled.  Nothing makes the connection break.
Fairness ==
    /\ WF_vars(SetupForListen) /\ WF_vars(MainStep) /\ WF_vars(LoopStep)
    /\ WF_vars(ServerStep) /\ WF_vars(PoolAnswers)

Spec == Init /\ [][Next]_vars /\ Fairness

-----------------------------------------------------------------------------
\* The server is led through its life in order: it is asked to exit when it has shut
\* down, and never changes its state unasked.
Life == INSTANCE LifeCycle WITH
    client <- sentLast, server <- IF server = "ended" THEN "Ended" ELSE m_state
ImplementsLifeCycle == Life!Spec

\* What the client gets for hover: the server knows one document, that of its directory.
HoverAnswer == IF documentUri("client") = documentUri("server") THEN "result" ELSE "error"

\* While the connection holds, the client gets the hover of its document, or an error when
\* that is not the server's, and ends as it should all the same; the server ends not before
\* it is told to, or sees that the process of the client is gone.
CleanSession ==
    ~broken =>
        /\ main \notin {"killed", "terminated"} /\ (main = "failed" => server = "none")
        /\ main \in {"shutdown", "join", "done"} => answers["hover"] = HoverAnswer
        /\ server \in {"finish", "ended"} =>
            /\ m_state = "Inactive" \/ (m_state = "Shutdown" /\ main = "done")
            /\ pool = 0

\* With a connection both programs end, except that the main thread of the client waits
\* for ever for a response once its message thread is gone.
WaitsInVain == main \in {"waitInitialize", "waitHover"} /\ loop = "ended"
SessionEnds ==
    /\ (main = "connect") ~> (main # "connect")
    /\ (listener = "accepted") ~> (server = "ended")
    /\ (listener = "accepted") ~> (main \in Gone \/ WaitsInVain)
=============================================================================
