--------------------------- MODULE SessionProofs ---------------------------
(***************************************************************************)
(* Of Session, for any addresses and directories and whether the           *)
(* connection may be lost or not: the server is led through its life in    *)
(* order, hover is answered according to the document, and a session whose *)
(* connection holds is a clean one.                                        *)
(***************************************************************************)
EXTENDS Session, SequenceTheorems, TLAPS

\* What the client sends, in this order; it may break off and send shutdown, but then the
\* connection is lost and nothing gets through.
Script == <<"initialize", "initialized", "didOpen", "hover", "shutdown", "exit">>
Messages == {"initialize", "initialized", "didOpen", "hover", "shutdown", "exit"}

\* What the server answers: it refuses nothing but to hover over an unknown document.
Responses ==
    [to : {"initialize", "shutdown"}, is : {"result"}] \union [to : {"hover"}, is : {"result", "error"}]

\* Where the client's main thread is before it sends anything, or if it never does
Before == {"connect", "startup", "failed"}

\* Every variable has its type; initialize and shutdown are never answered with an error.
TypeOK ==
    /\ directory \in [{"client", "server"} -> Directories]
    /\ main \in {"connect", "startup", "waitInitialize", "initialized", "open", "hover",
                 "waitHover", "shutdown", "unwind", "join"} \union Gone
    /\ address \in Nat
    /\ m_running \in BOOLEAN
    /\ loop \in {"none", "check", "read", "ended"}
    /\ answers \in [{"initialize", "hover"} -> {"none", "result", "error"}]
    /\ answers["initialize"] # "error"
    /\ listener \in {"closed", "listening", "accepted"}
    /\ server \in {"none", "check", "read", "finish", "ended"}
    /\ m_state \in {"Uninitialized", "Active", "Shutdown", "Inactive"}
    /\ pool \in {0, 1}
    /\ toServer \in Seq(Messages)
    /\ toClient \in Seq(Responses)
    /\ lost \in BOOLEAN /\ broken \in BOOLEAN
    /\ sentLast \in {"none", "initialize", "shutdown", "exit"}

\* How much of the script the client can have got through to the server at most
SentUpTo ==
    CASE sentLast = "none" -> 0
      [] sentLast = "initialize" ->
             IF main \in {"waitInitialize", "initialized"} THEN 1
             ELSE IF main = "open" THEN 2 ELSE IF main = "hover" THEN 3 ELSE 4
      [] sentLast = "shutdown" -> IF main \in {"unwind", "terminated"} THEN 4 ELSE 5
      [] sentLast = "exit" -> 6

\* The server's state when it has handled the first n messages of the script
StateAfter(n) ==
    IF n = 0 THEN "Uninitialized"
    ELSE IF n <= 4 THEN "Active" ELSE IF n = 5 THEN "Shutdown" ELSE "Inactive"

\* A response to the request is on its way.
Underway(request) == \E i \in DOMAIN toClient : toClient[i].to = request

\* The server has handled the first n messages of the script; the next ones wait for it.
Handled(n) ==
    /\ m_state = StateAfter(n)
    /\ \A i \in DOMAIN toServer : toServer[i] = Script[n + i]
    /\ n + Len(toServer) <= SentUpTo
    /\ ~lost => n + Len(toServer) = SentUpTo
    /\ pool = 1 \/ Underway("hover") \/ answers["hover"] # "none" => n >= 4
    /\ Underway("shutdown") => n = 5 /\ sentLast = "shutdown"
    /\ sentLast = "exit" => n >= 5

InOrder == \E n \in 0 .. 6 : Handled(n)

\* hover and shutdown are answered once.
AnsweredOnce ==
    /\ pool = 1 => ~Underway("hover")
    /\ pool = 1 \/ Underway("hover") => answers["hover"] = "none"
    /\ \A i, j \in DOMAIN toClient :
           toClient[i].to = toClient[j].to /\ toClient[i].to # "initialize" => i = j

\* hover is answered with a result if the document is the server's, and refused if not.
HoverAnswered ==
    /\ pool = 1 => HoverAnswer = "result"
    /\ \A i \in DOMAIN toClient : toClient[i].to = "hover" => toClient[i].is = HoverAnswer
    /\ answers["hover"] \in {"none", HoverAnswer}

\* Where the threads are, and what the client has sent
Where ==
    /\ main \in Before <=> sentLast = "none"
    /\ main \in Before <=> loop = "none"
    /\ main \in {"connect", "failed"} <=> server = "none"
    /\ main \in {"waitInitialize", "initialized", "open", "hover", "waitHover", "shutdown"} =>
           sentLast = "initialize"
    /\ sentLast = "exit" => main \in {"join", "done", "killed"}
    /\ main \in {"join", "done"} => sentLast \in {"shutdown", "exit"}
    /\ main = "terminated" => sentLast # "exit"
    /\ server = "none" <=> listener # "accepted"
    /\ loop = "ended" => ~m_running
    /\ main = "done" => loop = "ended"

\* Why a connection is lost and a client stops, in a session that nothing breaks
WhyLost ==
    /\ broken => lost
    /\ lost => broken \/ main \in Gone \/ server = "ended"
    /\ ~broken => main # "unwind"
    /\ ~broken /\ loop # "none" /\ ~m_running => sentLast = "exit"

\* The inductive invariant
IInv == TypeOK /\ InOrder /\ AnsweredOnce /\ HoverAnswered /\ Where /\ WhyLost /\ CleanSession

-----------------------------------------------------------------------------
(* The queues *)

\* The script, message by message
LEMMA ScriptFacts ==
    /\ Script[1] = "initialize" /\ Script[2] = "initialized" /\ Script[3] = "didOpen"
    /\ Script[4] = "hover" /\ Script[5] = "shutdown" /\ Script[6] = "exit"
    /\ \A n \in 0 .. 6 : n \in {0, 1, 2, 3, 4, 5, 6}
    BY DEF Script

\* What is left of a queue when its head is taken
LEMMA TakenFacts ==
    ASSUME NEW S, NEW queue \in Seq(S), queue # <<>>
    PROVE  /\ Head(queue) = queue[1] /\ 1 \in DOMAIN queue
           /\ Tail(queue) \in Seq(S) /\ Len(Tail(queue)) = Len(queue) - 1
           /\ \A i \in DOMAIN Tail(queue) : i + 1 \in DOMAIN queue /\ Tail(queue)[i] = queue[i + 1]
           /\ \A i \in DOMAIN queue : i = 1 \/ i - 1 \in DOMAIN Tail(queue)
    OBVIOUS

\* The empty queue
LEMMA EmptyFacts ==
    ASSUME NEW S, NEW queue \in Seq(S)
    PROVE  /\ <<>> \in Seq(S) /\ DOMAIN <<>> = {} /\ Len(<<>>) = 0
           /\ Len(<<>>) <= Len(queue)
    OBVIOUS

\* What is sent is put at the end of a queue, unless the connection is lost.
LEMMA SentFacts ==
    ASSUME NEW S, NEW queue \in Seq(S), NEW m \in S
    PROVE  /\ Sent(queue, m) \in Seq(S)
           /\ lost => Sent(queue, m) = queue
           /\ ~lost => /\ Len(Sent(queue, m)) = Len(queue) + 1
                       /\ DOMAIN Sent(queue, m) = DOMAIN queue \union {Len(queue) + 1}
                       /\ Len(queue) + 1 \notin DOMAIN queue
                       /\ Sent(queue, m)[Len(queue) + 1] = m
                       /\ \A i \in DOMAIN queue : Sent(queue, m)[i] = queue[i]
    BY DEF Sent

\* What a connection that is lost lets through of a queue
LEMMA PrefixFacts ==
    ASSUME NEW S, NEW queue \in Seq(S), NEW n \in 0 .. Len(queue)
    PROVE  /\ SubSeq(queue, 1, n) \in Seq(S) /\ Len(SubSeq(queue, 1, n)) = n
           /\ n <= Len(queue)
           /\ \A i \in DOMAIN SubSeq(queue, 1, n) :
                  i \in DOMAIN queue /\ SubSeq(queue, 1, n)[i] = queue[i]
    OBVIOUS

\* Which message the server has at the head of its queue tells how far it is.
LEMMA HeadTellsPosition ==
    ASSUME TypeOK, NEW n \in 0 .. 6, Handled(n), toServer # <<>>
    PROVE  /\ Head(toServer) = Script[n + 1] /\ n \in 0 .. 5
           /\ n + 1 <= SentUpTo
<1>1. Head(toServer) = toServer[1] /\ 1 \in DOMAIN toServer /\ Len(toServer) >= 1
    BY DEF TypeOK
<1>2. SentUpTo <= 6
    BY DEF TypeOK, SentUpTo
<1>3. SentUpTo \in Int
    BY DEF TypeOK, SentUpTo
<1>. QED
    BY <1>1, <1>2, <1>3 DEF Handled, TypeOK

-----------------------------------------------------------------------------
(* What never changes *)

\* The programs stay in their directories, so that what hover has to be answered stays, too.
DocumentsStay == directory' = directory /\ HoverAnswer' = HoverAnswer

\* hover has to be answered with one or the other.
LEMMA HoverAnswerType == HoverAnswer \in {"result", "error"}
    BY DEF HoverAnswer

\* No step changes a directory.
LEMMA NobodyMoves ==
    ASSUME [Next]_vars
    PROVE  DocumentsStay
<1>1. directory' = directory
    BY DEF Next, MainStep, LoopStep, ServerStep, Handle, Break, SetupForListen, Connect, ConnectFails,
           Startup, Sends, MainSends, Waits, WaitFor, ShutdownReturns, Joined, ClientGone, LoopCheck,
           LoopFails, LoopCompletes, LoopExits, ServerCheck, ServerFails, initialize, Notified, hover,
           shutdown, exit, Reads, ServerEnds, ServerGone, PoolAnswers, vars, clientVars
<1>. QED
    BY <1>1 DEF DocumentsStay, HoverAnswer, documentUri

-----------------------------------------------------------------------------
(* The steps that no message is sent or read in *)

\* Where the server stands in the script does not change when only threads move on.
LEMMA HandledStays ==
    ASSUME InOrder, AnsweredOnce,
           UNCHANGED <<m_state, toServer, toClient, lost, pool, answers, sentLast>>,
           SentUpTo' = SentUpTo
    PROVE  InOrder' /\ AnsweredOnce'
<1>1. Underway("hover")' = Underway("hover") /\ Underway("shutdown")' = Underway("shutdown")
    BY DEF Underway
<1>2. \A n \in 0 .. 6 : Handled(n) => Handled(n)'
    BY <1>1 DEF Handled, StateAfter
<1>. QED
    BY <1>1, <1>2 DEF InOrder, AnsweredOnce

\* Steps that move a thread on and send nothing.
LEMMA ThreadsMoveOn ==
    ASSUME IInv, DocumentsStay, HoverAnswered',
           \/ SetupForListen \/ Connect \/ ConnectFails \/ Waits \/ ShutdownReturns \/ Joined
           \/ LoopCheck \/ LoopFails \/ ServerCheck \/ ServerFails \/ ServerEnds
    PROVE  IInv'
<1>1. CASE SetupForListen
    <2>1. UNCHANGED <<net, main, address, m_running, loop, answers, sentLast, server, m_state, pool>>
          /\ listener = "closed" /\ listener' = "listening"
        BY <1>1 DEF SetupForListen, clientVars
    <2>2. SentUpTo' = SentUpTo
        BY <2>1 DEF SentUpTo
    <2>. QED
        BY <2>1, <2>2, HandledStays DEF IInv, TypeOK, Where, WhyLost, CleanSession, net, DocumentsStay
<1>2. CASE Connect \/ ConnectFails
    <2>1. /\ UNCHANGED <<net, m_running, loop, answers, sentLast, m_state, pool>>
          /\ main = "connect" /\ address' \in Nat
          /\ \/ main' = "connect" /\ UNCHANGED <<listener, server>>
             \/ main' = "startup" /\ listener' = "accepted" /\ server' = "check"
             \/ main' = "failed" /\ UNCHANGED <<listener, server>>
        BY <1>2 DEF Connect, ConnectFails, serverVars, IInv, TypeOK
    <2>2. SentUpTo' = SentUpTo
        BY <2>1 DEF SentUpTo, IInv, Where, Before
    <2>. QED
        BY <2>1, <2>2, HandledStays
        DEF IInv, TypeOK, Where, WhyLost, CleanSession, net, Before, Gone, DocumentsStay
<1>3. CASE Waits
    <2>1. /\ UNCHANGED <<net, address, m_running, loop, answers, sentLast, serverVars>>
          /\ \/ main = "waitInitialize" /\ main' = "initialized"
             \/ main = "waitHover" /\ main' = "shutdown" /\ answers["hover"] = HoverAnswer
        BY <1>3 DEF Waits, WaitFor, IInv, TypeOK, HoverAnswered
    <2>2. SentUpTo' = SentUpTo
        BY <2>1 DEF SentUpTo, IInv, Where
    <2>. QED
        BY <2>1, <2>2, HandledStays
        DEF IInv, TypeOK, Where, WhyLost, CleanSession, net, serverVars, Before, Gone, DocumentsStay
<1>4. CASE ShutdownReturns
    <2>1. /\ UNCHANGED <<net, address, m_running, loop, answers, sentLast, serverVars>>
          /\ main \in {"shutdown", "unwind"} /\ ~m_running /\ main' = "terminated"
        BY <1>4 DEF ShutdownReturns
    <2>2. SentUpTo' = SentUpTo
        BY <2>1 DEF SentUpTo, IInv, Where, TypeOK, Before, Gone
    <2>3. broken
        BY <2>1 DEF IInv, Where, WhyLost, Before, Gone
    <2>. QED
        BY <2>1, <2>2, <2>3, HandledStays
        DEF IInv, TypeOK, Where, WhyLost, CleanSession, net, serverVars, Before, Gone, DocumentsStay
<1>5. CASE Joined
    <2>1. /\ UNCHANGED <<net, address, m_running, loop, answers, sentLast, serverVars>>
          /\ main = "join" /\ loop = "ended" /\ main' = "done"
        BY <1>5 DEF Joined
    <2>2. SentUpTo' = SentUpTo
        BY <2>1 DEF SentUpTo, IInv, Where, TypeOK, Before, Gone
    <2>. QED
        BY <2>1, <2>2, HandledStays
        DEF IInv, TypeOK, Where, WhyLost, CleanSession, net, serverVars, Before, Gone, DocumentsStay
<1>6. CASE LoopCheck \/ LoopFails
    <2>1. /\ UNCHANGED <<net, main, address, answers, sentLast, serverVars>>
          /\ main \notin Gone /\ loop \in {"check", "read"}
          /\ \/ m_running' = m_running /\ loop' = "read"
             \/ m_running' = FALSE /\ ~m_running /\ loop' = "ended"
             \/ lost /\ m_running' = FALSE /\ loop' = "ended"
        BY <1>6 DEF LoopCheck, LoopFails, LoopRuns, IInv, TypeOK
    <2>2. SentUpTo' = SentUpTo
        BY <2>1 DEF SentUpTo
    <2>3. /\ ~broken /\ lost => m_state = "Inactive"
          /\ m_state = "Inactive" => sentLast = "exit"
        <3>1. ~broken /\ lost => m_state = "Inactive"
            BY <2>1 DEF IInv, WhyLost, CleanSession, Gone
        <3>2. m_state = "Inactive" => sentLast = "exit"
            BY DEF IInv, InOrder, Handled, StateAfter, SentUpTo, TypeOK
        <3>. QED
            BY <3>1, <3>2
    <2>4. TypeOK'
        <3>1. m_running' \in BOOLEAN
            BY <2>1, Zenon DEF IInv, TypeOK
        <3>2. loop' \in {"none", "check", "read", "ended"}
            BY <2>1
        <3>. QED
            BY <2>1, <3>1, <3>2 DEF IInv, TypeOK, net, serverVars, DocumentsStay
    <2>5. main \notin Before /\ main \notin Gone /\ loop' # "none" /\ (loop' = "ended" => ~m_running')
        BY <2>1 DEF IInv, Where
    <2>6. Where'
        BY <2>1, <2>5 DEF IInv, Where, net, serverVars, Gone
    <2>7. UNCHANGED <<main, answers, sentLast, server, m_state, pool, lost, broken>>
        BY <2>1 DEF net, serverVars
    <2>8. CleanSession'
        BY <2>7 DEF IInv, CleanSession, DocumentsStay
    <2>9. ~broken /\ ~m_running' => sentLast = "exit"
        BY <2>1, <2>3 DEF IInv, WhyLost
    <2>10. WhyLost'
        BY <2>7, <2>9 DEF IInv, WhyLost, Gone
    <2>. QED
        BY <2>1, <2>2, <2>4, <2>6, <2>8, <2>10, HandledStays DEF IInv, net, serverVars
<1>7. CASE ServerCheck \/ ServerFails
    <2>1. /\ UNCHANGED <<net, clientVars, listener, m_state, pool>>
          /\ server \in {"check", "read"} /\ server' \in {"read", "finish"}
          /\ server' = "finish" =>
                 \/ m_state = "Inactive"
                 \/ m_state # "Uninitialized" /\ main \in Gone
                 \/ lost
        BY <1>7 DEF ServerCheck, ServerFails
    <2>2. SentUpTo' = SentUpTo
        BY <2>1 DEF SentUpTo, clientVars
    <2>3. PICK n \in 0 .. 6 : Handled(n)
        BY DEF IInv, InOrder
    <2>4. /\ sentLast = "exit" => m_state \in {"Shutdown", "Inactive"}
          /\ m_state = "Inactive" => sentLast = "exit"
        BY <2>3 DEF IInv, Handled, StateAfter, SentUpTo, TypeOK
    <2>5. /\ main = "done" /\ ~broken => sentLast = "exit" /\ pool = 0
          /\ ~broken => main \notin {"killed", "terminated"} /\ main # "failed"
        BY <2>1, HoverAnswerType DEF IInv, TypeOK, Where, WhyLost, CleanSession, AnsweredOnce, Before
    <2>6. m_state = "Inactive" /\ ~broken => pool = 0
        BY <2>4, HoverAnswerType DEF IInv, TypeOK, Where, WhyLost, CleanSession, AnsweredOnce
    <2>7. ~broken /\ lost => main \in Gone
        BY <2>1 DEF IInv, WhyLost
    <2>8. CleanSession'
        BY <2>1, <2>4, <2>5, <2>6, <2>7 DEF CleanSession, IInv, net, clientVars, Gone, DocumentsStay
    <2>9. TypeOK' /\ Where' /\ WhyLost'
        BY <2>1, <2>7 DEF IInv, TypeOK, Where, WhyLost, net, clientVars, Before, Gone, DocumentsStay
    <2>. QED
        BY <2>1, <2>2, <2>8, <2>9, HandledStays DEF IInv, net, clientVars
<1>8. CASE ServerEnds
    <2>1. /\ UNCHANGED <<net, clientVars, listener, m_state, pool>>
          /\ server = "finish" /\ server' = "ended"
        BY <1>8 DEF ServerEnds
    <2>2. SentUpTo' = SentUpTo
        BY <2>1 DEF SentUpTo, clientVars
    <2>. QED
        BY <2>1, <2>2, HandledStays
        DEF IInv, TypeOK, Where, WhyLost, CleanSession, net, clientVars, Before, Gone, DocumentsStay
<1>. QED
    BY <1>1, <1>2, <1>3, <1>4, <1>5, <1>6, <1>7, <1>8

\* What is lost with the connection was the end of what was on its way.
LEMMA ConnectionIsLost ==
    ASSUME IInv, DocumentsStay, HoverAnswered', Break \/ ClientGone \/ ServerGone
    PROVE  IInv'
<1>1. PICK n \in 0 .. 6 : Handled(n)
    BY DEF IInv, InOrder
<1>2. /\ UNCHANGED <<main, address, m_running, loop, answers, sentLast, listener, server, m_state, pool>>
      /\ lost' = TRUE
      /\ \/ broken' = TRUE /\ MayBreak /\ listener = "accepted"
         \/ broken' = broken /\ (main \in Gone \/ server = "ended")
    BY DEF Break, ClientGone, ServerGone, clientVars, serverVars
<1>3. /\ toServer' \in Seq(Messages) /\ Len(toServer') <= Len(toServer) /\ Len(toServer') \in Nat
      /\ \A i \in DOMAIN toServer' : i \in DOMAIN toServer /\ toServer'[i] = toServer[i]
    <2>1. CASE Break
        BY <2>1, PrefixFacts DEF Break, IInv, TypeOK
    <2>2. CASE ClientGone
        BY <2>2 DEF ClientGone, IInv, TypeOK
    <2>3. CASE ServerGone
        <3>1. toServer' = <<>> /\ toServer \in Seq(Messages)
            BY <2>3 DEF ServerGone, IInv, TypeOK
        <3>. QED
            BY <3>1, EmptyFacts
    <2>. QED
        BY <2>1, <2>2, <2>3
<1>4. /\ toClient' \in Seq(Responses)
      /\ \A i \in DOMAIN toClient' : i \in DOMAIN toClient /\ toClient'[i] = toClient[i]
    <2>1. CASE Break
        <3>1. PICK k \in 0 .. Len(toClient) : toClient' = SubSeq(toClient, 1, k)
            BY <2>1 DEF Break
        <3>. QED
            BY <3>1, PrefixFacts DEF IInv, TypeOK
    <2>2. CASE ClientGone
        BY <2>2, EmptyFacts DEF ClientGone
    <2>3. CASE ServerGone
        BY <2>3 DEF ServerGone, IInv, TypeOK
    <2>. QED
        BY <2>1, <2>2, <2>3
<1>5. \A r \in {"hover", "shutdown"} : Underway(r)' => Underway(r)
    BY <1>4 DEF Underway
<1>6. SentUpTo' = SentUpTo /\ SentUpTo \in Nat
    BY <1>2 DEF SentUpTo, IInv, TypeOK
<1>7. Handled(n)'
    <2>1. Len(toServer) \in Nat
        BY DEF IInv, TypeOK
    <2>2. \A i \in DOMAIN toServer' : toServer'[i] = Script[n + i]
        BY <1>1, <1>3 DEF Handled
    <2>3. n + Len(toServer') <= SentUpTo'
        BY <1>1, <1>3, <1>6, <2>1 DEF Handled
    <2>. QED
        BY <1>1, <1>2, <1>5, <2>2, <2>3 DEF Handled, StateAfter
<1>8. AnsweredOnce'
    BY <1>2, <1>4, <1>5 DEF IInv, AnsweredOnce
<1>9. TypeOK' /\ Where'
    <2>1. lost' \in BOOLEAN /\ broken' \in BOOLEAN
        BY <1>2, Zenon DEF IInv, TypeOK
    <2>. QED
        BY <1>2, <1>3, <1>4, <2>1 DEF IInv, TypeOK, Where, DocumentsStay
<1>10. CleanSession'
    BY <1>2 DEF IInv, CleanSession, DocumentsStay
<1>11. WhyLost'
    BY <1>2 DEF IInv, WhyLost
<1>. QED
    BY <1>7, <1>8, <1>9, <1>10, <1>11 DEF IInv, InOrder

-----------------------------------------------------------------------------
(* The client *)

\* While the client runs, and before exit is sent, only a break loses the connection.
LEMMA LostIsBroken ==
    ASSUME IInv, main \notin Gone, sentLast # "exit", lost
    PROVE  broken
<1>1. m_state = "Inactive" => sentLast = "exit"
    BY DEF IInv, InOrder, Handled, StateAfter, SentUpTo, TypeOK
<1>. QED
    BY <1>1 DEF IInv, WhyLost, CleanSession, Gone

\* The next message of the script keeps the order.
LEMMA NextOfScript ==
    ASSUME IInv, NEW n \in 0 .. 6, Handled(n), NEW m \in Messages, ClientSends(m),
           UNCHANGED <<toClient, lost, answers, m_state, pool>>, SentUpTo <= 4,
           sentLast' # "exit", SentUpTo' \in Nat,
           lost => SentUpTo' >= SentUpTo,
           ~lost => Script[SentUpTo + 1] = m /\ SentUpTo' = SentUpTo + 1
    PROVE  Handled(n)' /\ toServer' \in Seq(Messages) /\ AnsweredOnce'
<1>1. /\ toServer \in Seq(Messages) /\ Len(toServer) \in Nat /\ SentUpTo \in Nat
      /\ toServer' = Sent(toServer, m)
    BY DEF IInv, TypeOK, ClientSends, SentUpTo
<1>2. /\ n + Len(toServer) <= SentUpTo
      /\ ~lost => n + Len(toServer) = SentUpTo
      /\ \A i \in DOMAIN toServer : toServer[i] = Script[n + i]
    BY DEF Handled
<1>3. /\ \A i \in DOMAIN toServer' : toServer'[i] = Script[n + i]
      /\ n + Len(toServer') <= SentUpTo'
      /\ ~lost => n + Len(toServer') = SentUpTo'
      /\ toServer' \in Seq(Messages)
    <2>1. CASE lost
        BY <2>1, <1>1, <1>2, SentFacts
    <2>2. CASE ~lost
        <3>1. /\ Len(toServer') = Len(toServer) + 1
              /\ DOMAIN toServer' = DOMAIN toServer \union {Len(toServer) + 1}
              /\ toServer'[Len(toServer) + 1] = m
              /\ \A i \in DOMAIN toServer : toServer'[i] = toServer[i]
              /\ toServer' \in Seq(Messages)
            <4>1. Sent(toServer, m) \in Seq(Messages) /\ Len(Sent(toServer, m)) = Len(toServer) + 1
                BY <2>2, <1>1, SentFacts
            <4>2. DOMAIN Sent(toServer, m) = DOMAIN toServer \union {Len(toServer) + 1}
                BY <2>2, <1>1, SentFacts, Zenon
            <4>3. Sent(toServer, m)[Len(toServer) + 1] = m
                BY <2>2, <1>1 DEF Sent
            <4>4. \A i \in DOMAIN toServer : Sent(toServer, m)[i] = toServer[i]
                BY <2>2, <1>1 DEF Sent
            <4>. QED
                BY <1>1, <4>1, <4>2, <4>3, <4>4, Zenon
        <3>2. n + (Len(toServer) + 1) = SentUpTo + 1
            BY <2>2, <1>1, <1>2
        <3>3. ASSUME NEW i \in DOMAIN toServer'
              PROVE  toServer'[i] = Script[n + i]
            BY <2>2, <1>2, <3>1, <3>2
        <3>. QED
            BY <2>2, <1>1, <3>1, <3>2, <3>3
    <2>. QED
        BY <2>1, <2>2
<1>4. Underway("hover")' = Underway("hover") /\ Underway("shutdown")' = Underway("shutdown")
    BY DEF Underway
<1>5. ~Underway("shutdown")
    BY <1>1, <1>2 DEF Handled
<1>. QED
    BY <1>3, <1>4, <1>5 DEF Handled, StateAfter, IInv, AnsweredOnce

\* The client's main thread sends what comes next.
LEMMA MainSendsNext ==
    ASSUME IInv, DocumentsStay, HoverAnswered', Startup \/ Sends
    PROVE  IInv'
<1>1. PICK n \in 0 .. 6 : Handled(n)
    BY DEF IInv, InOrder
<1>2. PICK from \in {"startup", "initialized", "open", "hover", "shutdown", "unwind"},
           m \in Messages,
           next \in {"waitInitialize", "open", "hover", "waitHover", "join"} :
          /\ MainSends(from, m, next)
          /\ <<from, m, next>> \in
                 {<<"startup", "initialize", "waitInitialize">>, <<"initialized", "initialized", "open">>,
                  <<"open", "didOpen", "hover">>, <<"hover", "hover", "waitHover">>,
                  <<"shutdown", "shutdown", "join">>, <<"unwind", "shutdown", "join">>}
          /\ IF from = "startup" THEN m_running' = TRUE /\ loop' = "check"
                                 ELSE UNCHANGED <<m_running, loop>>
    BY DEF Startup, Sends, Messages
<1>3. /\ main = from /\ ClientSends(m)
      /\ UNCHANGED <<toClient, lost, broken, address, answers, listener, server, m_state, pool>>
      /\ main' = next \/ (lost /\ main' \in {"unwind", "terminated", "killed"})
      /\ main' = "terminated" => from = "unwind"
      /\ sentLast' = IF m \in {"initialize", "shutdown"} THEN m ELSE sentLast
    BY <1>2 DEF MainSends, Effects, serverVars, ClientSends, LifeCycleMessages, Messages
<1>4. /\ main \notin Gone /\ sentLast # "exit"
      /\ sentLast = IF from = "startup" THEN "none" ELSE IF from # "unwind" THEN "initialize" ELSE sentLast
      /\ sentLast \in {"none", "initialize", "shutdown", "exit"}
      /\ from = "unwind" => sentLast \in {"initialize", "shutdown"} /\ broken /\ lost
    BY <1>2, <1>3 DEF IInv, TypeOK, Where, WhyLost, Before, Gone
<1>5. lost => broken
    BY <1>4, LostIsBroken
<1>6. SentUpTo <= 4 /\ SentUpTo \in Nat
    BY <1>2, <1>3, <1>4 DEF SentUpTo
<1>7. sentLast' # "exit" /\ SentUpTo' \in Nat
    BY <1>2, <1>3, <1>4 DEF SentUpTo
<1>8. ASSUME ~lost
      PROVE  Script[SentUpTo + 1] = m /\ SentUpTo' = SentUpTo + 1
    BY <1>2, <1>3, <1>4, <1>8, ScriptFacts DEF SentUpTo
<1>9. ASSUME lost
      PROVE  SentUpTo' >= SentUpTo
    BY <1>2, <1>3, <1>4 DEF SentUpTo
<1>10. Handled(n)' /\ toServer' \in Seq(Messages) /\ AnsweredOnce'
    BY <1>1, <1>3, <1>6, <1>7, <1>8, <1>9, NextOfScript
<1>11. TypeOK'
    <2>1. m_running' \in BOOLEAN /\ loop' \in {"none", "check", "read", "ended"}
        BY <1>2 DEF IInv, TypeOK
    <2>2. main' \in {"waitInitialize", "open", "hover", "waitHover", "join", "unwind"} \union Gone
        BY <1>2, <1>3 DEF Gone
    <2>3. sentLast' \in {"none", "initialize", "shutdown", "exit"}
        BY <1>3, <1>4
    <2>. QED
        BY <1>3, <1>10, <2>1, <2>2, <2>3 DEF IInv, TypeOK, DocumentsStay
<1>12. Where'
    <2>1. /\ main' \notin Before /\ loop' # "none" /\ sentLast' # "none"
          /\ main' # "done" /\ from # "connect"
          /\ main' = "join" => sentLast' = "shutdown"
          /\ main' \in {"waitInitialize", "initialized", "open", "hover", "waitHover", "shutdown"} =>
                 sentLast' = "initialize"
        BY <1>2, <1>3, <1>4 DEF IInv, Where, Before
    <2>2. loop' = "ended" => ~m_running'
        BY <1>2 DEF IInv, Where
    <2>. QED
        BY <1>3, <1>7, <2>1, <2>2 DEF IInv, Where, Before
<1>13. WhyLost'
    <2>1. ~broken => ~lost /\ main' = next
        BY <1>3, <1>5
    <2>2. ~broken /\ loop' # "none" => m_running'
        BY <1>2, <1>3, <1>4 DEF IInv, Where, WhyLost, Before
    <2>. QED
        BY <1>2, <1>3, <1>5, <2>1, <2>2 DEF IInv, WhyLost
<1>14. CleanSession'
    <2>1. ASSUME ~broken
          PROVE  /\ ~lost /\ main' = next
                 /\ next = "join" => answers["hover"] = HoverAnswer
                 /\ server \notin {"finish", "ended"}
        <3>1. ~lost /\ main' = next
            BY <2>1, <1>3, <1>5
        <3>2. next = "join" => from = "shutdown"
            BY <2>1, <1>2, <1>4
        <3>3. m_state # "Inactive"
            BY <1>4 DEF IInv, InOrder, Handled, StateAfter, SentUpTo, TypeOK
        <3>4. main # "done"
            BY <1>4 DEF Gone
        <3>. QED
            BY <2>1, <1>3, <3>1, <3>2, <3>3, <3>4 DEF IInv, CleanSession, DocumentsStay
    <2>. QED
        BY <1>2, <1>3, <2>1 DEF CleanSession, DocumentsStay
<1>. QED
    BY <1>10, <1>11, <1>12, <1>13, <1>14 DEF IInv, InOrder

\* A response that is taken is not under way any longer, and no other is to the same request.
LEMMA TakenResponse ==
    ASSUME IInv, toClient # <<>>, toClient' = Tail(toClient), NEW q, Head(toClient).to = q
    PROVE  /\ toClient' \in Seq(Responses)
           /\ Head(toClient) \in Responses /\ Underway(q)
           /\ \A r : Underway(r)' => Underway(r)
           /\ q # "initialize" => ~Underway(q)'
           /\ \A i, j \in DOMAIN toClient' :
                  toClient'[i].to = toClient'[j].to /\ toClient'[i].to # "initialize" => i = j
<1>1. /\ Head(toClient) = toClient[1] /\ 1 \in DOMAIN toClient /\ toClient \in Seq(Responses)
      /\ toClient' \in Seq(Responses)
      /\ \A i \in DOMAIN toClient' : i + 1 \in DOMAIN toClient /\ toClient'[i] = toClient[i + 1]
      /\ \A i \in DOMAIN toClient' : i \in Nat /\ i # 0
    BY TakenFacts DEF IInv, TypeOK
<1>2. Head(toClient) \in Responses
    BY <1>1
<1>3. \A r : Underway(r)' => Underway(r)
    BY <1>1 DEF Underway
<1>4. Underway(Head(toClient).to)
    BY <1>1 DEF Underway
<1>5. \A i, j \in DOMAIN toClient :
          toClient[i].to = toClient[j].to /\ toClient[i].to # "initialize" => i = j
    BY DEF IInv, AnsweredOnce
<1>6. ASSUME Head(toClient).to # "initialize", NEW i \in DOMAIN toClient',
             toClient'[i].to = Head(toClient).to
      PROVE  FALSE
    BY <1>1, <1>5, <1>6
<1>7. q # "initialize" => ~Underway(q)'
    BY <1>6 DEF Underway
<1>8. \A i, j \in DOMAIN toClient' :
          toClient'[i].to = toClient'[j].to /\ toClient'[i].to # "initialize" => i = j
    BY <1>1, <1>5
<1>. QED
    BY <1>1, <1>2, <1>3, <1>4, <1>7, <1>8

\* The message thread completes a future.
LEMMA FutureCompleted ==
    ASSUME IInv, DocumentsStay, HoverAnswered', LoopCompletes
    PROVE  IInv'
<1>1. PICK n \in 0 .. 6 : Handled(n)
    BY DEF IInv, InOrder
<1>2. PICK q : Head(toClient).to = q
    OBVIOUS
<1>3. /\ UNCHANGED <<toServer, lost, broken, main, address, m_running, sentLast, listener, server,
                     m_state, pool>>
      /\ main \notin Gone /\ loop = "read" /\ loop' = "check"
      /\ toClient # <<>> /\ toClient' = Tail(toClient)
      /\ q # "shutdown" /\ answers' = [answers EXCEPT ![q] = Head(toClient).is]
    BY <1>2 DEF LoopCompletes, LoopRuns, serverVars
<1>4. /\ toClient' \in Seq(Responses)
      /\ Head(toClient) \in Responses /\ Underway(q)
      /\ \A r : Underway(r)' => Underway(r)
      /\ q # "initialize" => ~Underway(q)'
      /\ \A i, j \in DOMAIN toClient' :
             toClient'[i].to = toClient'[j].to /\ toClient'[i].to # "initialize" => i = j
    BY <1>2, <1>3, TakenResponse
<1>5. /\ q \in {"initialize", "hover"}
      /\ answers' \in [{"initialize", "hover"} -> {"none", "result", "error"}]
      /\ answers'["initialize"] # "error"
      /\ q # "hover" => answers'["hover"] = answers["hover"]
      /\ q = "hover" => answers'["hover"] \in {"result", "error"}
    <2>1. /\ q \in {"initialize", "hover"} /\ Head(toClient).is \in {"result", "error"}
          /\ q = "initialize" => Head(toClient).is = "result"
        BY <1>2, <1>3, <1>4 DEF Responses
    <2>. QED
        BY <1>3, <2>1 DEF IInv, TypeOK
<1>6. SentUpTo' = SentUpTo
    BY <1>3 DEF SentUpTo
<1>7. /\ Underway("hover")' => Underway("hover")
      /\ Underway("shutdown")' => Underway("shutdown")
      /\ q = "hover" => Underway("hover") /\ ~Underway("hover")'
    BY <1>4
<1>8. Handled(n)'
    BY <1>1, <1>3, <1>5, <1>6, <1>7 DEF Handled, StateAfter
<1>9. AnsweredOnce'
    <2>1. /\ pool = 1 => ~Underway("hover")
          /\ pool = 1 \/ Underway("hover") => answers["hover"] = "none"
        BY DEF IInv, AnsweredOnce
    <2>. QED
        BY <1>3, <1>4, <1>5, <1>7, <2>1 DEF AnsweredOnce
<1>10. TypeOK'
    BY <1>3, <1>4, <1>5 DEF IInv, TypeOK, DocumentsStay
<1>11. Where' /\ WhyLost'
    BY <1>3 DEF IInv, Where, WhyLost, Gone
<1>12. CleanSession'
    <2>1. q = "hover" => answers["hover"] = "none" /\ answers'["hover"] = HoverAnswer
        BY <1>4, <1>5 DEF IInv, AnsweredOnce, HoverAnswered, DocumentsStay
    <2>. QED
        BY <1>3, <1>5, <2>1 DEF IInv, CleanSession, DocumentsStay
<1>. QED
    BY <1>8, <1>9, <1>10, <1>11, <1>12 DEF IInv, InOrder

\* When a response to shutdown comes, the server has shut down and the client waits for the
\* end of the message thread.
LEMMA ShutdownAnswered ==
    ASSUME IInv, main \notin Gone, Underway("shutdown"), NEW n \in 0 .. 6, Handled(n)
    PROVE  /\ n = 5 /\ sentLast = "shutdown" /\ main = "join"
           /\ m_state = "Shutdown" /\ (lost => broken)
           /\ Len(toServer) = 0 /\ SentUpTo = 5
<1>1. n = 5 /\ sentLast = "shutdown" /\ m_state = "Shutdown"
    BY DEF Handled, StateAfter
<1>2. Len(toServer) \in Nat
    BY DEF IInv, TypeOK
<1>3. SentUpTo = 5 /\ main \notin {"unwind", "terminated"} /\ Len(toServer) = 0
    BY <1>1, <1>2 DEF Handled, SentUpTo
<1>4. main = "join"
    BY <1>1, <1>3 DEF IInv, TypeOK, Where, Before, Gone
<1>. QED
    BY <1>1, <1>3, <1>4, LostIsBroken

\* The message thread sends exit and stops.
LEMMA ExitIsSent ==
    ASSUME IInv, DocumentsStay, HoverAnswered', LoopExits
    PROVE  IInv'
<1>1. PICK n \in 0 .. 6 : Handled(n)
    BY DEF IInv, InOrder
<1>2. /\ UNCHANGED <<lost, broken, address, answers, listener, server, m_state, pool>>
      /\ main \notin Gone /\ loop = "read" /\ loop' \in {"check", "ended"}
      /\ toClient # <<>> /\ toClient' = Tail(toClient) /\ Head(toClient).to = "shutdown"
      /\ m_running' = FALSE
      /\ toServer' = Sent(toServer, "exit") /\ sentLast' = "exit"
      /\ main' = main \/ (lost /\ main' = "killed")
    BY DEF LoopExits, LoopRuns, serverVars, ClientSends, LifeCycleMessages, Effects
<1>3. /\ toClient' \in Seq(Responses) /\ Underway("shutdown")
      /\ \A r : Underway(r)' => Underway(r)
      /\ ~Underway("shutdown")'
      /\ \A i, j \in DOMAIN toClient' :
             toClient'[i].to = toClient'[j].to /\ toClient'[i].to # "initialize" => i = j
    BY <1>2, TakenResponse
<1>4. /\ n = 5 /\ sentLast = "shutdown" /\ main = "join" /\ m_state = "Shutdown"
      /\ lost => broken
      /\ Len(toServer) = 0 /\ SentUpTo = 5
    BY <1>1, <1>2, <1>3, ShutdownAnswered
<1>5. SentUpTo' = 6
    BY <1>2 DEF SentUpTo
<1>6. /\ toServer' \in Seq(Messages)
      /\ \A i \in DOMAIN toServer' : toServer'[i] = Script[n + i]
      /\ n + Len(toServer') <= 6
      /\ ~lost => n + Len(toServer') = 6
    <2>1. toServer = <<>>
        BY <1>4 DEF IInv, TypeOK
    <2>2. toServer' = IF lost THEN <<>> ELSE <<"exit">>
        BY <1>2, <2>1 DEF Sent
    <2>3. CASE lost
        BY <1>4, <2>2, <2>3, EmptyFacts DEF IInv, TypeOK
    <2>4. CASE ~lost
        <3>1. /\ toServer' = <<"exit">> /\ Len(<<"exit">>) = 1
              /\ <<"exit">> \in Seq(Messages) /\ DOMAIN <<"exit">> = {1} /\ <<"exit">>[1] = "exit"
            BY <2>2, <2>4 DEF Messages
        <3>. QED
            BY <1>4, <2>4, <3>1, ScriptFacts
    <2>. QED
        BY <2>3, <2>4
<1>7. Underway("hover")' => Underway("hover")
    BY <1>3
<1>8. Handled(n)'
    BY <1>1, <1>2, <1>3, <1>4, <1>5, <1>6, <1>7 DEF Handled, StateAfter
<1>9. AnsweredOnce'
    BY <1>2, <1>3, <1>7 DEF IInv, AnsweredOnce
<1>10. TypeOK'
    <2>1. /\ main' \in {"join"} \union Gone
          /\ loop' \in {"none", "check", "read", "ended"}
          /\ sentLast' \in {"none", "initialize", "shutdown", "exit"}
        BY <1>2, <1>4 DEF Gone
    <2>2. m_running' \in BOOLEAN
        BY <1>2, Zenon
    <2>. QED
        BY <1>2, <1>3, <1>6, <2>1, <2>2 DEF IInv, TypeOK, DocumentsStay
<1>11. Where' /\ WhyLost'
    BY <1>2, <1>4 DEF IInv, Where, WhyLost, Before, Gone
<1>12. CleanSession'
    BY <1>2, <1>4 DEF IInv, CleanSession, DocumentsStay
<1>. QED
    BY <1>8, <1>9, <1>10, <1>11, <1>12 DEF IInv, InOrder

-----------------------------------------------------------------------------
(* The server *)

\* What a response adds to those under way
LEMMA ResponseSent ==
    ASSUME IInv, NEW m \in Responses, NEW q, m.to = q, q # "initialize" => ~Underway(q),
           toClient' = Sent(toClient, m)
    PROVE  /\ toClient' \in Seq(Responses)
           /\ \A r : Underway(r)' => Underway(r) \/ r = q
           /\ \A i, j \in DOMAIN toClient' :
                  toClient'[i].to = toClient'[j].to /\ toClient'[i].to # "initialize" => i = j
<1>1. toClient \in Seq(Responses)
    BY DEF IInv, TypeOK
<1>2. \A i, j \in DOMAIN toClient :
          toClient[i].to = toClient[j].to /\ toClient[i].to # "initialize" => i = j
    BY DEF IInv, AnsweredOnce
<1>4. CASE lost
    <2>1. toClient' = toClient
        BY <1>4 DEF Sent
    <2>. QED
        BY <1>1, <1>2, <2>1 DEF Underway
<1>5. CASE ~lost
    <2>1. toClient' = Append(toClient, m)
        BY <1>5 DEF Sent
    <2>2. /\ toClient' \in Seq(Responses)
          /\ \A i \in DOMAIN toClient' : \/ i \in DOMAIN toClient /\ toClient'[i] = toClient[i]
                                         \/ i = Len(toClient) + 1 /\ toClient'[i] = m
        BY <1>1, <2>1
    <2>3. \A r : Underway(r)' => Underway(r) \/ r = q
        BY <2>2 DEF Underway
    <2>4. q # "initialize" => \A i \in DOMAIN toClient : toClient[i].to # q
        BY DEF Underway
    <2>. QED
        BY <1>2, <2>2, <2>3, <2>4
<1>. QED
    BY <1>4, <1>5

\* The answers to the script, which are all responses
LEMMA ResponseFacts ==
    /\ \A r \in {"initialize", "shutdown"} :
           Response(r, "result") \in Responses /\ Response(r, "result").to = r
    /\ \A is \in {"result", "error"} :
           /\ Response("hover", is) \in Responses
           /\ Response("hover", is).to = "hover" /\ Response("hover", is).is = is
    BY DEF Response, Responses

\* The server stands where it does, and the message it reads is the next of the script.
LEMMA NextIsRead ==
    ASSUME IInv, NEW n \in 0 .. 6, Handled(n), NEW m, Reads(m)
    PROVE  /\ n \in 0 .. 5 /\ m = Script[n + 1] /\ n + 1 <= SentUpTo
           /\ toServer' \in Seq(Messages)
           /\ \A i \in DOMAIN toServer' : toServer'[i] = Script[n + 1 + i]
           /\ n + 1 + Len(toServer') <= SentUpTo
           /\ ~lost => n + 1 + Len(toServer') = SentUpTo
           /\ lost /\ n < 5 => broken
<1>1. toServer # <<>> /\ toServer' = Tail(toServer) /\ m = Head(toServer) /\ server = "read"
    BY DEF Reads
<1>2. n \in 0 .. 5 /\ m = Script[n + 1] /\ n + 1 <= SentUpTo
    BY <1>1, HeadTellsPosition DEF IInv
<1>3. /\ toServer' \in Seq(Messages) /\ Len(toServer') = Len(toServer) - 1
      /\ \A i \in DOMAIN toServer' : i + 1 \in DOMAIN toServer /\ toServer'[i] = toServer[i + 1]
      /\ \A i \in DOMAIN toServer' : i \in Nat
    BY <1>1, TakenFacts DEF IInv, TypeOK
<1>4. Len(toServer) \in Nat /\ SentUpTo \in Nat
    BY DEF IInv, TypeOK, SentUpTo
<1>5. ASSUME NEW i \in DOMAIN toServer'
      PROVE  toServer'[i] = Script[n + 1 + i]
    <2>1. toServer'[i] = Script[n + (i + 1)]
        BY <1>3 DEF Handled
    <2>2. n + (i + 1) = n + 1 + i
        BY <1>3
    <2>. QED
        BY <2>1, <2>2
<1>6. n + 1 + Len(toServer') = n + Len(toServer)
    BY <1>3, <1>4
<1>7. lost /\ n < 5 => broken
    <2>1. n < 5 => sentLast # "exit"
        BY DEF Handled
    <2>2. ~broken /\ main \in Gone => sentLast = "exit" \/ main = "failed"
        BY DEF IInv, CleanSession, WhyLost, Where, Gone, Before
    <2>3. ~broken /\ lost => main \in Gone
        BY <1>1 DEF IInv, WhyLost
    <2>4. main # "failed"
        BY <1>1 DEF IInv, Where
    <2>. QED
        BY <2>1, <2>2, <2>3, <2>4
<1>. QED
    BY <1>2, <1>3, <1>5, <1>6, <1>7 DEF Handled

\* The server answers, or fails with a connection that is lost.
LEMMA AnswersFacts ==
    ASSUME NEW r, Answers(r)
    PROVE  /\ toClient' = Sent(toClient, r)
           /\ server' = "check" \/ (lost /\ server' \in {"finish", "ended"})
<1>1. PICK effect \in Effects :
          server' = CASE effect = "sent" -> "check"
                      [] effect = "throws" -> "finish"
                      [] effect = "killed" -> "ended"
    BY DEF Answers
<1>2. effect = "sent" \/ (lost /\ effect \in {"throws", "killed"})
    BY DEF Effects
<1>. QED
    BY <1>1, <1>2 DEF Answers

\* The message that the server handles is the next of the script.
LEMMA HandlesNext ==
    ASSUME IInv, NEW n \in 0 .. 6, Handled(n), Handle
    PROVE  /\ m_state' = StateAfter(n + 1)
           /\ pool' = IF n = 3 /\ HoverAnswer = "result" THEN pool + 1 ELSE pool
           /\ CASE n = 0 -> Answers(Response("initialize", "result"))
                [] n = 4 -> Answers(Response("shutdown", "result"))
                [] n = 3 /\ HoverAnswer = "error" -> Answers(Response("hover", "error"))
                [] OTHER -> UNCHANGED toClient /\ server' = "check"
<1>. PICK m \in Messages : Reads(m)
    BY DEF Handle, initialize, Notified, hover, shutdown, exit, Messages
<1>1. n \in 0 .. 5 /\ m = Script[n + 1] /\ m_state = StateAfter(n)
    BY NextIsRead DEF Handled
<1>2. \A x \in Messages : Reads(x) => x = m
    BY DEF Reads
<1>3. CASE n = 0
    <2>1. m = "initialize" /\ m_state = "Uninitialized"
        BY <1>3, <1>1, ScriptFacts DEF StateAfter
    <2>2. initialize
        BY <2>1, <1>2 DEF Handle, Notified, hover, shutdown, exit, Messages
    <2>. QED
        BY <1>3, <2>1, <2>2 DEF initialize, StateAfter
<1>4. CASE n \in {1, 2}
    <2>1. m \in {"initialized", "didOpen"} /\ m_state = "Active"
        BY <1>4, <1>1, ScriptFacts DEF StateAfter
    <2>2. Notified
        BY <2>1, <1>2 DEF Handle, initialize, hover, shutdown, exit, Messages
    <2>. QED
        BY <1>4, <2>1, <2>2 DEF Notified, Quiet, StateAfter
<1>5. CASE n = 3
    <2>1. m = "hover" /\ m_state = "Active"
        BY <1>5, <1>1, ScriptFacts DEF StateAfter
    <2>2. hover
        BY <2>1, <1>2 DEF Handle, initialize, Notified, shutdown, exit, Messages
    <2>. QED
        BY <1>5, <2>1, <2>2 DEF hover, Quiet, StateAfter, HoverAnswer
<1>6. CASE n = 4
    <2>1. m = "shutdown"
        BY <1>6, <1>1, ScriptFacts
    <2>2. shutdown
        BY <2>1, <1>2 DEF Handle, initialize, Notified, hover, exit, Messages
    <2>. QED
        BY <1>6, <2>2 DEF shutdown, StateAfter
<1>7. CASE n = 5
    <2>1. m = "exit"
        BY <1>7, <1>1, ScriptFacts
    <2>2. exit
        BY <2>1, <1>2 DEF Handle, initialize, Notified, hover, shutdown, Messages
    <2>. QED
        BY <1>7, <2>2 DEF exit, Quiet, StateAfter
<1>. QED
    BY <1>1, <1>3, <1>4, <1>5, <1>6, <1>7

\* The server handles the next message of the script.
LEMMA MessageHandled ==
    ASSUME IInv, DocumentsStay, HoverAnswered', Handle
    PROVE  IInv'
<1>1. PICK n \in 0 .. 6 : Handled(n)
    BY DEF IInv, InOrder
<1>2. PICK m \in Messages : Reads(m)
    BY DEF Handle, initialize, Notified, hover, shutdown, exit, Messages
<1>3. /\ UNCHANGED <<lost, broken, main, address, m_running, loop, answers, sentLast, listener>>
      /\ server = "read"
    BY <1>2 DEF Reads, clientVars
<1>4. /\ n \in 0 .. 5 /\ m = Script[n + 1] /\ n + 1 <= SentUpTo
      /\ toServer' \in Seq(Messages)
      /\ \A i \in DOMAIN toServer' : toServer'[i] = Script[n + 1 + i]
      /\ n + 1 + Len(toServer') <= SentUpTo
      /\ ~lost => n + 1 + Len(toServer') = SentUpTo
      /\ lost /\ n < 5 => broken
    BY <1>1, <1>2, NextIsRead
<1>5. SentUpTo' = SentUpTo
    BY <1>3 DEF SentUpTo
<1>6. /\ m_state = StateAfter(n)
      /\ pool = 1 \/ Underway("hover") \/ answers["hover"] # "none" => n >= 4
      /\ Underway("shutdown") => n = 5 /\ sentLast = "shutdown"
      /\ sentLast = "exit" => n >= 5
      /\ n >= 4 => sentLast \in {"shutdown", "exit"}
      /\ n = 5 => sentLast = "exit"
    BY <1>1, <1>4 DEF Handled, SentUpTo, IInv, TypeOK
<1>7. /\ m_state' = StateAfter(n + 1)
      /\ pool' = IF n = 3 /\ HoverAnswer = "result" THEN pool + 1 ELSE pool
      /\ CASE n = 0 -> Answers(Response("initialize", "result"))
           [] n = 4 -> Answers(Response("shutdown", "result"))
           [] n = 3 /\ HoverAnswer = "error" -> Answers(Response("hover", "error"))
           [] OTHER -> UNCHANGED toClient /\ server' = "check"
    BY <1>1, HandlesNext
<1>8. /\ toClient' \in Seq(Responses)
      /\ \A r : Underway(r)' =>
             \/ Underway(r)
             \/ n = 0 /\ r = "initialize"
             \/ n = 4 /\ r = "shutdown"
             \/ n = 3 /\ r = "hover" /\ HoverAnswer = "error"
      /\ \A i, j \in DOMAIN toClient' :
             toClient'[i].to = toClient'[j].to /\ toClient'[i].to # "initialize" => i = j
      /\ server' = "check" \/ (lost /\ n # 5 /\ server' \in {"finish", "ended"})
    <2>1. CASE n = 0
        <3>1. Answers(Response("initialize", "result"))
            BY <2>1, <1>7
        <3>. QED
            BY <2>1, <3>1, AnswersFacts, ResponseSent, ResponseFacts
    <2>2. CASE n = 4
        <3>1. Answers(Response("shutdown", "result")) /\ ~Underway("shutdown")
            BY <2>2, <1>6, <1>7
        <3>. QED
            BY <2>2, <3>1, AnswersFacts, ResponseSent, ResponseFacts
    <2>3. CASE n = 3 /\ HoverAnswer = "error"
        <3>1. Answers(Response("hover", "error")) /\ ~Underway("hover")
            BY <2>3, <1>6, <1>7
        <3>. QED
            BY <2>3, <3>1, AnswersFacts, ResponseSent, ResponseFacts
    <2>4. CASE n \notin {0, 4} /\ ~(n = 3 /\ HoverAnswer = "error")
        <3>1. UNCHANGED toClient /\ server' = "check"
            BY <2>4, <1>7
        <3>. QED
            BY <3>1 DEF Underway, IInv, TypeOK, AnsweredOnce
    <2>. QED
        BY <2>1, <2>2, <2>3, <2>4
<1>9. /\ pool' \in {0, 1} /\ pool \in {0, 1}
      /\ pool' = 1 => pool = 1 \/ (n = 3 /\ HoverAnswer = "result")
    BY <1>6, <1>7 DEF IInv, TypeOK
<1>10. /\ Underway("hover")' => Underway("hover") \/ (n = 3 /\ HoverAnswer = "error")
       /\ Underway("shutdown")' => n = 4 \/ Underway("shutdown")
    BY <1>8
<1>11. Handled(n + 1)'
    <2>1. /\ pool' = 1 \/ Underway("hover")' \/ answers'["hover"] # "none" => n + 1 >= 4
          /\ Underway("shutdown")' => n + 1 = 5 /\ sentLast' = "shutdown"
          /\ sentLast' = "exit" => n + 1 >= 5
        BY <1>3, <1>4, <1>6, <1>9, <1>10
    <2>. QED
        BY <1>3, <1>4, <1>5, <1>7, <2>1 DEF Handled, StateAfter
<1>12. AnsweredOnce'
    <2>1. /\ pool = 1 => ~Underway("hover")
          /\ pool = 1 \/ Underway("hover") => answers["hover"] = "none"
        BY DEF IInv, AnsweredOnce
    <2>. QED
        BY <1>3, <1>4, <1>6, <1>8, <1>9, <1>10, <2>1 DEF AnsweredOnce
<1>13. TypeOK'
    <2>1. m_state' \in {"Uninitialized", "Active", "Shutdown", "Inactive"}
        BY <1>4, <1>7 DEF StateAfter
    <2>2. server' \in {"none", "check", "read", "finish", "ended"}
        BY <1>8
    <2>. QED
        BY <1>3, <1>4, <1>8, <1>9, <2>1, <2>2 DEF IInv, TypeOK, DocumentsStay
<1>14. Where' /\ WhyLost'
    <2>1. server' # "none"
        BY <1>8
    <2>. QED
        BY <1>3, <2>1 DEF IInv, Where, WhyLost
<1>15. CleanSession'
    <2>1. ~broken => server' = "check"
        BY <1>4, <1>8
    <2>. QED
        BY <1>3, <2>1 DEF IInv, CleanSession, DocumentsStay
<1>. QED
    BY <1>4, <1>11, <1>12, <1>13, <1>14, <1>15 DEF IInv, InOrder

\* The pool answers the hover request.
LEMMA PoolAnswered ==
    ASSUME IInv, DocumentsStay, HoverAnswered', PoolAnswers
    PROVE  IInv'
<1>1. PICK n \in 0 .. 6 : Handled(n)
    BY DEF IInv, InOrder
<1>2. /\ UNCHANGED <<toServer, lost, broken, main, address, m_running, loop, answers, sentLast,
                     listener, m_state>>
      /\ pool = 1 /\ pool' = 0 /\ server # "ended"
      /\ toClient' = Sent(toClient, Response("hover", "result"))
      /\ server' = server \/ (lost /\ server' = "ended")
    BY DEF PoolAnswers, clientVars, Effects, IInv, TypeOK
<1>3. ~Underway("hover") /\ answers["hover"] = "none" /\ n >= 4
    BY <1>1, <1>2 DEF IInv, AnsweredOnce, Handled
<1>4. /\ toClient' \in Seq(Responses)
      /\ \A r : Underway(r)' => Underway(r) \/ r = "hover"
      /\ \A i, j \in DOMAIN toClient' :
             toClient'[i].to = toClient'[j].to /\ toClient'[i].to # "initialize" => i = j
    BY <1>2, <1>3, ResponseSent, ResponseFacts
<1>5. SentUpTo' = SentUpTo /\ SentUpTo >= 4
    <2>1. Len(toServer) \in Nat /\ SentUpTo \in Nat
        BY DEF IInv, TypeOK, SentUpTo
    <2>2. SentUpTo' = SentUpTo
        BY <1>2 DEF SentUpTo
    <2>. QED
        BY <1>1, <1>3, <2>1, <2>2 DEF Handled
<1>6. Underway("shutdown")' => Underway("shutdown")
    BY <1>4
<1>7. Handled(n)'
    BY <1>1, <1>2, <1>3, <1>5, <1>6 DEF Handled, StateAfter
<1>8. AnsweredOnce'
    BY <1>2, <1>3, <1>4 DEF AnsweredOnce
<1>9. TypeOK'
    <2>1. server' \in {"none", "check", "read", "finish", "ended"}
        BY <1>2 DEF IInv, TypeOK
    <2>. QED
        BY <1>2, <1>4, <2>1 DEF IInv, TypeOK, DocumentsStay
<1>10. server # "none"
    BY <1>5 DEF IInv, Where, Before, SentUpTo
<1>11. Where' /\ WhyLost'
    BY <1>2, <1>10 DEF IInv, Where, WhyLost
<1>12. CleanSession'
    <2>1. ~broken => main \notin Gone
        BY <1>2, <1>3, <1>10, HoverAnswerType DEF IInv, CleanSession, Where, Gone
    <2>2. ~broken => server' = server
        BY <1>2, <2>1 DEF IInv, WhyLost
    <2>3. ~broken => server \notin {"finish", "ended"}
        BY <1>2 DEF IInv, CleanSession, DocumentsStay
    <2>. QED
        BY <1>2, <2>2, <2>3 DEF IInv, CleanSession, DocumentsStay
<1>. QED
    BY <1>7, <1>8, <1>9, <1>11, <1>12 DEF IInv, InOrder

-----------------------------------------------------------------------------
(* The answer to hover *)

\* A right answer that is sent joins those that are on their way.
LEMMA RightAnswerSent ==
    ASSUME TypeOK, NEW m \in Responses, m.to = "hover" => m.is = HoverAnswer,
           toClient' = Sent(toClient, m),
           \A i \in DOMAIN toClient : toClient[i].to = "hover" => toClient[i].is = HoverAnswer
    PROVE  \A i \in DOMAIN toClient' : toClient'[i].to = "hover" => toClient'[i].is = HoverAnswer
<1>1. \A i \in DOMAIN toClient' : \/ i \in DOMAIN toClient /\ toClient'[i] = toClient[i]
                                  \/ toClient'[i] = m
    BY DEF TypeOK, Sent
<1>. QED
    BY <1>1

\* What one step does to the answers to hover
LEMMA HoverStep ==
    ASSUME IInv, [Next]_vars
    PROVE  HoverAnswered'
<1>1. HoverAnswer' = HoverAnswer
    BY NobodyMoves DEF DocumentsStay
<1>2. /\ pool = 1 => HoverAnswer = "result"
      /\ \A i \in DOMAIN toClient : toClient[i].to = "hover" => toClient[i].is = HoverAnswer
      /\ answers["hover"] \in {"none", HoverAnswer}
      /\ toClient \in Seq(Responses) /\ pool \in {0, 1}
      /\ TypeOK
    BY DEF IInv, HoverAnswered, TypeOK
<1>3. CASE UNCHANGED <<toClient, answers, pool>>
    BY <1>1, <1>2, <1>3 DEF HoverAnswered
<1>4. CASE Break \/ ClientGone
    <2>1. UNCHANGED <<answers, pool>>
        BY <1>4 DEF Break, ClientGone, clientVars, serverVars
    <2>2. \A i \in DOMAIN toClient' : i \in DOMAIN toClient /\ toClient'[i] = toClient[i]
        <3>1. CASE Break
            <4>1. PICK k \in 0 .. Len(toClient) : toClient' = SubSeq(toClient, 1, k)
                BY <3>1 DEF Break
            <4>. QED
                BY <1>2, <4>1, PrefixFacts
        <3>2. CASE ClientGone
            BY <1>2, <3>2, EmptyFacts DEF ClientGone
        <3>. QED
            BY <1>4, <3>1, <3>2
    <2>. QED
        BY <1>1, <1>2, <2>1, <2>2 DEF HoverAnswered
<1>5. CASE LoopCompletes \/ LoopExits
    <2>1. /\ toClient # <<>> /\ toClient' = Tail(toClient) /\ pool' = pool
          /\ \/ answers' = answers
             \/ answers' = [answers EXCEPT ![Head(toClient).to] = Head(toClient).is]
        BY <1>5 DEF LoopCompletes, LoopExits, serverVars
    <2>2. /\ Head(toClient) = toClient[1] /\ 1 \in DOMAIN toClient
          /\ \A i \in DOMAIN toClient' : i + 1 \in DOMAIN toClient /\ toClient'[i] = toClient[i + 1]
        BY <1>2, <2>1, TakenFacts
    <2>3. answers'["hover"] = answers["hover"] \/ answers'["hover"] = HoverAnswer
        BY <1>2, <2>1, <2>2 DEF TypeOK
    <2>. QED
        BY <1>1, <1>2, <2>1, <2>2, <2>3 DEF HoverAnswered
<1>6. CASE Handle
    <2>1. PICK n \in 0 .. 6 : Handled(n)
        BY DEF IInv, InOrder
    <2>2. answers' = answers
        BY <1>6 DEF Handle, initialize, Notified, hover, shutdown, exit, Reads, clientVars
    <2>3. /\ pool' = IF n = 3 /\ HoverAnswer = "result" THEN pool + 1 ELSE pool
          /\ CASE n = 0 -> Answers(Response("initialize", "result"))
               [] n = 4 -> Answers(Response("shutdown", "result"))
               [] n = 3 /\ HoverAnswer = "error" -> Answers(Response("hover", "error"))
               [] OTHER -> UNCHANGED toClient /\ server' = "check"
        BY <1>6, <2>1, HandlesNext
    <2>4. pool' = 1 => HoverAnswer = "result"
        BY <1>2, <2>3
    <2>5. \A i \in DOMAIN toClient' : toClient'[i].to = "hover" => toClient'[i].is = HoverAnswer
        <3>1. CASE n = 0
            <4>1. Answers(Response("initialize", "result"))
                BY <2>3, <3>1
            <4>. QED
                BY <1>2, <4>1, AnswersFacts, ResponseFacts, RightAnswerSent
        <3>2. CASE n = 4
            <4>1. Answers(Response("shutdown", "result"))
                BY <2>3, <3>2
            <4>. QED
                BY <1>2, <4>1, AnswersFacts, ResponseFacts, RightAnswerSent
        <3>3. CASE n = 3 /\ HoverAnswer = "error"
            <4>1. Answers(Response("hover", "error"))
                BY <2>3, <3>3
            <4>. QED
                BY <1>2, <3>3, <4>1, AnswersFacts, ResponseFacts, RightAnswerSent
        <3>4. CASE n \notin {0, 4} /\ ~(n = 3 /\ HoverAnswer = "error")
            BY <1>2, <2>3, <3>4
        <3>. QED
            BY <3>1, <3>2, <3>3, <3>4
    <2>. QED
        BY <1>1, <1>2, <2>2, <2>4, <2>5 DEF HoverAnswered
<1>7. CASE PoolAnswers
    <2>1. /\ answers' = answers /\ pool = 1 /\ pool' = 0
          /\ toClient' = Sent(toClient, Response("hover", "result"))
        BY <1>2, <1>7 DEF PoolAnswers, clientVars
    <2>2. \A i \in DOMAIN toClient' : toClient'[i].to = "hover" => toClient'[i].is = HoverAnswer
        BY <1>2, <2>1, ResponseFacts, RightAnswerSent
    <2>. QED
        BY <1>1, <1>2, <2>1, <2>2 DEF HoverAnswered
<1>8. UNCHANGED <<toClient, answers, pool>> \/ Break \/ ClientGone \/ LoopStep \/ Handle \/ PoolAnswers
    BY DEF Next, MainStep, ServerStep, SetupForListen, Connect, ConnectFails, Startup, Sends, MainSends,
           Waits, WaitFor, ShutdownReturns, Joined, ServerCheck, ServerFails, ServerEnds, ServerGone, vars,
           net, clientVars, serverVars
<1>9. LoopStep => UNCHANGED <<toClient, answers, pool>> \/ LoopCompletes \/ LoopExits
    BY DEF LoopStep, LoopCheck, LoopFails, net, serverVars
<1>. QED
    BY <1>3, <1>4, <1>5, <1>6, <1>7, <1>8, <1>9

-----------------------------------------------------------------------------
(* The theorems *)

\* Initially nothing has been sent.
LEMMA InitIInv == Init => IInv
<1>. SUFFICES ASSUME Init
              PROVE  IInv
    OBVIOUS
<1>1. TypeOK
    <2>1. answers \in [{"initialize", "hover"} -> {"none", "result", "error"}]
        BY DEF Init
    <2>2. m_running \in BOOLEAN /\ lost \in BOOLEAN /\ broken \in BOOLEAN
        BY Zenon DEF Init
    <2>3. toServer \in Seq(Messages) /\ toClient \in Seq(Responses)
        BY DEF Init
    <2>. QED
        BY <2>1, <2>2, <2>3 DEF Init, TypeOK
<1>2. Handled(0)
    BY DEF Init, Handled, StateAfter, SentUpTo, Underway
<1>3. AnsweredOnce /\ HoverAnswered /\ Where /\ WhyLost
    BY DEF Init, AnsweredOnce, HoverAnswered, Where, WhyLost, Before, Underway
<1>4. CleanSession
    BY DEF Init, CleanSession
<1>. QED
    BY <1>1, <1>2, <1>3, <1>4 DEF IInv, InOrder

\* Every step keeps the invariant.
LEMMA StepIInv == IInv /\ [Next]_vars => IInv'
<1>. SUFFICES ASSUME IInv, [Next]_vars
              PROVE  IInv'
    OBVIOUS
<1>1. CASE UNCHANGED vars
    <2>1. SentUpTo' = SentUpTo
        BY <1>1 DEF vars, net, clientVars, serverVars, SentUpTo
    <2>2. InOrder' /\ AnsweredOnce'
        BY <1>1, <2>1, HandledStays DEF vars, net, clientVars, serverVars, IInv
    <2>3. TypeOK' /\ Where' /\ WhyLost'
        BY <1>1 DEF vars, net, clientVars, serverVars, IInv, TypeOK, Where, WhyLost
    <2>4. CleanSession'
        BY <1>1, NobodyMoves DEF vars, net, clientVars, serverVars, IInv, CleanSession, DocumentsStay
    <2>. QED
        BY <2>2, <2>3, <2>4, HoverStep DEF IInv
<1>. QED
    BY <1>1, NobodyMoves, HoverStep, ThreadsMoveOn, ConnectionIsLost, MainSendsNext, FutureCompleted,
       ExitIsSent, MessageHandled, PoolAnswered
    DEF Next, MainStep, LoopStep, ServerStep

\* IInv is an invariant.
THEOREM Invariance == Spec => []IInv
    BY InitIInv, StepIInv, PTL DEF Spec

\* The state of the two programs and of the connection always has its type; in particular
\* the client is never refused initialize or shutdown, whether the connection holds or not.
THEOREM TypeCorrect == Spec => []TypeOK
    BY Invariance, PTL DEF IInv

\* The client never gets another answer to hover than the one its document calls for: the
\* text if the programs were started in the same directory, an error if not, also when the
\* connection breaks.
THEOREM HoverIsAnswered == Spec => []HoverAnswered
    BY Invariance, PTL DEF IInv

\* A session whose connection nothing breaks is a clean one: the client gets the hover of its
\* document, or an error when that is not the server's, and ends as it should, and the server
\* when it has been told to, its work done.
THEOREM SessionIsClean == Spec => []CleanSession
    BY Invariance, PTL DEF IInv

\* Every step leads the server on through its life, or leaves it where it is.
LEMMA StepLife ==
    ASSUME IInv, [Next]_vars
    PROVE  [Life!Next]_<<sentLast, IF server = "ended" THEN "Ended" ELSE m_state>>
<1>. DEFINE state == IF server = "ended" THEN "Ended" ELSE m_state
<1>. USE DEF Life!Next, Life!ClientSteps, Life!ServerSteps, Life!Ends, Life!Sends, Life!Turns
<1>1. PICK n \in 0 .. 6 : Handled(n)
    BY DEF IInv, InOrder
<1>2. CASE UNCHANGED <<sentLast, server, m_state>>
    BY <1>2
<1>3. CASE UNCHANGED <<sentLast, m_state>> /\ server # "ended"
    <2>1. m_state # "Ended"
        BY DEF IInv, TypeOK
    <2>. QED
        BY <1>3, <2>1
<1>4. CASE Startup \/ Sends
    <2>1. /\ UNCHANGED <<server, m_state>>
          /\ \/ sentLast' = sentLast
             \/ main = "startup" /\ sentLast' = "initialize"
             \/ main \in {"shutdown", "unwind"} /\ sentLast' = "shutdown"
        BY <1>4 DEF Startup, Sends, MainSends, ClientSends, LifeCycleMessages, serverVars
    <2>2. /\ main = "startup" => sentLast = "none"
          /\ main \in {"shutdown", "unwind"} => sentLast \in {"initialize", "shutdown"}
        BY DEF IInv, TypeOK, Where, Before
    <2>. QED
        BY <2>1, <2>2
<1>5. CASE LoopExits
    <2>1. UNCHANGED <<server, m_state>> /\ sentLast' = "exit"
        BY <1>5 DEF LoopExits, ClientSends, LifeCycleMessages, serverVars
    <2>2. main \notin Gone /\ Underway("shutdown")
        <3>1. main \notin Gone /\ toClient # <<>> /\ Head(toClient).to = "shutdown"
            BY <1>5 DEF LoopExits, LoopRuns
        <3>. QED
            BY <3>1, TakenFacts DEF Underway, IInv, TypeOK
    <2>3. sentLast = "shutdown" /\ m_state = "Shutdown"
        BY <1>1, <2>2, ShutdownAnswered
    <2>. QED
        BY <2>1, <2>3
<1>6. CASE Handle
    <2>1. UNCHANGED sentLast /\ server = "read"
        BY <1>6 DEF Handle, initialize, Notified, hover, shutdown, exit, Reads, clientVars
    <2>2. PICK m : Reads(m)
        BY <1>6 DEF Handle, initialize, Notified, hover, shutdown, exit
    <2>3. /\ m_state = StateAfter(n) /\ n \in 0 .. 5 /\ n + 1 <= SentUpTo
          /\ sentLast = "exit" => n >= 5
        BY <1>1, <2>2, NextIsRead DEF Handled
    <2>4. /\ sentLast # "none"
          /\ n >= 4 => sentLast \in {"shutdown", "exit"}
          /\ n = 5 => sentLast = "exit"
        BY <2>3 DEF SentUpTo, IInv, TypeOK
    <2>5. m_state' = StateAfter(n + 1)
        BY <1>1, <1>6, HandlesNext
    <2>. QED
        BY <2>1, <2>3, <2>4, <2>5 DEF StateAfter
<1>7. CASE Break \/ SetupForListen \/ ConnectFails \/ Waits \/ ShutdownReturns \/ Joined \/ ClientGone
    BY <1>2, <1>7 DEF Break, SetupForListen, ConnectFails, Waits, WaitFor, ShutdownReturns, Joined,
                      ClientGone, clientVars, serverVars
<1>8. CASE LoopCheck \/ LoopFails \/ LoopCompletes \/ ServerGone
    BY <1>2, <1>8 DEF LoopCheck, LoopFails, LoopCompletes, ServerGone, clientVars, serverVars
<1>9. CASE Connect
    <2>1. UNCHANGED <<sentLast, m_state>> /\ main = "connect"
        BY <1>9 DEF Connect
    <2>. QED
        BY <1>3, <2>1 DEF IInv, Where
<1>10. CASE ServerCheck \/ ServerFails \/ ServerEnds \/ PoolAnswers
    BY <1>3, <1>10 DEF ServerCheck, ServerFails, ServerEnds, PoolAnswers, clientVars
<1>11. CASE UNCHANGED vars
    BY <1>2, <1>11 DEF vars, clientVars, serverVars
<1>. QED
    BY <1>4, <1>5, <1>6, <1>7, <1>8, <1>9, <1>10, <1>11
    DEF Next, MainStep, LoopStep, ServerStep

\* In every session, whether the connection is lost or not, the server goes through its life
\* in order: initialized by the client, shut down by it and then told to exit.
THEOREM LifeCycleKept == Spec => ImplementsLifeCycle
<1>1. Init => Life!Init
    BY DEF Init, Life!Init
<1>2. IInv /\ [Next]_vars => [Life!Next]_<<sentLast, IF server = "ended" THEN "Ended" ELSE m_state>>
    BY StepLife
<1>. QED
    BY <1>1, <1>2, Invariance, PTL DEF Spec, ImplementsLifeCycle, Life!Spec
=============================================================================
