-------------------------- MODULE OutgoingRequests --------------------------
(***************************************************************************)
(* The sending half of lsp::MessageHandler: sendRequest, the map of        *)
(* pending requests, processResponse and the result objects that complete  *)
(* a future or invoke callbacks (src/lsp/messagehandler.cpp, .h, .inl).    *)
(*                                                                         *)
(* A request is known by the value of the counter when it was sent; the id *)
(* on the wire is that value in the width of json::Integer.  The peer is   *)
(* free: it answers what was written to it in any order, late, twice, and  *)
(* may answer what nobody asked.                                           *)
(***************************************************************************)
EXTENDS Integers, Sequences, FiniteSets

CONSTANTS
    Senders,        \* threads calling sendRequest
    Readers,        \* threads calling processIncomingMessages
    IdCount,        \* number of values of json::Integer
    MaxRequests,    \* bound on the requests sent
    MaxResponses    \* bound on the responses read

Threads == Senders \union Readers
Requests == 1 .. MaxRequests
Ids == 0 .. IdCount - 1
None == 0                      \* no request, no result object
StrayId == IdCount             \* an id that this peer never used

ASSUME ThreadsAssumption == Senders \intersect Readers = {}
ASSUME BoundsAssumption ==
    IdCount \in Nat \ {0} /\ MaxRequests \in Nat /\ MaxResponses \in Nat

Styles == {"future", "callback"}

VARIABLES
    counter,     \* s_uniqueRequestId
    owner,       \* <<t>> while thread t holds m_pendingRequestsMutex
    pending,     \* m_pendingRequests: the request whose result an id maps to
    style,       \* FutureRequestResult or CallbackRequestResult
    calls,       \* what each result object did: the user sees these
    pc,          \* where each thread is
    sending,     \* the request a thread is sending
    inCallback,  \* the thread sends from inside a callback
    response,    \* the response a reader is processing
    result,      \* the result object it moved out of the map
    context,     \* t_currentRequestId: <<>> or <<id>>
    written,     \* requests the peer has received
    connected,   \* the connection still works
    responses,   \* responses read
    destroyed    \* the MessageHandler is gone

mapVars == <<counter, owner, pending, style>>
threadVars == <<pc, sending, inCallback, response, result, context>>
peerVars == <<written, connected, responses>>
vars == <<mapVars, calls, threadVars, peerVars, destroyed>>

NoResponse == [id |-> StrayId, to |-> None, failed |-> FALSE]

\* Mutant of IdOf: the counter is not incremented.
SameId(n) == 1

IdOf(n) == n % IdCount

Init ==
    /\ counter = 0
    /\ owner = <<>>
    /\ pending = [i \in Ids |-> None]
    /\ style = [n \in Requests |-> "future"]
    /\ calls = [n \in Requests |-> <<>>]
    /\ pc = [t \in Threads |-> "idle"]
    /\ sending = [t \in Threads |-> None]
    /\ inCallback = [t \in Threads |-> FALSE]
    /\ response = [t \in Threads |-> NoResponse]
    /\ result = [t \in Threads |-> None]
    /\ context = [t \in Threads |-> <<>>]
    /\ written = {}
    /\ connected = TRUE
    /\ responses = 0
    /\ destroyed = FALSE

Called(n, what) == calls' = [calls EXCEPT ![n] = Append(@, what)]

-----------------------------------------------------------------------------
(* sendRequest: the mutex is held from the choice of the id to the end of the *)
(* write.                                                                     *)

\* A callback of a response may send requests, too.
MaySend(t) ==
    \/ t \in Senders /\ pc[t] = "idle" /\ ~destroyed
    \/ pc[t] = "deliver" /\ style[result[t]] = "callback"

\* Mutants of Inserted: no entry; an old entry is kept (emplace for []).
NotInserted(n) == pending
OldEntryKept(n) ==
    IF pending[IdOf(n)] = None THEN [pending EXCEPT ![IdOf(n)] = n] ELSE pending

Inserted(n) == [pending EXCEPT ![IdOf(n)] = n]

LockFree == owner = <<>>

\* The entry is made before the request is written.  An entry of the same id
\* is overwritten: its promise breaks, its callbacks are never called.
Register(n, s) ==
    /\ counter' = n
    /\ style' = [style EXCEPT ![n] = s]
    /\ pending' = Inserted(n)
    /\ IF pending[IdOf(n)] = None THEN UNCHANGED calls
                                  ELSE Called(pending[IdOf(n)], "dropped")

SendLock(t) ==
    /\ MaySend(t)
    /\ counter < MaxRequests
    /\ LockFree
    /\ owner' = <<t>>
    /\ \E s \in Styles : Register(counter + 1, s)
    /\ sending' = [sending EXCEPT ![t] = counter + 1]
    /\ inCallback' = [inCallback EXCEPT ![t] = (pc[t] = "deliver")]
    /\ pc' = [pc EXCEPT ![t] = "write"]
    /\ UNCHANGED <<response, result, context, peerVars, destroyed>>

SendWrite(t) ==
    /\ pc[t] = "write"
    /\ connected
    /\ written' = written \union {sending[t]}
    /\ pc' = [pc EXCEPT ![t] = "unlock"]
    /\ UNCHANGED <<mapVars, calls, sending, inCallback, response, result, context,
                   connected, responses, destroyed>>

\* writeMessage throws: the lock is released, the entry stays in the map.
SendWriteThrows(t) ==
    /\ pc[t] = "write"
    /\ ~connected
    /\ pc' = [pc EXCEPT ![t] = "unlock"]
    /\ UNCHANGED <<mapVars, calls, sending, inCallback, response, result, context,
                   peerVars, destroyed>>

SendReturn(t) ==
    /\ pc[t] = "unlock"
    /\ owner' = <<>>
    /\ pc' = [pc EXCEPT ![t] = IF inCallback[t] THEN "deliver" ELSE "idle"]
    /\ sending' = [sending EXCEPT ![t] = None]
    /\ inCallback' = [inCallback EXCEPT ![t] = FALSE]
    /\ UNCHANGED <<counter, pending, style, calls, response, result, context,
                   peerVars, destroyed>>

-----------------------------------------------------------------------------
(* processResponse *)

\* The peer answers a request it got, or none of ours.
ReadResponse(t) ==
    /\ t \in Readers /\ pc[t] = "idle" /\ ~destroyed
    /\ connected /\ responses < MaxResponses
    /\ responses' = responses + 1
    /\ \E n \in written \union {None}, failed \in BOOLEAN :
          response' = [response EXCEPT ![t] =
              [id |-> IF n = None THEN StrayId ELSE IdOf(n), to |-> n, failed |-> failed]]
    /\ pc' = [pc EXCEPT ![t] = "take"]
    /\ UNCHANGED <<mapVars, calls, sending, inCallback, result, context, written,
                   connected, destroyed>>

Found(t) == response[t].id \in Ids /\ pending[response[t].id] # None

\* Mutant of OwnerAfterTake: the lock outlives the lookup.
LockKept(t) == <<t>>

OwnerAfterTake(t) == <<>>

\* Mutant of Erased: find and move without erase.
EntryStays(id) == pending

Erased(id) == [pending EXCEPT ![id] = None]

\* find, move and erase under the mutex; the callbacks run without it.
TakeResult(t) ==
    /\ pc[t] = "take" /\ LockFree
    /\ Found(t)
    /\ result' = [result EXCEPT ![t] = pending[response[t].id]]
    /\ pending' = Erased(response[t].id)
    /\ owner' = OwnerAfterTake(t)
    /\ context' = [context EXCEPT ![t] = <<response[t].id>>]
    /\ pc' = [pc EXCEPT ![t] = "deliver"]
    /\ UNCHANGED <<counter, style, calls, sending, inCallback, response, peerVars,
                   destroyed>>

\* A response nobody waits for is ignored.
IgnoreResponse(t) ==
    /\ pc[t] = "take" /\ LockFree
    /\ ~Found(t)
    /\ response' = [response EXCEPT ![t] = NoResponse]
    /\ pc' = [pc EXCEPT ![t] = "idle"]
    /\ UNCHANGED <<mapVars, calls, sending, inCallback, result, context, peerVars,
                   destroyed>>

\* The result object is destroyed and the context reset, also by an exception.
Delivered(t) ==
    /\ result' = [result EXCEPT ![t] = None]
    /\ response' = [response EXCEPT ![t] = NoResponse]
    /\ context' = [context EXCEPT ![t] = <<>>]
    /\ pc' = [pc EXCEPT ![t] = "idle"]
    /\ UNCHANGED <<mapVars, sending, inCallback, peerVars, destroyed>>

\* FutureRequestResult: a value, the error of the response, or the exception of
\* fromJson.
DeliverFuture(t) ==
    /\ pc[t] = "deliver" /\ style[result[t]] = "future"
    /\ \/ ~response[t].failed /\ Called(result[t], "value")
       \/ Called(result[t], "exception")
    /\ Delivered(t)

\* CallbackRequestResult: m_then, or m_error for an error response and for a
\* result that cannot be converted.
DeliverCallback(t) ==
    /\ pc[t] = "deliver" /\ style[result[t]] = "callback"
    /\ \/ ~response[t].failed /\ Called(result[t], "then")
       \/ Called(result[t], "error")
    /\ Delivered(t)

\* m_then runs in the try block of the conversion: a json::Error it throws is
\* taken for an error of the conversion, and m_error is called as well.
ThenThrows(t) ==
    /\ pc[t] = "deliver" /\ style[result[t]] = "callback"
    /\ ~response[t].failed
    /\ calls' = [calls EXCEPT ![result[t]] = @ \o <<"then", "error">>]
    /\ Delivered(t)

-----------------------------------------------------------------------------
(* The connection and the handler go away *)

Disconnect ==
    /\ connected
    /\ connected' = FALSE
    /\ UNCHANGED <<mapVars, calls, threadVars, written, responses, destroyed>>

\* The map's result objects are destroyed: promises break, callbacks are dropped.
Destroy ==
    /\ ~destroyed
    /\ \A t \in Threads : pc[t] = "idle"
    /\ destroyed' = TRUE
    /\ calls' = [n \in Requests |-> IF \E i \in Ids : pending[i] = n
                                    THEN Append(calls[n], "dropped") ELSE calls[n]]
    /\ pending' = [i \in Ids |-> None]
    /\ UNCHANGED <<counter, owner, style, threadVars, peerVars>>

-----------------------------------------------------------------------------
SendStep(t) == SendWrite(t) \/ SendWriteThrows(t) \/ SendReturn(t)
ReceiveStep(t) ==
    TakeResult(t) \/ IgnoreResponse(t) \/ DeliverFuture(t) \/ DeliverCallback(t)
        \/ ThenThrows(t)

Next ==
    \/ \E t \in Threads : SendLock(t) \/ ReadResponse(t) \/ SendStep(t) \/ ReceiveStep(t)
    \/ Disconnect
    \/ Destroy

\* A thread that can go on does, and callbacks return.  Nobody has to send, to
\* answer or to destroy anything.
Fairness == \A t \in Threads : WF_vars(SendStep(t)) /\ WF_vars(ReceiveStep(t))

Spec == Init /\ [][Next]_vars
FairSpec == Spec /\ Fairness

-----------------------------------------------------------------------------
(* Invariants *)

CallNames == {"value", "exception", "then", "error", "dropped"}

TypeOK ==
    /\ counter \in 0 .. MaxRequests
    /\ owner \in {<<>>} \union {<<t>> : t \in Threads}
    /\ pending \in [Ids -> {None} \union Requests]
    /\ style \in [Requests -> Styles]
    /\ calls \in [Requests -> Seq(CallNames)]
    /\ pc \in [Threads -> {"idle", "write", "unlock", "take", "deliver"}]
    /\ sending \in [Threads -> {None} \union Requests]
    /\ inCallback \in [Threads -> BOOLEAN]
    /\ response \in [Threads -> [id : Ids \union {StrayId}, to : {None} \union Requests,
                                 failed : BOOLEAN]]
    /\ result \in [Threads -> {None} \union Requests]
    /\ context \in [Threads -> {<<>>} \union {<<i>> : i \in Ids}]
    /\ written \in SUBSET Requests
    /\ connected \in BOOLEAN
    /\ responses \in 0 .. MaxResponses
    /\ destroyed \in BOOLEAN
    /\ \A t \in Threads :
          /\ sending[t] # None <=> pc[t] \in {"write", "unlock"}
          /\ result[t] # None <=> pc[t] = "deliver" \/ inCallback[t]

\* The mutex protects the map over the whole of sendRequest, and exactly its
\* holder is in there.
LockHeldWhileSending ==
    \A t \in Threads : pc[t] \in {"write", "unlock"} <=> owner = <<t>>

\* A result object is in the map under the id of its request, or in the hands of
\* one reader, until it has done its work, and never in two places: no request
\* is forgotten and none is completed twice.
ResultHeldOnce ==
    /\ \A i \in Ids : pending[i] # None =>
          /\ pending[i] \in 1 .. counter
          /\ IdOf(pending[i]) = i
          /\ calls[pending[i]] = <<>>
          /\ \A t \in Threads : result[t] # pending[i]
    /\ \A t \in Threads : result[t] # None =>
          /\ result[t] \in 1 .. counter
          /\ calls[result[t]] = <<>>
          /\ \A u \in Threads : u # t => result[u] # result[t]
    /\ \A n \in Requests : n > counter => calls[n] = <<>>

NoResultIsLost ==
    \A n \in 1 .. counter : calls[n] = <<>> =>
        pending[IdOf(n)] = n \/ \E t \in Threads : result[t] = n

\* While the counter has not come round, a response completes the request that
\* the peer answered, whatever it sends twice or makes up.
ResponseReachesItsRequest ==
    counter < IdCount =>
        \A t \in Threads : result[t] # None => response[t].to = result[t]

\* currentRequestId() in a callback is the id of the response, also after the
\* callback has sent requests of its own.
ContextInCallback ==
    \A t \in Threads :
        context[t] = IF result[t] # None THEN <<response[t].id>> ELSE <<>>

\* A future is completed once: a second set_value would throw.
FutureCompletedOnce ==
    \A n \in Requests : style[n] = "future" => Len(calls[n]) <= 1

\* No caller waits for ever on a future whose handler is gone.
DestroyedLeavesNothingPending ==
    destroyed => \A n \in 1 .. counter : calls[n] # <<>>

-----------------------------------------------------------------------------
(* Liveness *)

\* sendRequest and processResponse return: no thread is left waiting for the
\* mutex of the map, although callbacks take it again.
EveryCallReturns == \A t \in Threads : pc[t] # "idle" ~> pc[t] = "idle"
=============================================================================
