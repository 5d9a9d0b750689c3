----------------------- MODULE OutgoingRequestsProofs -----------------------
(***************************************************************************)
(* Proofs about OutgoingRequests, for any number of threads, requests and  *)
(* responses, and any width of the ids.                                    *)
(***************************************************************************)
EXTENDS OutgoingRequests, TLAPS

\* An id is a value of json::Integer, and none that the peer makes up.
LEMMA IdFacts ==
    /\ IdCount \in Nat /\ IdCount > 0
    /\ \A n \in Nat : IdOf(n) \in Ids
    /\ \A n \in Nat : n < IdCount => IdOf(n) = n
    /\ StrayId \notin Ids
BY BoundsAssumption DEF IdOf, Ids, StrayId

\* A result object's record of calls stays one when a call is added.
LEMMA AppendCall ==
    ASSUME NEW s \in Seq(CallNames), NEW c \in CallNames
    PROVE  Append(s, c) \in Seq(CallNames) /\ Append(s, c) # <<>>
                /\ Len(Append(s, c)) = Len(s) + 1
<1>1. Len(Append(s, c)) = Len(s) + 1 /\ Append(s, c) \in Seq(CallNames)
  OBVIOUS
<1>2. Len(s) + 1 # 0
  OBVIOUS
<1> QED
  BY <1>1, <1>2

\* A callback of each kind makes the list of a request's calls longer.
LEMMA BothCallbacks ==
    ASSUME NEW s \in Seq(CallNames)
    PROVE  s \o <<"then", "error">> \in Seq(CallNames) /\ s \o <<"then", "error">> # <<>>
BY DEF CallNames

\* What the proofs need beside the properties: the peer knows only requests
\* that were sent, a response has the id of the request it answers, and nobody is
\* at work in a destroyed handler.
Bookkeeping ==
    /\ written \subseteq 1 .. counter
    /\ \A t \in Threads :
          /\ inCallback[t] => pc[t] \in {"write", "unlock"}
          /\ response[t].to \in {None} \union 1 .. counter
          /\ response[t].to = None => response[t].id = StrayId
          /\ response[t].to # None => response[t].id = IdOf(response[t].to)
          /\ sending[t] \in {None} \union 1 .. counter
    /\ destroyed =>
          /\ \A t \in Threads : pc[t] = "idle"
          /\ \A i \in Ids : pending[i] = None

-----------------------------------------------------------------------------
(* What the operations do to the records of calls *)

\* One result object does one more thing; the others do nothing.
LEMMA CalledFacts ==
    ASSUME calls \in [Requests -> Seq(CallNames)],
           NEW n \in Requests, NEW c \in CallNames, Called(n, c)
    PROVE  /\ calls' \in [Requests -> Seq(CallNames)]
           /\ calls'[n] # <<>> /\ Len(calls'[n]) = Len(calls[n]) + 1
           /\ \A k \in Requests : k # n => calls'[k] = calls[k]
<1>1. calls' = [calls EXCEPT ![n] = Append(@, c)]
  BY DEF Called
<1>2. calls[n] \in Seq(CallNames)
  OBVIOUS
<1>3. /\ Append(calls[n], c) \in Seq(CallNames)
      /\ Append(calls[n], c) # <<>>
      /\ Len(Append(calls[n], c)) = Len(calls[n]) + 1
  BY <1>2, AppendCall
<1>4. calls'[n] = Append(calls[n], c)
  BY <1>1
<1> QED
  BY <1>1, <1>3, <1>4

\* Registering request n puts its result object under its id; the one it replaces,
\* if there is one, does its last thing.
Registered(n, s) ==
    /\ counter' = n
    /\ style' = [style EXCEPT ![n] = s]
    /\ pending' = [pending EXCEPT ![IdOf(n)] = n]
    /\ calls' \in [Requests -> Seq(CallNames)]
    /\ pending[IdOf(n)] # None =>
          /\ calls'[pending[IdOf(n)]] # <<>>
          /\ Len(calls'[pending[IdOf(n)]]) = Len(calls[pending[IdOf(n)]]) + 1
    /\ \A k \in Requests : k # pending[IdOf(n)] => calls'[k] = calls[k]

\* What registering a request changes.
LEMMA RegisterFacts ==
    ASSUME TypeOK, NEW n \in Requests, n = counter + 1, NEW s \in Styles, Register(n, s)
    PROVE  Registered(n, s)
<1> DEFINE id == IdOf(n)
<1>1. id \in Ids
  BY IdFacts DEF TypeOK
<1>2. pending[id] \in {None} \union Requests
  BY <1>1 DEF TypeOK
<1>3. CASE pending[id] = None
  BY <1>1, <1>3 DEF Register, Inserted, Registered, TypeOK
<1>4. CASE pending[id] # None
  <2>1. pending[id] \in Requests /\ "dropped" \in CallNames
    BY <1>2, <1>4 DEF CallNames
  <2>2. Called(pending[id], "dropped") /\ calls \in [Requests -> Seq(CallNames)]
    BY <1>4 DEF Register, TypeOK
  <2>3. /\ calls' \in [Requests -> Seq(CallNames)]
        /\ calls'[pending[id]] # <<>>
        /\ Len(calls'[pending[id]]) = Len(calls[pending[id]]) + 1
        /\ \A k \in Requests : k # pending[id] => calls'[k] = calls[k]
    <3> HIDE DEF id
    <3> QED
      BY <2>1, <2>2, CalledFacts
  <2> QED
    BY <1>1, <2>3 DEF Register, Inserted, Registered
<1> QED
  BY <1>3, <1>4

Deliver(t) == DeliverFuture(t) \/ DeliverCallback(t) \/ ThenThrows(t)

\* Delivering a response makes one result object do something, a future one thing.
Completes(t) ==
    /\ pc[t] = "deliver" /\ Delivered(t)
    /\ result[t] \in Requests
    /\ calls' \in [Requests -> Seq(CallNames)]
    /\ calls'[result[t]] # <<>>
    /\ style[result[t]] = "future" => Len(calls'[result[t]]) = Len(calls[result[t]]) + 1
    /\ \A k \in Requests : k # result[t] => calls'[k] = calls[k]

\* What delivering a result changes.
LEMMA DeliverFacts ==
    ASSUME TypeOK, NEW t \in Threads, Deliver(t)
    PROVE  Completes(t)
<1>1. pc[t] = "deliver" /\ Delivered(t)
  BY DEF Deliver, DeliverFuture, DeliverCallback, ThenThrows
<1>2. result[t] \in Requests /\ calls \in [Requests -> Seq(CallNames)]
  BY <1>1 DEF TypeOK
<1>3. CASE DeliverFuture(t) \/ DeliverCallback(t)
  <2>1. PICK c \in CallNames : Called(result[t], c)
    BY <1>3 DEF DeliverFuture, DeliverCallback, CallNames
  <2> QED
    BY <1>1, <1>2, <2>1, CalledFacts DEF Completes
<1>4. CASE ThenThrows(t)
  <2>1. /\ calls[result[t]] \o <<"then", "error">> \in Seq(CallNames)
        /\ calls[result[t]] \o <<"then", "error">> # <<>>
    BY <1>2, BothCallbacks
  <2>2. /\ calls' = [calls EXCEPT ![result[t]] = calls[result[t]] \o <<"then", "error">>]
        /\ style[result[t]] # "future"
    BY <1>4 DEF ThenThrows
  <2> QED
    BY <1>1, <1>2, <2>1, <2>2 DEF Completes
<1> QED
  BY <1>3, <1>4 DEF Deliver

\* The destructor drops what is in the map, and nothing else.
DropsPending ==
    /\ calls' \in [Requests -> Seq(CallNames)]
    /\ \A n \in Requests : (\E i \in Ids : pending[i] = n) =>
          calls'[n] # <<>> /\ Len(calls'[n]) = Len(calls[n]) + 1
    /\ \A n \in Requests : ~(\E i \in Ids : pending[i] = n) => calls'[n] = calls[n]

\* What the destructor changes.
LEMMA DestroyFacts ==
    ASSUME TypeOK, Destroy
    PROVE  DropsPending
<1>1. \A n \in Requests : calls[n] \in Seq(CallNames)
  BY DEF TypeOK
<1>2. "dropped" \in CallNames
  BY DEF CallNames
<1>3. \A n \in Requests : /\ Append(calls[n], "dropped") \in Seq(CallNames)
                          /\ Append(calls[n], "dropped") # <<>>
                          /\ Len(Append(calls[n], "dropped")) = Len(calls[n]) + 1
  BY <1>1, <1>2, AppendCall
<1>4. calls' = [n \in Requests |-> IF \E i \in Ids : pending[i] = n
                                   THEN Append(calls[n], "dropped") ELSE calls[n]]
  BY DEF Destroy
<1>5. calls' \in [Requests -> Seq(CallNames)]
  BY <1>1, <1>3, <1>4
<1> QED
  BY <1>3, <1>4, <1>5 DEF DropsPending

-----------------------------------------------------------------------------
(* One step preserves each part of the invariant. *)

\* Every variable keeps its type, and the locals of a thread fit its place.
LEMMA TypeStep == TypeOK /\ Bookkeeping /\ [Next]_vars => TypeOK'
<1> SUFFICES ASSUME TypeOK, Bookkeeping, [Next]_vars PROVE TypeOK'
  OBVIOUS
<1> USE IdFacts, BoundsAssumption
    DEF TypeOK, Bookkeeping, mapVars, threadVars, peerVars, Requests, None, NoResponse,
        Styles
<1>1. ASSUME NEW t \in Threads, SendLock(t) PROVE TypeOK'
  <2>1. PICK n \in Requests : n = counter + 1
    BY <1>1 DEF SendLock
  <2>2. PICK s \in Styles : Registered(n, s)
    BY <1>1, <2>1, RegisterFacts DEF SendLock
  <2>3. /\ calls' \in [Requests -> Seq(CallNames)]
        /\ pending' \in [Ids -> {None} \union Requests]
        /\ style' \in [Requests -> Styles]
        /\ counter' \in 0 .. MaxRequests
    BY <2>1, <2>2 DEF Registered
  <2>4. inCallback' \in [Threads -> BOOLEAN]
    BY <1>1, Zenon DEF SendLock
  <2>5. ASSUME NEW u \in Threads
        PROVE  /\ sending'[u] # None <=> pc'[u] \in {"write", "unlock"}
               /\ result'[u] # None <=> pc'[u] = "deliver" \/ inCallback'[u]
    <3>1. CASE u = t
      <4>1. pc[t] \in {"idle", "deliver"} /\ ~inCallback[t]
        BY <1>1 DEF SendLock, MaySend
      <4>2. pc'[t] = "write" /\ sending'[t] # None /\ result' = result
        BY <1>1, <2>1 DEF SendLock
      <4>3. inCallback'[t] <=> pc[t] = "deliver"
        BY <1>1, Zenon DEF SendLock
      <4> QED
        BY <3>1, <4>1, <4>2, <4>3
    <3>2. CASE u # t
      BY <1>1, <3>2 DEF SendLock
    <3> QED
      BY <3>1, <3>2
  <2>6. owner' \in {<<>>} \union {<<u>> : u \in Threads}
    BY <1>1 DEF SendLock
  <2>7. pc' \in [Threads -> {"idle", "write", "unlock", "take", "deliver"}]
        /\ sending' \in [Threads -> {None} \union Requests]
    BY <1>1, <2>1 DEF SendLock
  <2> QED
    BY <1>1, <2>3, <2>4, <2>5, <2>6, <2>7 DEF SendLock
<1>2. ASSUME NEW t \in Threads, SendStep(t) PROVE TypeOK'
  <2>1. CASE SendWrite(t)
    <3>1. /\ pc[t] = "write" /\ pc' = [pc EXCEPT ![t] = "unlock"]
          /\ written' = written \union {sending[t]}
          /\ UNCHANGED <<counter, owner, pending, style, calls, sending, inCallback,
                         response, result, context, connected, responses, destroyed>>
      BY <2>1, Zenon DEF SendWrite
    <3>2. written' \in SUBSET Requests /\ sending[t] # None
      <4>1. sending[t] # None
        BY <3>1, SMTT(30)
      <4>2. sending[t] \in Requests
        BY <4>1, SMTT(30)
      <4> QED
        BY <3>1, <4>1, <4>2, Zenon
    <3>3. \A u \in Threads : /\ pc'[u] \in {"write", "unlock"} <=> pc[u] \in {"write", "unlock"}
                             /\ pc'[u] = "deliver" <=> pc[u] = "deliver"
      BY <3>1
    <3>4. \A u \in Threads : result'[u] # None <=> pc'[u] = "deliver" \/ inCallback'[u]
      BY <3>1, <3>3, Zenon
    <3>5. pc' \in [Threads -> {"idle", "write", "unlock", "take", "deliver"}]
      BY <3>1
    <3> QED
      BY <3>1, <3>2, <3>3, <3>4, <3>5
  <2>2. CASE SendWriteThrows(t)
    BY <2>2 DEF SendWriteThrows
  <2>3. CASE SendReturn(t)
    BY <2>3 DEF SendReturn
  <2> QED
    BY <1>2, <2>1, <2>2, <2>3 DEF SendStep
<1>3. ASSUME NEW t \in Threads, ReadResponse(t) PROVE TypeOK'
  BY <1>3 DEF ReadResponse
<1>4. ASSUME NEW t \in Threads, TakeResult(t) PROVE TypeOK'
  BY <1>4 DEF TakeResult, Found, Erased, OwnerAfterTake
<1>5. ASSUME NEW t \in Threads, IgnoreResponse(t) PROVE TypeOK'
  BY <1>5 DEF IgnoreResponse
<1>6. ASSUME NEW t \in Threads, Deliver(t) PROVE TypeOK'
  <2>1. Completes(t)
    BY <1>6, DeliverFacts
  <2> QED
    BY <2>1 DEF Completes, Delivered
<1>7. ASSUME Disconnect PROVE TypeOK'
  BY <1>7 DEF Disconnect
<1>8. ASSUME Destroy PROVE TypeOK'
  <2>1. DropsPending
    BY <1>8, DestroyFacts
  <2> QED
    BY <1>8, <2>1 DEF DropsPending, Destroy
<1>9. ASSUME UNCHANGED vars PROVE TypeOK'
  BY <1>9 DEF vars
<1> QED
  BY <1>1, <1>2, <1>3, <1>4, <1>5, <1>6, <1>7, <1>8, <1>9
     DEF Next, ReceiveStep, Deliver

\* The peer answers what it was sent, and nobody works in a destroyed handler.
LEMMA BookkeepingStep == TypeOK /\ Bookkeeping /\ [Next]_vars => Bookkeeping'
<1> SUFFICES ASSUME TypeOK, Bookkeeping, [Next]_vars
             PROVE  Bookkeeping'
  OBVIOUS
<1> USE IdFacts, BoundsAssumption
    DEF TypeOK, Bookkeeping, mapVars, threadVars, peerVars, Requests, None, NoResponse
<1>1. ASSUME NEW t \in Threads, SendLock(t) PROVE Bookkeeping'
  <2>1. PICK n \in Requests : n = counter + 1
    BY <1>1 DEF SendLock
  <2>2. PICK s \in Styles : Registered(n, s)
    BY <1>1, <2>1, RegisterFacts DEF SendLock
  <2>3. ~destroyed
    BY <1>1 DEF SendLock, MaySend
  <2>4. counter' = counter + 1
    BY <2>1, <2>2 DEF Registered
  <2>5. pc[t] \in {"idle", "deliver"}
    BY <1>1 DEF SendLock, MaySend
  <2> QED
    BY <1>1, <2>3, <2>4, <2>5 DEF SendLock
<1>2. ASSUME NEW t \in Threads, SendWrite(t) PROVE Bookkeeping'
  BY <1>2 DEF SendWrite
<1>3. ASSUME NEW t \in Threads, SendWriteThrows(t) PROVE Bookkeeping'
  BY <1>3 DEF SendWriteThrows
<1>4. ASSUME NEW t \in Threads, SendReturn(t) PROVE Bookkeeping'
  BY <1>4 DEF SendReturn
<1>5. ASSUME NEW t \in Threads, ReadResponse(t) PROVE Bookkeeping'
  BY <1>5 DEF ReadResponse
<1>6. ASSUME NEW t \in Threads, TakeResult(t) PROVE Bookkeeping'
  BY <1>6 DEF TakeResult, Found, Erased
<1>7. ASSUME NEW t \in Threads, IgnoreResponse(t) PROVE Bookkeeping'
  BY <1>7 DEF IgnoreResponse
<1>8. ASSUME NEW t \in Threads, Deliver(t) PROVE Bookkeeping'
  <2>1. Completes(t)
    BY <1>8, DeliverFacts
  <2> QED
    BY <2>1 DEF Completes, Delivered
<1>9. ASSUME Disconnect PROVE Bookkeeping'
  BY <1>9 DEF Disconnect
<1>10. ASSUME Destroy PROVE Bookkeeping'
  BY <1>10 DEF Destroy
<1>11. ASSUME UNCHANGED vars PROVE Bookkeeping'
  BY <1>11 DEF vars
<1> QED
  BY <1>1, <1>2, <1>3, <1>4, <1>5, <1>6, <1>7, <1>8, <1>9, <1>10, <1>11
     DEF Next, SendStep, ReceiveStep, Deliver

\* The mutex is handed over only when it is free.
LEMMA LockStep == TypeOK /\ LockHeldWhileSending /\ [Next]_vars => LockHeldWhileSending'
<1> SUFFICES ASSUME TypeOK, LockHeldWhileSending, [Next]_vars
             PROVE  LockHeldWhileSending'
  OBVIOUS
<1> USE IdFacts, BoundsAssumption
    DEF TypeOK, LockHeldWhileSending, mapVars, threadVars, peerVars, Requests, None, NoResponse
<1>1. ASSUME NEW t \in Threads, SendLock(t) PROVE LockHeldWhileSending'
  BY <1>1 DEF SendLock, LockFree
<1>2. ASSUME NEW t \in Threads, SendWrite(t) PROVE LockHeldWhileSending'
  BY <1>2 DEF SendWrite
<1>3. ASSUME NEW t \in Threads, SendWriteThrows(t) PROVE LockHeldWhileSending'
  BY <1>3 DEF SendWriteThrows
<1>4. ASSUME NEW t \in Threads, SendReturn(t) PROVE LockHeldWhileSending'
  BY <1>4 DEF SendReturn
<1>5. ASSUME NEW t \in Threads, ReadResponse(t) PROVE LockHeldWhileSending'
  BY <1>5 DEF ReadResponse
<1>6. ASSUME NEW t \in Threads, TakeResult(t) PROVE LockHeldWhileSending'
  BY <1>6 DEF TakeResult, LockFree, OwnerAfterTake
<1>7. ASSUME NEW t \in Threads, IgnoreResponse(t) PROVE LockHeldWhileSending'
  BY <1>7 DEF IgnoreResponse
<1>8. ASSUME NEW t \in Threads, Deliver(t) PROVE LockHeldWhileSending'
  <2>1. Completes(t)
    BY <1>8, DeliverFacts
  <2> QED
    BY <2>1 DEF Completes, Delivered
<1>9. ASSUME Disconnect PROVE LockHeldWhileSending'
  BY <1>9 DEF Disconnect
<1>10. ASSUME Destroy PROVE LockHeldWhileSending'
  BY <1>10 DEF Destroy
<1>11. ASSUME UNCHANGED vars PROVE LockHeldWhileSending'
  BY <1>11 DEF vars
<1> QED
  BY <1>1, <1>2, <1>3, <1>4, <1>5, <1>6, <1>7, <1>8, <1>9, <1>10, <1>11
     DEF Next, SendStep, ReceiveStep, Deliver

\* A result object moves from the map to one reader, and is then done.
LEMMA HeldStep == TypeOK /\ Bookkeeping /\ ResultHeldOnce /\ [Next]_vars => ResultHeldOnce'
<1> SUFFICES ASSUME TypeOK, Bookkeeping, ResultHeldOnce, [Next]_vars
             PROVE  ResultHeldOnce'
  OBVIOUS
<1> USE IdFacts, BoundsAssumption
    DEF TypeOK, Bookkeeping, ResultHeldOnce, mapVars, threadVars, peerVars, Requests, None, NoResponse
<1>1. ASSUME NEW t \in Threads, SendLock(t) PROVE ResultHeldOnce'
  <2>1. PICK n \in Requests : n = counter + 1
    BY <1>1 DEF SendLock
  <2>2. PICK s \in Styles : Registered(n, s)
    BY <1>1, <2>1, RegisterFacts DEF SendLock
  <2>3. UNCHANGED result
    BY <1>1 DEF SendLock
  <2>4. n \in Nat /\ n > counter /\ counter \in Nat /\ IdOf(n) \in Ids
    BY <2>1
  <2>5. ASSUME NEW k \in 1 .. counter, k # pending[IdOf(n)]
        PROVE  k \in 1 .. counter' /\ calls'[k] = calls[k]
    BY <2>1, <2>2, <2>4, <2>5 DEF Registered
  <2>6. ASSUME NEW i \in Ids, pending'[i] # None
        PROVE  /\ pending'[i] \in 1 .. counter' /\ IdOf(pending'[i]) = i
               /\ calls'[pending'[i]] = <<>>
               /\ \A u \in Threads : result'[u] # pending'[i]
    <3>1. CASE i = IdOf(n)
      <4>1. pending'[i] = n /\ counter' = n
        BY <2>2, <2>4, <3>1 DEF Registered
      <4>2. pending[IdOf(n)] # n /\ calls[n] = <<>> /\ \A u \in Threads : result[u] # n
        <5>1. pending[IdOf(n)] # None => pending[IdOf(n)] \in 1 .. counter
          BY <2>4
        <5>2. None \notin 1 .. counter /\ n \notin 1 .. counter /\ n # None
          BY <2>4
        <5>3. \A u \in Threads : result[u] # None => result[u] \in 1 .. counter
          OBVIOUS
        <5>4. calls[n] = <<>>
          BY <2>1, <2>4
        <5>5. pending[IdOf(n)] # n
          BY <5>1, <5>2
        <5>6. \A u \in Threads : result[u] # n
          BY <5>2, <5>3
        <5> QED
          BY <5>4, <5>5, <5>6
      <4>3. calls'[n] = <<>>
        BY <2>2, <4>2 DEF Registered
      <4> QED
        BY <2>1, <2>3, <2>4, <3>1, <4>1, <4>2, <4>3
    <3>2. CASE i # IdOf(n)
      <4>1. pending'[i] = pending[i]
        BY <2>2, <2>4, <3>2 DEF Registered
      <4>2. pending[i] # None /\ pending[i] \in 1 .. counter
        BY <2>6, <4>1
      <4>3. pending[i] # pending[IdOf(n)]
        BY <2>4, <3>2, <4>2
      <4> QED
        BY <2>3, <2>5, <4>1, <4>2, <4>3, SMTT(30)
    <3> QED
      BY <3>1, <3>2
  <2>7. ASSUME NEW u \in Threads, result'[u] # None
        PROVE  /\ result'[u] \in 1 .. counter' /\ calls'[result'[u]] = <<>>
               /\ \A v \in Threads : v # u => result'[v] # result'[u]
    <3>1. result[u] \in 1 .. counter /\ result[u] # pending[IdOf(n)]
      BY <2>3, <2>4, <2>7
    <3> QED
      BY <2>3, <2>5, <2>7, <3>1
  <2>8. ASSUME NEW k \in Requests, k > counter' PROVE calls'[k] = <<>>
    <3>1. counter' = n
      BY <2>2 DEF Registered
    <3>2. k > counter /\ k # pending[IdOf(n)]
      BY <2>1, <2>4, <2>8, <3>1
    <3> QED
      BY <2>2, <3>2 DEF Registered
  <2> QED
    BY <2>6, <2>7, <2>8
<1>2. ASSUME NEW t \in Threads, SendWrite(t) PROVE ResultHeldOnce'
  BY <1>2 DEF SendWrite
<1>3. ASSUME NEW t \in Threads, SendWriteThrows(t) PROVE ResultHeldOnce'
  BY <1>3 DEF SendWriteThrows
<1>4. ASSUME NEW t \in Threads, SendReturn(t) PROVE ResultHeldOnce'
  BY <1>4 DEF SendReturn
<1>5. ASSUME NEW t \in Threads, ReadResponse(t) PROVE ResultHeldOnce'
  BY <1>5 DEF ReadResponse
<1>6. ASSUME NEW t \in Threads, TakeResult(t) PROVE ResultHeldOnce'
  BY <1>6, SMTT(30) DEF TakeResult, Found, Erased
<1>7. ASSUME NEW t \in Threads, IgnoreResponse(t) PROVE ResultHeldOnce'
  BY <1>7 DEF IgnoreResponse
<1>8. ASSUME NEW t \in Threads, Deliver(t) PROVE ResultHeldOnce'
  <2>1. Completes(t)
    BY <1>8, DeliverFacts
  <2>2. counter' = counter /\ pending' = pending /\ result' = [result EXCEPT ![t] = None]
    BY <2>1 DEF Completes, Delivered
  <2>3. \A k \in Requests : k # result[t] => calls'[k] = calls[k]
    BY <2>1 DEF Completes
  <2>4. result[t] # None
    BY <2>1 DEF Completes
  <2>5. \A i \in Ids : pending[i] # None => pending[i] # result[t]
    OBVIOUS
  <2>6. \A u \in Threads : result'[u] # None => u # t /\ result'[u] = result[u]
    BY <2>2
  <2>7. ASSUME NEW i \in Ids, pending'[i] # None
        PROVE  /\ pending'[i] \in 1 .. counter' /\ IdOf(pending'[i]) = i
               /\ calls'[pending'[i]] = <<>>
               /\ \A u \in Threads : result'[u] # pending'[i]
    <3>1. pending[i] \in Requests /\ pending[i] # None
      BY <2>2, <2>7
    <3> QED
      BY <2>2, <2>3, <2>5, <2>6, <3>1
  <2>8. ASSUME NEW u \in Threads, result'[u] # None
        PROVE  /\ result'[u] \in 1 .. counter' /\ calls'[result'[u]] = <<>>
               /\ \A v \in Threads : v # u => result'[v] # result'[u]
    <3>1. result'[u] = result[u] /\ result[u] # None /\ result[u] \in Requests
          /\ result[u] # result[t]
      BY <2>4, <2>6, <2>8
    <3> QED
      BY <2>2, <2>3, <2>6, <2>8, <3>1
  <2>9. ASSUME NEW k \in Requests, k > counter' PROVE calls'[k] = <<>>
    <3>1. result[t] \in 1 .. counter
      BY <2>4
    <3> QED
      BY <2>2, <2>3, <2>9, <3>1, SMTT(30)
  <2> QED
    BY <2>7, <2>8, <2>9
<1>9. ASSUME Disconnect PROVE ResultHeldOnce'
  BY <1>9 DEF Disconnect
<1>10. ASSUME Destroy PROVE ResultHeldOnce'
  <2>1. DropsPending
    BY <1>10, DestroyFacts
  <2>2. /\ counter' = counter /\ result' = result
        /\ \A i \in Ids : pending'[i] = None
    BY <1>10 DEF Destroy
  <2>3. \A u \in Threads : result[u] = None
    BY <1>10 DEF Destroy
  <2>4. ASSUME NEW k \in Requests, k > counter PROVE calls'[k] = <<>>
    <3>1. k # None /\ k \notin 1 .. counter
      BY <2>4
    <3>2. ~(\E i \in Ids : pending[i] = k)
      BY <3>1
    <3>3. calls[k] = <<>>
      BY <2>4
    <3> QED
      BY <2>1, <3>2, <3>3 DEF DropsPending
  <2> QED
    BY <2>2, <2>3, <2>4
<1>11. ASSUME UNCHANGED vars PROVE ResultHeldOnce'
  BY <1>11 DEF vars
<1> QED
  BY <1>1, <1>2, <1>3, <1>4, <1>5, <1>6, <1>7, <1>8, <1>9, <1>10, <1>11
     DEF Next, SendStep, ReceiveStep, Deliver

\* A result object leaves the map only for a reader or for its end.
LEMMA LostStep == TypeOK /\ Bookkeeping /\ ResultHeldOnce /\ NoResultIsLost /\ [Next]_vars => NoResultIsLost'
<1> SUFFICES ASSUME TypeOK, Bookkeeping, ResultHeldOnce, NoResultIsLost, [Next]_vars
             PROVE  NoResultIsLost'
  OBVIOUS
<1> USE IdFacts, BoundsAssumption
    DEF TypeOK, Bookkeeping, ResultHeldOnce, NoResultIsLost, mapVars, threadVars, peerVars, Requests, None, NoResponse
<1>1. ASSUME NEW t \in Threads, SendLock(t) PROVE NoResultIsLost'
  <2>1. PICK n \in Requests : n = counter + 1
    BY <1>1 DEF SendLock
  <2>2. PICK s \in Styles : Registered(n, s)
    BY <1>1, <2>1, RegisterFacts DEF SendLock
  <2>3. UNCHANGED result
    BY <1>1 DEF SendLock
  <2>4. n \in Nat /\ n > counter /\ counter \in Nat /\ IdOf(n) \in Ids
    BY <2>1
  <2>5. ASSUME NEW k \in 1 .. counter', calls'[k] = <<>>
        PROVE  pending'[IdOf(k)] = k \/ \E u \in Threads : result'[u] = k
    <3>1. CASE k = n
      BY <2>2, <2>4, <3>1 DEF Registered
    <3>2. CASE k # n
      <4>1. k \in 1 .. counter /\ k \in Requests /\ IdOf(k) \in Ids
        BY <2>1, <2>2, <2>4, <3>2 DEF Registered
      <4>2. k # pending[IdOf(n)]
        BY <2>2, <2>5, <4>1 DEF Registered
      <4>3. calls[k] = <<>>
        BY <2>2, <2>5, <4>1, <4>2 DEF Registered
      <4>4. CASE pending[IdOf(k)] = k
        <5>1. IdOf(k) # IdOf(n)
          BY <4>2, <4>4
        <5> QED
          BY <2>2, <4>1, <4>4, <5>1 DEF Registered
      <4>5. CASE \E u \in Threads : result[u] = k
        BY <2>3, <4>5
      <4> QED
        BY <4>1, <4>3, <4>4, <4>5
    <3> QED
      BY <3>1, <3>2
  <2> QED
    BY <2>5
<1>2. ASSUME NEW t \in Threads, SendWrite(t) PROVE NoResultIsLost'
  BY <1>2 DEF SendWrite
<1>3. ASSUME NEW t \in Threads, SendWriteThrows(t) PROVE NoResultIsLost'
  BY <1>3 DEF SendWriteThrows
<1>4. ASSUME NEW t \in Threads, SendReturn(t) PROVE NoResultIsLost'
  BY <1>4 DEF SendReturn
<1>5. ASSUME NEW t \in Threads, ReadResponse(t) PROVE NoResultIsLost'
  BY <1>5 DEF ReadResponse
<1>6. ASSUME NEW t \in Threads, TakeResult(t) PROVE NoResultIsLost'
  <2> DEFINE id == response[t].id
  <2>1. /\ id \in Ids
        /\ result' = [result EXCEPT ![t] = pending[id]]
        /\ pending' = [pending EXCEPT ![id] = None]
        /\ counter' = counter /\ calls' = calls
    BY <1>6 DEF TakeResult, Found, Erased
  <2>2. result[t] = None
    BY <1>6 DEF TakeResult
  <2>3. ASSUME NEW k \in 1 .. counter, calls[k] = <<>>
        PROVE  pending'[IdOf(k)] = k \/ \E u \in Threads : result'[u] = k
    <3>1. k \in Nat /\ k # None /\ IdOf(k) \in Ids
      OBVIOUS
    <3>2. CASE pending[IdOf(k)] = k /\ IdOf(k) = id
      BY <2>1, <3>2
    <3>3. CASE pending[IdOf(k)] = k /\ IdOf(k) # id
      BY <2>1, <3>1, <3>3
    <3>4. CASE \E u \in Threads : result[u] = k
      <4>1. PICK u \in Threads : result[u] = k
        BY <3>4
      <4> QED
        BY <2>1, <2>2, <3>1, <4>1
    <3> QED
      BY <2>3, <3>2, <3>3, <3>4
  <2> QED
    BY <2>1, <2>3
<1>7. ASSUME NEW t \in Threads, IgnoreResponse(t) PROVE NoResultIsLost'
  BY <1>7 DEF IgnoreResponse
<1>8. ASSUME NEW t \in Threads, Deliver(t) PROVE NoResultIsLost'
  <2>1. Completes(t)
    BY <1>8, DeliverFacts
  <2>2. /\ counter' = counter /\ pending' = pending
        /\ result' = [result EXCEPT ![t] = None]
    BY <2>1 DEF Completes, Delivered
  <2>3. ASSUME NEW k \in 1 .. counter, calls'[k] = <<>>
        PROVE  pending[IdOf(k)] = k \/ \E u \in Threads : result'[u] = k
    <3>1. k \in Requests /\ k # result[t]
      BY <2>1, <2>3 DEF Completes
    <3>2. calls[k] = <<>>
      BY <2>1, <2>3, <3>1 DEF Completes
    <3>3. CASE \E u \in Threads : result[u] = k
      <4>1. PICK u \in Threads : result[u] = k
        BY <3>3
      <4> QED
        BY <2>2, <3>1, <4>1
    <3> QED
      BY <3>2, <3>3
  <2> QED
    BY <2>2, <2>3
<1>9. ASSUME Disconnect PROVE NoResultIsLost'
  BY <1>9 DEF Disconnect
<1>10. ASSUME Destroy PROVE NoResultIsLost'
  <2>1. DropsPending
    BY <1>10, DestroyFacts
  <2>2. counter' = counter /\ \A u \in Threads : result[u] = None
    BY <1>10 DEF Destroy
  <2>3. ASSUME NEW k \in 1 .. counter PROVE calls'[k] # <<>>
    <3>1. k \in Requests /\ k # None /\ IdOf(k) \in Ids
      OBVIOUS
    <3>2. CASE calls[k] = <<>>
      <4>1. pending[IdOf(k)] = k
        BY <2>2, <3>1, <3>2
      <4> QED
        BY <2>1, <3>1, <4>1 DEF DropsPending
    <3>3. CASE calls[k] # <<>>
      BY <2>1, <3>1, <3>3 DEF DropsPending
    <3> QED
      BY <3>2, <3>3
  <2> QED
    BY <2>2, <2>3
<1>11. ASSUME UNCHANGED vars PROVE NoResultIsLost'
  BY <1>11 DEF vars
<1> QED
  BY <1>1, <1>2, <1>3, <1>4, <1>5, <1>6, <1>7, <1>8, <1>9, <1>10, <1>11
     DEF Next, SendStep, ReceiveStep, Deliver

\* The context is set when the result is taken and reset when it is delivered.
LEMMA ContextStep == TypeOK /\ Bookkeeping /\ ContextInCallback /\ [Next]_vars => ContextInCallback'
<1> SUFFICES ASSUME TypeOK, Bookkeeping, ContextInCallback, [Next]_vars
             PROVE  ContextInCallback'
  OBVIOUS
<1> USE IdFacts, BoundsAssumption
    DEF TypeOK, Bookkeeping, ContextInCallback, mapVars, threadVars, peerVars, Requests, None, NoResponse
<1>1. ASSUME NEW t \in Threads, SendLock(t) PROVE ContextInCallback'
  BY <1>1 DEF SendLock
<1>2. ASSUME NEW t \in Threads, SendWrite(t) PROVE ContextInCallback'
  BY <1>2 DEF SendWrite
<1>3. ASSUME NEW t \in Threads, SendWriteThrows(t) PROVE ContextInCallback'
  BY <1>3 DEF SendWriteThrows
<1>4. ASSUME NEW t \in Threads, SendReturn(t) PROVE ContextInCallback'
  BY <1>4 DEF SendReturn
<1>5. ASSUME NEW t \in Threads, ReadResponse(t) PROVE ContextInCallback'
  BY <1>5 DEF ReadResponse
<1>6. ASSUME NEW t \in Threads, TakeResult(t) PROVE ContextInCallback'
  BY <1>6 DEF TakeResult, Found
<1>7. ASSUME NEW t \in Threads, IgnoreResponse(t) PROVE ContextInCallback'
  BY <1>7 DEF IgnoreResponse
<1>8. ASSUME NEW t \in Threads, Deliver(t) PROVE ContextInCallback'
  <2>1. Completes(t)
    BY <1>8, DeliverFacts
  <2> QED
    BY <2>1 DEF Completes, Delivered
<1>9. ASSUME Disconnect PROVE ContextInCallback'
  BY <1>9 DEF Disconnect
<1>10. ASSUME Destroy PROVE ContextInCallback'
  BY <1>10 DEF Destroy
<1>11. ASSUME UNCHANGED vars PROVE ContextInCallback'
  BY <1>11 DEF vars
<1> QED
  BY <1>1, <1>2, <1>3, <1>4, <1>5, <1>6, <1>7, <1>8, <1>9, <1>10, <1>11
     DEF Next, SendStep, ReceiveStep, Deliver

\* Before the counter comes round, an id stands for one request.
LEMMA ReachesStep == TypeOK /\ Bookkeeping /\ ResultHeldOnce /\ ResponseReachesItsRequest /\ [Next]_vars => ResponseReachesItsRequest'
<1> SUFFICES ASSUME TypeOK, Bookkeeping, ResultHeldOnce, ResponseReachesItsRequest, [Next]_vars
             PROVE  ResponseReachesItsRequest'
  OBVIOUS
<1> USE IdFacts, BoundsAssumption
    DEF TypeOK, Bookkeeping, ResultHeldOnce, ResponseReachesItsRequest, mapVars, threadVars, peerVars, Requests, None, NoResponse
<1>1. ASSUME NEW t \in Threads, SendLock(t) PROVE ResponseReachesItsRequest'
  <2>1. PICK n \in Requests : n = counter + 1
    BY <1>1 DEF SendLock
  <2>2. PICK s \in Styles : Registered(n, s)
    BY <1>1, <2>1, RegisterFacts DEF SendLock
  <2>3. counter' = counter + 1 /\ UNCHANGED <<result, response>>
    BY <1>1, <2>1, <2>2 DEF SendLock, Registered
  <2> QED
    BY <2>1, <2>3, SMTT(30)
<1>2. ASSUME NEW t \in Threads, SendWrite(t) PROVE ResponseReachesItsRequest'
  BY <1>2 DEF SendWrite
<1>3. ASSUME NEW t \in Threads, SendWriteThrows(t) PROVE ResponseReachesItsRequest'
  BY <1>3 DEF SendWriteThrows
<1>4. ASSUME NEW t \in Threads, SendReturn(t) PROVE ResponseReachesItsRequest'
  BY <1>4 DEF SendReturn
<1>5. ASSUME NEW t \in Threads, ReadResponse(t) PROVE ResponseReachesItsRequest'
  <2>1. /\ result' = result /\ counter' = counter
        /\ \A u \in Threads : u # t => response'[u] = response[u]
    BY <1>5 DEF ReadResponse
  <2>2. result[t] = None
    BY <1>5 DEF ReadResponse
  <2> QED
    BY <2>1, <2>2
<1>6. ASSUME NEW t \in Threads, TakeResult(t) PROVE ResponseReachesItsRequest'
  <2> DEFINE id == response[t].id
             m == response[t].to
  <2>1. /\ id \in Ids /\ pending[id] # None
        /\ result' = [result EXCEPT ![t] = pending[id]]
        /\ counter' = counter /\ response' = response
    BY <1>6 DEF TakeResult, Found
  <2>2. pending[id] \in 1 .. counter /\ IdOf(pending[id]) = id
    BY <2>1
  <2>3. m \in 1 .. counter /\ id = IdOf(m)
    BY <2>1
  <2>4. ASSUME counter < IdCount PROVE m = pending[id]
    <3>1. IdOf(m) = m /\ IdOf(pending[id]) = pending[id]
      BY <2>2, <2>3, <2>4
    <3> QED
      BY <2>2, <2>3, <3>1
  <2> QED
    BY <2>1, <2>4
<1>7. ASSUME NEW t \in Threads, IgnoreResponse(t) PROVE ResponseReachesItsRequest'
  <2>1. /\ result' = result /\ counter' = counter
        /\ \A u \in Threads : u # t => response'[u] = response[u]
    BY <1>7 DEF IgnoreResponse
  <2>2. result[t] = None
    BY <1>7 DEF IgnoreResponse
  <2> QED
    BY <2>1, <2>2
<1>8. ASSUME NEW t \in Threads, Deliver(t) PROVE ResponseReachesItsRequest'
  <2>1. Completes(t)
    BY <1>8, DeliverFacts
  <2> QED
    BY <2>1 DEF Completes, Delivered
<1>9. ASSUME Disconnect PROVE ResponseReachesItsRequest'
  BY <1>9 DEF Disconnect
<1>10. ASSUME Destroy PROVE ResponseReachesItsRequest'
  BY <1>10 DEF Destroy
<1>11. ASSUME UNCHANGED vars PROVE ResponseReachesItsRequest'
  BY <1>11 DEF vars
<1> QED
  BY <1>1, <1>2, <1>3, <1>4, <1>5, <1>6, <1>7, <1>8, <1>9, <1>10, <1>11
     DEF Next, SendStep, ReceiveStep, Deliver

\* Whoever completes a future finds its record empty.
LEMMA CompletedStep == TypeOK /\ Bookkeeping /\ ResultHeldOnce /\ FutureCompletedOnce /\ [Next]_vars => FutureCompletedOnce'
<1> SUFFICES ASSUME TypeOK, Bookkeeping, ResultHeldOnce, FutureCompletedOnce, [Next]_vars
             PROVE  FutureCompletedOnce'
  OBVIOUS
<1> USE IdFacts, BoundsAssumption
    DEF TypeOK, Bookkeeping, ResultHeldOnce, FutureCompletedOnce, mapVars, threadVars, peerVars, Requests, None, NoResponse
<1>1. ASSUME NEW t \in Threads, SendLock(t) PROVE FutureCompletedOnce'
  <2>1. PICK n \in Requests : n = counter + 1
    BY <1>1 DEF SendLock
  <2>2. PICK s \in Styles : Registered(n, s)
    BY <1>1, <2>1, RegisterFacts DEF SendLock
  <2>3. n \in Nat /\ n > counter /\ counter \in Nat /\ IdOf(n) \in Ids
    BY <2>1
  <2>4. ASSUME NEW k \in Requests, style'[k] = "future" PROVE Len(calls'[k]) <= 1
    <3>1. CASE k = pending[IdOf(n)]
      <4>1. Len(calls[k]) = 0 /\ k # None
        BY <2>3, <3>1
      <4>2. Len(calls'[k]) = Len(calls[k]) + 1
        BY <2>2, <3>1, <4>1 DEF Registered
      <4> QED
        BY <4>1, <4>2
    <3>2. CASE k = n /\ k # pending[IdOf(n)]
      <4>1. calls[k] = <<>> /\ calls'[k] = calls[k]
        BY <2>2, <2>3, <3>2 DEF Registered
      <4> QED
        BY <4>1
    <3>3. CASE k # n /\ k # pending[IdOf(n)]
      BY <2>2, <2>4, <3>3 DEF Registered
    <3> QED
      BY <3>1, <3>2, <3>3
  <2> QED
    BY <2>4
<1>2. ASSUME NEW t \in Threads, SendWrite(t) PROVE FutureCompletedOnce'
  BY <1>2 DEF SendWrite
<1>3. ASSUME NEW t \in Threads, SendWriteThrows(t) PROVE FutureCompletedOnce'
  BY <1>3 DEF SendWriteThrows
<1>4. ASSUME NEW t \in Threads, SendReturn(t) PROVE FutureCompletedOnce'
  BY <1>4 DEF SendReturn
<1>5. ASSUME NEW t \in Threads, ReadResponse(t) PROVE FutureCompletedOnce'
  BY <1>5 DEF ReadResponse
<1>6. ASSUME NEW t \in Threads, TakeResult(t) PROVE FutureCompletedOnce'
  BY <1>6 DEF TakeResult
<1>7. ASSUME NEW t \in Threads, IgnoreResponse(t) PROVE FutureCompletedOnce'
  BY <1>7 DEF IgnoreResponse
<1>8. ASSUME NEW t \in Threads, Deliver(t) PROVE FutureCompletedOnce'
  <2>1. Completes(t)
    BY <1>8, DeliverFacts
  <2>2. style' = style /\ calls[result[t]] = <<>> /\ result[t] \in Requests
    BY <2>1 DEF Completes, Delivered
  <2>3. ASSUME NEW k \in Requests, style[k] = "future" PROVE Len(calls'[k]) <= 1
    <3>1. CASE k = result[t]
      <4>1. Len(calls[k]) = 0
        BY <2>2, <3>1
      <4>2. Len(calls'[k]) = Len(calls[k]) + 1
        BY <2>1, <2>3, <3>1 DEF Completes
      <4> QED
        BY <4>1, <4>2
    <3>2. CASE k # result[t]
      BY <2>1, <2>3, <3>2 DEF Completes
    <3> QED
      BY <3>1, <3>2
  <2> QED
    BY <2>2, <2>3
<1>9. ASSUME Disconnect PROVE FutureCompletedOnce'
  BY <1>9 DEF Disconnect
<1>10. ASSUME Destroy PROVE FutureCompletedOnce'
  <2>1. DropsPending
    BY <1>10, DestroyFacts
  <2>2. style' = style
    BY <1>10 DEF Destroy
  <2>3. ASSUME NEW k \in Requests, style[k] = "future" PROVE Len(calls'[k]) <= 1
    <3>1. CASE \E i \in Ids : pending[i] = k
      <4>1. Len(calls[k]) = 0
        <5>1. PICK i \in Ids : pending[i] = k
          BY <3>1
        <5>2. k # None
          OBVIOUS
        <5>3. calls[k] = <<>>
          BY <5>1, <5>2
        <5> QED
          BY <5>3
      <4>2. Len(calls'[k]) = Len(calls[k]) + 1
        BY <2>1, <3>1 DEF DropsPending
      <4> QED
        BY <4>1, <4>2
    <3>2. CASE ~(\E i \in Ids : pending[i] = k)
      BY <2>1, <2>3, <3>2 DEF DropsPending
    <3> QED
      BY <3>1, <3>2
  <2> QED
    BY <2>2, <2>3
<1>11. ASSUME UNCHANGED vars PROVE FutureCompletedOnce'
  BY <1>11 DEF vars
<1> QED
  BY <1>1, <1>2, <1>3, <1>4, <1>5, <1>6, <1>7, <1>8, <1>9, <1>10, <1>11
     DEF Next, SendStep, ReceiveStep, Deliver

-----------------------------------------------------------------------------
(* The theorems *)

\* The inductive invariant.
IInv ==
    /\ TypeOK /\ Bookkeeping
    /\ LockHeldWhileSending
    /\ ResultHeldOnce /\ NoResultIsLost
    /\ ContextInCallback /\ ResponseReachesItsRequest
    /\ FutureCompletedOnce

\* At the start no request is known to anyone.
LEMMA InitIInv == Init => IInv
<1> SUFFICES ASSUME Init PROVE IInv
  OBVIOUS
<1> USE IdFacts, BoundsAssumption DEF Init, Requests, None, NoResponse
<1>1. TypeOK
  <2>1. calls \in [Requests -> Seq(CallNames)]
    OBVIOUS
  <2>2. response \in [Threads -> [id : Ids \union {StrayId}, to : {None} \union Requests,
                                  failed : BOOLEAN]]
    OBVIOUS
  <2>3. /\ counter \in 0 .. MaxRequests /\ responses \in 0 .. MaxResponses
        /\ pending \in [Ids -> {None} \union Requests]
        /\ style \in [Requests -> Styles]
        /\ owner \in {<<>>} \union {<<t>> : t \in Threads}
        /\ context \in [Threads -> {<<>>} \union {<<i>> : i \in Ids}]
    BY DEF Styles
  <2>4. /\ pc \in [Threads -> {"idle", "write", "unlock", "take", "deliver"}]
        /\ sending \in [Threads -> {None} \union Requests]
        /\ result \in [Threads -> {None} \union Requests]
        /\ \A t \in Threads :
              /\ sending[t] # None <=> pc[t] \in {"write", "unlock"}
              /\ result[t] # None <=> pc[t] = "deliver" \/ inCallback[t]
    OBVIOUS
  <2>5. inCallback \in [Threads -> BOOLEAN] /\ written \in SUBSET Requests
        /\ connected \in BOOLEAN /\ destroyed \in BOOLEAN
    OBVIOUS
  <2> QED
    BY <2>1, <2>2, <2>3, <2>4, <2>5 DEF TypeOK
<1>2. Bookkeeping /\ LockHeldWhileSending /\ ContextInCallback
  BY DEF Bookkeeping, LockHeldWhileSending, ContextInCallback
<1>3. ResultHeldOnce /\ NoResultIsLost /\ ResponseReachesItsRequest
  BY DEF ResultHeldOnce, NoResultIsLost, ResponseReachesItsRequest
<1>4. FutureCompletedOnce
  BY DEF FutureCompletedOnce
<1> QED
  BY <1>1, <1>2, <1>3, <1>4 DEF IInv

\* Every reachable state satisfies the inductive invariant.
THEOREM Invariance == Spec => []IInv
<1>1. Init => IInv
  BY InitIInv
<1>2. IInv /\ [Next]_vars => IInv'
  BY TypeStep, BookkeepingStep, LockStep, HeldStep, LostStep, ContextStep, ReachesStep,
     CompletedStep
     DEF IInv
<1> QED
  BY <1>1, <1>2, PTL DEF Spec

\* Every variable of the sending half keeps its type, and the locals of each call
\* fit the place the call has reached.
THEOREM TypeCorrect == Spec => []TypeOK
<1>1. IInv => TypeOK
  BY DEF IInv
<1> QED
  BY <1>1, Invariance, PTL

\* m_pendingRequestsMutex is held from the choice of an id to the end of the write.
THEOREM MutexIsHeldWhileSending == Spec => []LockHeldWhileSending
<1>1. IInv => LockHeldWhileSending
  BY DEF IInv
<1> QED
  BY <1>1, Invariance, PTL

\* A result object is in the map or with one reader, never in two places, whatever
\* the peer answers twice and however often the ids come round.
THEOREM ResultsAreHeldOnce == Spec => []ResultHeldOnce
<1>1. IInv => ResultHeldOnce
  BY DEF IInv
<1> QED
  BY <1>1, Invariance, PTL

\* A request whose result object has done nothing is still in the map under its id
\* or with a reader: none is forgotten.
THEOREM ResultsAreNotLost == Spec => []NoResultIsLost
<1>1. IInv => NoResultIsLost
  BY DEF IInv
<1> QED
  BY <1>1, Invariance, PTL

\* While the counter has not come round, a response completes the request that the
\* peer answered.
THEOREM ResponsesReachTheirRequests == Spec => []ResponseReachesItsRequest
<1>1. IInv => ResponseReachesItsRequest
  BY DEF IInv
<1> QED
  BY <1>1, Invariance, PTL

\* currentRequestId() in a callback is the id of the response.
THEOREM CallbacksHaveTheirContext == Spec => []ContextInCallback
<1>1. IInv => ContextInCallback
  BY DEF IInv
<1> QED
  BY <1>1, Invariance, PTL

\* No future is completed twice.
THEOREM FuturesAreCompletedOnce == Spec => []FutureCompletedOnce
<1>1. IInv => FutureCompletedOnce
  BY DEF IInv
<1> QED
  BY <1>1, Invariance, PTL

\* The destructor leaves no request behind.
THEOREM NothingIsPendingAfterTheDestructor == Spec => []DestroyedLeavesNothingPending
<1>1. IInv => DestroyedLeavesNothingPending
  <2> SUFFICES ASSUME IInv, destroyed, NEW n \in 1 .. counter, calls[n] = <<>>
               PROVE  FALSE
    BY DEF DestroyedLeavesNothingPending
  <2> USE DEF IInv, TypeOK, Bookkeeping
  <2>1. n \in Nat /\ n # None /\ IdOf(n) \in Ids
    BY IdFacts DEF None
  <2>2. pending[IdOf(n)] = None /\ \A t \in Threads : result[t] = None
    BY <2>1
  <2> QED
    BY <2>1, <2>2 DEF NoResultIsLost
<1> QED
  BY <1>1, Invariance, PTL
=============================================================================
