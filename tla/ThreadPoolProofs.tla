-------------------------- MODULE ThreadPoolProofs --------------------------
(***************************************************************************)
(* Proofs about ThreadPool, for any number of tasks, submitters, threads   *)
(* and calls of waitUntilFinished.                                         *)
(***************************************************************************)
EXTENDS ThreadPool, FiniteSetTheorems, TLAPS

\* The pool has room for at least one thread and for the initial ones.
LEMMA SlotsFacts ==
    /\ Capacity \in Nat /\ Capacity >= 1
    /\ MaxSlots \in Nat /\ MaxSlots >= Capacity /\ MaxSlots >= InitialThreads
BY InitialThreadsAssumption, MaxThreadsAssumption DEF Capacity, MaxSlots

-----------------------------------------------------------------------------
(* One step preserves each part of the invariant. *)

\* addThread never makes m_threads longer than the larger constructor argument.
LEMMA TypeStep == TypeOK /\ OnePlace /\ [Next]_vars => TypeOK'
<1> SUFFICES ASSUME TypeOK, OnePlace, [Next]_vars PROVE TypeOK'
  OBVIOUS
<1> USE DEF TypeOK, WorkerStates, CallerStates, ClosingStates, poolVars,
            workerVars, callerVars, closerVars
<1>1. ASSUME NEW s \in Submitters, Submit(s) PROVE TypeOK'
  BY <1>1 DEF Submit
<1>2. ASSUME NEW s \in Submitters, AddTaskWait(s) PROVE TypeOK'
  BY <1>2 DEF AddTaskWait
<1>3. ASSUME NEW s \in Submitters, AddTask(s) PROVE TypeOK'
  <2>1. holding[s] \in Tasks
    BY <1>3 DEF AddTask, OnePlace
  <2>2. taskQueue' \in Seq(Tasks)
    BY <1>3, <2>1 DEF AddTask
  <2>3. CASE NeedsThread(Len(taskQueue) + 1)
    <3>1. threads + 1 \in 1 .. MaxSlots
      BY <2>3, SlotsFacts DEF NeedsThread
    <3> QED
      BY <1>3, <2>2, <2>3, <3>1 DEF AddTask, AfterAdd, Slots
  <2>4. CASE ~NeedsThread(Len(taskQueue) + 1)
    BY <1>3, <2>2, <2>4 DEF AddTask, AfterAdd
  <2> QED
    BY <2>3, <2>4
<1>4. ASSUME NEW s \in Submitters, NotifyOne(s) PROVE TypeOK'
  BY <1>4 DEF NotifyOne
<1>5. ASSUME NEW w \in Slots, WorkerStep(w) PROVE TypeOK'
  <2>1. CASE WorkerWait(w) \/ WorkerExit(w) \/ WorkerExecute(w)
    BY <2>1 DEF WorkerWait, WorkerExit, WorkerExecute
  <2>2. CASE WorkerTake(w)
    <3>1. Head(taskQueue) \in Tasks /\ Tail(taskQueue) \in Seq(Tasks)
      BY <2>2 DEF WorkerTake, RestOfQueue
    <3> QED
      BY <2>2, <3>1 DEF WorkerTake, RestOfQueue
  <2> QED
    BY <1>5, <2>1, <2>2 DEF WorkerStep
<1>6. ASSUME SpuriousWakeup PROVE TypeOK'
  BY <1>6 DEF SpuriousWakeup
<1>7. ASSUME WaitBegin PROVE TypeOK'
  <2>1. waits' \in 0 .. MaxWaits
    BY <1>7, MaxWaitsAssumption DEF WaitBegin
  <2>2. waitForNewTasks' \in BOOLEAN
    BY <1>7, Zenon DEF WaitBegin
  <2> QED
    BY <1>7, <2>1, <2>2, Zenon DEF WaitBegin
<1>8. ASSUME WaitNotifyAll \/ WaitNotifyAgain PROVE TypeOK'
  BY <1>8 DEF WaitNotifyAll, WaitNotifyAgain, NotifyAll
<1>9. ASSUME WaitJoin PROVE TypeOK'
  BY <1>9 DEF WaitJoin
<1>10. ASSUME WaitClear PROVE TypeOK'
  BY <1>10, SlotsFacts DEF WaitClear
<1>11. ASSUME UNCHANGED vars PROVE TypeOK'
  BY <1>11 DEF vars
<1> QED
  BY <1>1, <1>2, <1>3, <1>4, <1>5, <1>6, <1>7, <1>8, <1>9, <1>10, <1>11
     DEF Next, CallerStep, CloserStep

\* The flag, the closer and the threads stay in step.
LEMMA DrainStep ==
    TypeOK /\ OnePlace /\ DrainProtocol /\ [Next]_vars => DrainProtocol'
<1> SUFFICES ASSUME TypeOK, OnePlace, DrainProtocol, [Next]_vars PROVE DrainProtocol'
  OBVIOUS
<1> USE SlotsFacts DEF TypeOK, WorkerStates, CallerStates, ClosingStates, poolVars,
            workerVars, callerVars, closerVars, DrainProtocol
<1>1. ASSUME NEW s \in Submitters, Submit(s) PROVE DrainProtocol'
  BY <1>1 DEF Submit
<1>2. ASSUME NEW s \in Submitters, AddTaskWait(s) PROVE DrainProtocol'
  BY <1>2 DEF AddTaskWait, MayEnqueue
<1>3. ASSUME NEW s \in Submitters, AddTask(s) PROVE DrainProtocol'
  <2>1. waitForNewTasks /\ \A w \in Slots : worker[w] # "exited"
    BY <1>3 DEF AddTask, MayEnqueue
  <2>2. CASE NeedsThread(Len(taskQueue) + 1)
    <3>1. threads + 1 \in Slots
      BY <2>2 DEF NeedsThread, Slots
    <3> QED
      BY <1>3, <2>1, <2>2, <3>1 DEF AddTask, AfterAdd, Slots
  <2>3. CASE ~NeedsThread(Len(taskQueue) + 1)
    BY <1>3, <2>1, <2>3 DEF AddTask, AfterAdd
  <2> QED
    BY <2>2, <2>3
<1>4. ASSUME NEW s \in Submitters, NotifyOne(s) PROVE DrainProtocol'
  BY <1>4 DEF NotifyOne
<1>5. ASSUME NEW w \in Slots, WorkerStep(w) PROVE DrainProtocol'
  <2>1. CASE WorkerWait(w)
    BY <2>1 DEF WorkerWait
  <2>2. CASE WorkerTake(w)
    BY <2>2 DEF WorkerTake, RestOfQueue
  <2>3. CASE WorkerExit(w)
    BY <2>3 DEF WorkerExit, MayExit
  <2>4. CASE WorkerExecute(w)
    BY <2>4 DEF WorkerExecute
  <2> QED
    BY <1>5, <2>1, <2>2, <2>3, <2>4 DEF WorkerStep
<1>6. ASSUME SpuriousWakeup PROVE DrainProtocol'
  BY <1>6 DEF SpuriousWakeup
<1>7. ASSUME WaitBegin PROVE DrainProtocol'
  BY <1>7 DEF WaitBegin
<1>8. ASSUME WaitNotifyAll PROVE DrainProtocol'
  BY <1>8 DEF WaitNotifyAll, NotifyAll, Slots
<1>9. ASSUME WaitNotifyAgain PROVE DrainProtocol'
  BY <1>9 DEF WaitNotifyAgain, NotifyAll, Slots
<1>10. ASSUME WaitJoin PROVE DrainProtocol'
  BY <1>10 DEF WaitJoin, Slots
<1>11. ASSUME WaitClear PROVE DrainProtocol'
  BY <1>11 DEF WaitClear, Slots
<1>12. ASSUME UNCHANGED vars PROVE DrainProtocol'
  BY <1>12 DEF vars
<1> QED
  BY <1>1, <1>2, <1>3, <1>4, <1>5, <1>6, <1>7, <1>8, <1>9, <1>10, <1>11, <1>12
     DEF Next, CallerStep, CloserStep

\* A thread stays for what is queued: only addTask ends the absence of threads.
LEMMA StrandedStep ==
    TypeOK /\ OnePlace /\ DrainProtocol /\ NoStrandedTask /\ [Next]_vars
        => NoStrandedTask'
<1> SUFFICES ASSUME TypeOK, OnePlace, DrainProtocol, NoStrandedTask, [Next]_vars
             PROVE  NoStrandedTask'
  OBVIOUS
<1> USE SlotsFacts DEF TypeOK, WorkerStates, CallerStates, ClosingStates, poolVars,
            workerVars, callerVars, closerVars, NoStrandedTask, Live
<1>1. ASSUME NEW s \in Submitters, Submit(s) PROVE NoStrandedTask'
  BY <1>1 DEF Submit
<1>2. ASSUME NEW s \in Submitters, AddTaskWait(s) PROVE NoStrandedTask'
  BY <1>2 DEF AddTaskWait
<1>3. ASSUME NEW s \in Submitters, AddTask(s) PROVE NoStrandedTask'
  <2>1. waitForNewTasks /\ \A w \in Slots : worker[w] # "exited"
    BY <1>3 DEF AddTask, MayEnqueue, DrainProtocol
  <2>2. CASE NeedsThread(Len(taskQueue) + 1)
    <3>1. threads + 1 \in Slots
      BY <2>2 DEF NeedsThread, Slots
    <3> QED
      BY <1>3, <2>2, <3>1, ZenonT(30) DEF AddTask, Slots
  <2>3. CASE ~NeedsThread(Len(taskQueue) + 1)
    <3>1. threads \in Slots /\ worker[threads] # "none"
      BY <2>3 DEF NeedsThread, Slots, DrainProtocol
    <3> QED
      BY <1>3, <2>1, <2>3, <3>1 DEF AddTask
  <2> QED
    BY <2>2, <2>3
<1>4. ASSUME NEW s \in Submitters, NotifyOne(s) PROVE NoStrandedTask'
  BY <1>4 DEF NotifyOne
<1>5. ASSUME NEW w \in Slots, WorkerStep(w) PROVE NoStrandedTask'
  <2>1. CASE WorkerWait(w)
    BY <2>1 DEF WorkerWait
  <2>2. CASE WorkerTake(w)
    BY <2>2 DEF WorkerTake, RestOfQueue
  <2>3. CASE WorkerExit(w)
    BY <2>3 DEF WorkerExit, MayExit
  <2>4. CASE WorkerExecute(w)
    BY <2>4 DEF WorkerExecute
  <2> QED
    BY <1>5, <2>1, <2>2, <2>3, <2>4 DEF WorkerStep
<1>6. ASSUME SpuriousWakeup PROVE NoStrandedTask'
  BY <1>6 DEF SpuriousWakeup
<1>7. ASSUME WaitBegin PROVE NoStrandedTask'
  BY <1>7 DEF WaitBegin
<1>8. ASSUME WaitNotifyAll PROVE NoStrandedTask'
  BY <1>8 DEF WaitNotifyAll, NotifyAll
<1>9. ASSUME WaitNotifyAgain PROVE NoStrandedTask'
  BY <1>9 DEF WaitNotifyAgain, NotifyAll
<1>10. ASSUME WaitJoin PROVE NoStrandedTask'
  BY <1>10 DEF WaitJoin
<1>11. ASSUME WaitClear PROVE NoStrandedTask'
  <2>1. taskQueue = <<>>
    BY <1>11 DEF WaitClear, AllJoined, DrainProtocol, Slots
  <2> QED
    BY <1>11, <2>1 DEF WaitClear
<1>12. ASSUME UNCHANGED vars PROVE NoStrandedTask'
  BY <1>12 DEF vars
<1> QED
  BY <1>1, <1>2, <1>3, <1>4, <1>5, <1>6, <1>7, <1>8, <1>9, <1>10, <1>11, <1>12
     DEF Next, CallerStep, CloserStep

\* A notification that goes to a submitter is not one that a worker needed.
LEMMA WakeupStep ==
    TypeOK /\ DrainProtocol /\ NoStrandedTask /\ NoLostWakeup /\ [Next]_vars
        => NoLostWakeup'
<1> SUFFICES ASSUME TypeOK, DrainProtocol, NoStrandedTask, NoLostWakeup, [Next]_vars
             PROVE  NoLostWakeup'
  OBVIOUS
<1> USE SlotsFacts DEF TypeOK, WorkerStates, CallerStates, ClosingStates, poolVars,
            workerVars, callerVars, closerVars, NoLostWakeup, Live
<1>1. ASSUME NEW s \in Submitters, Submit(s) PROVE NoLostWakeup'
  BY <1>1 DEF Submit
<1>2. ASSUME NEW s \in Submitters, AddTaskWait(s) PROVE NoLostWakeup'
  BY <1>2 DEF AddTaskWait
<1>3. ASSUME NEW s \in Submitters, AddTask(s) PROVE NoLostWakeup'
  BY <1>3 DEF AddTask, AfterAdd
<1>4. ASSUME NEW s \in Submitters, NotifyOne(s) PROVE NoLostWakeup'
  <2>1. ASSUME NEW w \in Slots, worker[w] = "waiting",
               worker' = [worker EXCEPT ![w] = "loop"]
        PROVE  NoLostWakeup'
    <3>1. w \in Live' /\ worker'[w] = "loop"
      BY <2>1
    <3> QED
      BY <3>1
  <2>2. ASSUME NEW r \in Submitters, caller[r] = "waiting", UNCHANGED worker
        PROVE  NoLostWakeup'
    <3>1. closing \in {"notifyAll", "join", "notifyAgain"}
      BY <2>2 DEF DrainProtocol
    <3>2. CASE closing = "join"
      <4>1. \A w \in Live' : worker'[w] # "waiting"
        BY <2>2, <3>2 DEF DrainProtocol
      <4>2. taskQueue' # <<>> => Live' # {}
        BY <1>4, <2>2 DEF NotifyOne, NoStrandedTask
      <4> QED
        BY <4>1, <4>2
    <3> QED
      BY <1>4, <3>1, <3>2 DEF NotifyOne
  <2>3. ASSUME \A w \in Slots : worker[w] # "waiting", UNCHANGED worker
        PROVE  NoLostWakeup'
    <3>1. taskQueue' # <<>> => Live' # {}
      BY <1>4, <2>3 DEF NotifyOne, NoStrandedTask
    <3> QED
      BY <2>3, <3>1
  <2> QED
    BY <1>4, <2>1, <2>2, <2>3 DEF NotifyOne
<1>5. ASSUME NEW w \in Slots, WorkerStep(w) PROVE NoLostWakeup'
  <2>1. CASE WorkerWait(w)
    BY <2>1 DEF WorkerWait
  <2>2. CASE WorkerTake(w)
    BY <2>2 DEF WorkerTake, RestOfQueue
  <2>3. CASE WorkerExit(w)
    BY <2>3 DEF WorkerExit, MayExit
  <2>4. CASE WorkerExecute(w)
    BY <2>4 DEF WorkerExecute
  <2> QED
    BY <1>5, <2>1, <2>2, <2>3, <2>4 DEF WorkerStep
<1>6. ASSUME SpuriousWakeup PROVE NoLostWakeup'
  <2>1. CASE UNCHANGED worker
    BY <1>6, <2>1 DEF SpuriousWakeup
  <2>2. ASSUME NEW w \in Slots, worker[w] = "waiting",
               worker' = [worker EXCEPT ![w] = "loop"]
        PROVE  NoLostWakeup'
    BY <2>2
  <2> QED
    BY <1>6, <2>1, <2>2 DEF SpuriousWakeup
<1>7. ASSUME WaitBegin PROVE NoLostWakeup'
  BY <1>7 DEF WaitBegin
<1>8. ASSUME WaitNotifyAll \/ WaitNotifyAgain PROVE NoLostWakeup'
  <2>1. \A w \in Slots : worker'[w] # "waiting"
    BY <1>8 DEF WaitNotifyAll, WaitNotifyAgain, NotifyAll
  <2>2. \A w \in Slots : worker[w] \in {"loop", "waiting", "run"}
                            => worker'[w] \in {"loop", "waiting", "run"}
    BY <1>8 DEF WaitNotifyAll, WaitNotifyAgain, NotifyAll
  <2>3. taskQueue' # <<>> => Live' # {}
    BY <1>8, <2>2 DEF WaitNotifyAll, WaitNotifyAgain, NoStrandedTask
  <2> QED
    BY <2>1, <2>3
<1>9. ASSUME WaitJoin PROVE NoLostWakeup'
  BY <1>9 DEF WaitJoin
<1>10. ASSUME WaitClear PROVE NoLostWakeup'
  BY <1>10 DEF WaitClear
<1>11. ASSUME UNCHANGED vars PROVE NoLostWakeup'
  BY <1>11 DEF vars
<1> QED
  BY <1>1, <1>2, <1>3, <1>4, <1>5, <1>6, <1>7, <1>8, <1>9, <1>10, <1>11
     DEF Next, CallerStep, CloserStep

\* What Append and the pop of the front do to the tasks in a queue.
LEMMA QueueFacts ==
    ASSUME NEW S, NEW q \in Seq(S)
    PROVE  /\ DOMAIN q = 1 .. Len(q)
           /\ \A e \in S : /\ DOMAIN Append(q, e) = 1 .. Len(q) + 1
                           /\ Append(q, e)[Len(q) + 1] = e
                           /\ \A i \in 1 .. Len(q) : Append(q, e)[i] = q[i]
           /\ q # <<>> => /\ Head(q) = q[1] /\ 1 \in DOMAIN q
                          /\ DOMAIN Tail(q) = 1 .. Len(q) - 1
                          /\ \A i \in 1 .. Len(q) - 1 : Tail(q)[i] = q[i + 1]
OBVIOUS

\* A task is in one place at a time, and no promise is set twice.
LEMMA OnePlaceStep ==
    TypeOK /\ DrainProtocol /\ OnePlace /\ [Next]_vars => OnePlace'
<1> SUFFICES ASSUME TypeOK, DrainProtocol, OnePlace, [Next]_vars PROVE OnePlace'
  OBVIOUS
<1> USE NoTaskAssumption
    DEF TypeOK, WorkerStates, CallerStates, poolVars, workerVars, callerVars,
        closerVars, OnePlace
<1>1. ASSUME NEW s \in Submitters, Submit(s) PROVE OnePlace'
  BY <1>1 DEF Submit
<1>2. ASSUME NEW s \in Submitters, AddTaskWait(s) PROVE OnePlace'
  BY <1>2 DEF AddTaskWait
<1>3. ASSUME NEW s \in Submitters, AddTask(s) PROVE OnePlace'
  <2>1. holding[s] \in Tasks
    BY <1>3 DEF AddTask
  <2>2. \A w \in Slots : worker'[w] = "run" <=> worker[w] = "run"
    <3>1. CASE NeedsThread(Len(taskQueue) + 1)
      <4>1. threads + 1 \in Slots => worker[threads + 1] # "run"
        BY SlotsFacts DEF DrainProtocol, Slots
      <4> QED
        BY <1>3, <3>1, <4>1 DEF AddTask
    <3>2. CASE ~NeedsThread(Len(taskQueue) + 1)
      BY <1>3, <3>2 DEF AddTask
    <3> QED
      BY <3>1, <3>2
  <2> DEFINE q == taskQueue
  <2>3. /\ DOMAIN q = 1 .. Len(q)
        /\ DOMAIN q' = 1 .. Len(q) + 1
        /\ q'[Len(q) + 1] = holding[s]
        /\ \A i \in 1 .. Len(q) : q'[i] = q[i]
    BY <1>3, <2>1, QueueFacts DEF AddTask
  <2> HIDE DEF q
  <2> QED
    BY <1>3, <2>1, <2>2, <2>3 DEF AddTask, q, AfterAdd
<1>4. ASSUME NEW s \in Submitters, NotifyOne(s) PROVE OnePlace'
  BY <1>4 DEF NotifyOne
<1>5. ASSUME NEW w \in Slots, WorkerStep(w) PROVE OnePlace'
  <2>1. CASE WorkerWait(w)
    BY <2>1 DEF WorkerWait
  <2>2. CASE WorkerTake(w)
    <3>1. /\ DOMAIN taskQueue = 1 .. Len(taskQueue)
          /\ DOMAIN taskQueue' = 1 .. Len(taskQueue) - 1
          /\ current'[w] = taskQueue[1] /\ 1 \in DOMAIN taskQueue
          /\ \A i \in DOMAIN taskQueue' : i + 1 \in DOMAIN taskQueue
                                          /\ taskQueue'[i] = taskQueue[i + 1]
      BY <2>2, QueueFacts DEF WorkerTake, RestOfQueue
    <3> QED
      BY <2>2, <3>1 DEF WorkerTake
  <2>3. CASE WorkerExit(w)
    BY <2>3 DEF WorkerExit
  <2>4. CASE WorkerExecute(w)
    BY <2>4 DEF WorkerExecute
  <2> QED
    BY <1>5, <2>1, <2>2, <2>3, <2>4 DEF WorkerStep
<1>6. ASSUME SpuriousWakeup PROVE OnePlace'
  BY <1>6 DEF SpuriousWakeup
<1>7. ASSUME WaitBegin PROVE OnePlace'
  BY <1>7 DEF WaitBegin
<1>8. ASSUME WaitNotifyAll \/ WaitNotifyAgain PROVE OnePlace'
  BY <1>8 DEF WaitNotifyAll, WaitNotifyAgain, NotifyAll
<1>9. ASSUME WaitJoin PROVE OnePlace'
  BY <1>9 DEF WaitJoin
<1>10. ASSUME WaitClear PROVE OnePlace'
  <2>1. \A w \in Slots : worker[w] # "run"
    BY <1>10, SlotsFacts DEF WaitClear, AllJoined, DrainProtocol, Slots
  <2> QED
    BY <1>10, <2>1 DEF WaitClear
<1>11. ASSUME UNCHANGED vars PROVE OnePlace'
  BY <1>11 DEF vars
<1> QED
  BY <1>1, <1>2, <1>3, <1>4, <1>5, <1>6, <1>7, <1>8, <1>9, <1>10, <1>11
     DEF Next, CallerStep, CloserStep

\* The threads that NoIdleSleeper counts: the workers about to look at the queue
\* and the submitters whose notify_one is still to come.
Looking == {w \in Slots : worker[w] = "loop"}
Coming == {s \in Submitters : caller[s] = "notify"}

\* Submitters may be an infinite set, of which only those that have called addTask
\* can be about to notify.
Countable == IsFiniteSet(Coming)

\* The workers looking at the queue can be counted, before a step and after it.
LEMMA LookingIsFinite ==
    /\ IsFiniteSet(Looking) /\ Cardinality(Looking) \in Nat
    /\ IsFiniteSet(Looking') /\ Cardinality(Looking') \in Nat
<1>1. IsFiniteSet(Slots)
  BY SlotsFacts, FS_Interval DEF Slots
<1>2. Looking \in SUBSET Slots /\ Looking' \in SUBSET Slots
  BY DEF Looking
<1>3. IsFiniteSet(Looking) /\ IsFiniteSet(Looking')
  BY <1>1, <1>2, FS_Subset
<1> QED
  BY <1>3, FS_CardinalityType

\* One more thread looks or notifies, one fewer, or the same.
LEMMA CountFacts ==
    ASSUME NEW S, NEW x, IsFiniteSet(S)
    PROVE  /\ Cardinality(S) \in Nat
           /\ IsFiniteSet(S \union {x}) /\ Cardinality(S \union {x}) \in Nat
           /\ Cardinality(S \union {x}) >= Cardinality(S)
           /\ x \notin S => Cardinality(S \union {x}) = Cardinality(S) + 1
           /\ IsFiniteSet(S \ {x}) /\ Cardinality(S \ {x}) \in Nat
           /\ Cardinality(S \ {x}) >= Cardinality(S) - 1
<1>1. Cardinality(S) \in Nat
  BY FS_CardinalityType
<1>2. /\ IsFiniteSet(S \union {x})
      /\ Cardinality(S \union {x})
           = IF x \in S THEN Cardinality(S) ELSE Cardinality(S) + 1
  BY FS_AddElement
<1>3. /\ IsFiniteSet(S \ {x})
      /\ Cardinality(S \ {x})
           = IF x \in S THEN Cardinality(S) - 1 ELSE Cardinality(S)
  BY FS_RemoveElement
<1>4. Cardinality(S \ {x}) \in Nat
  BY <1>3, FS_CardinalityType
<1> QED
  BY <1>1, <1>2, <1>3, <1>4

\* The submitters about to notify stay countable: one addTask adds one of them.
LEMMA CountableStep == TypeOK /\ Countable /\ [Next]_vars => Countable'
<1> SUFFICES ASSUME TypeOK, Countable, [Next]_vars PROVE IsFiniteSet(Coming')
  BY DEF Countable
<1> USE DEF TypeOK, callerVars
<1>1. \A s : IsFiniteSet(Coming \union {s}) /\ IsFiniteSet(Coming \ {s})
  BY CountFacts DEF Countable
<1>2. ASSUME UNCHANGED caller PROVE IsFiniteSet(Coming')
  BY <1>2 DEF Countable, Coming
<1>3. ASSUME Coming' = Coming PROVE IsFiniteSet(Coming')
  BY <1>3 DEF Countable
<1>4. ASSUME NEW s \in Submitters, Submit(s) \/ AddTaskWait(s)
      PROVE  IsFiniteSet(Coming')
  <2>1. Coming' = Coming
    BY <1>4 DEF Submit, AddTaskWait, Coming
  <2> QED
    BY <1>3, <2>1
<1>5. ASSUME NEW s \in Submitters, AddTask(s) PROVE IsFiniteSet(Coming')
  <2>1. Coming' = Coming \union {s}
    BY <1>5 DEF AddTask, AfterAdd, Coming
  <2> QED
    BY <1>1, <2>1
<1>6. ASSUME NEW s \in Submitters, NotifyOne(s) PROVE IsFiniteSet(Coming')
  <2>1. Coming' = Coming \ {s}
    BY <1>6 DEF NotifyOne, Coming
  <2> QED
    BY <1>1, <2>1
<1>7. ASSUME SpuriousWakeup \/ WaitNotifyAll \/ WaitNotifyAgain
      PROVE  IsFiniteSet(Coming')
  <2>1. Coming' = Coming
    BY <1>7 DEF SpuriousWakeup, WaitNotifyAll, WaitNotifyAgain, NotifyAll, Coming
  <2> QED
    BY <1>3, <2>1
<1> QED
  BY <1>2, <1>4, <1>5, <1>6, <1>7
     DEF Next, CallerStep, WorkerStep, WorkerWait, WorkerTake, WorkerExit, WorkerExecute,
         CloserStep, WaitBegin, WaitJoin, WaitClear, vars

\* Each addTask sends a notify_one for its task and each notify_one wakes a worker
\* if one sleeps, unless a drain has put a submitter to sleep too; a worker that
\* stops looking has taken a task or found none.
LEMMA SleeperStep ==
    TypeOK /\ OnePlace /\ DrainProtocol /\ Countable /\ NoIdleSleeper /\ [Next]_vars
        => NoIdleSleeper'
<1> SUFFICES ASSUME TypeOK, OnePlace, DrainProtocol, Countable, NoIdleSleeper,
                    [Next]_vars
             PROVE  NoIdleSleeper'
  OBVIOUS
<1> DEFINE Asleep == \E w \in Slots : worker[w] = "waiting"
           Again == closing \in {"notifyAll", "notifyAgain"}
           L == Cardinality(Looking)
           C == Cardinality(Coming)
           Q == Len(taskQueue)
           Kept == Asleep' => Q' <= L' + C' \/ Again'
<1>1. Asleep => Q <= L + C \/ Again
  BY DEF NoIdleSleeper, Looking, Coming
<1>2. SUFFICES Kept
  BY DEF NoIdleSleeper, Looking, Coming
<1>3. TypeOK' /\ Countable'
  BY TypeStep, CountableStep
<1>4. /\ Q \in Nat /\ L \in Nat /\ C \in Nat
      /\ Q' \in Nat /\ L' \in Nat /\ C' \in Nat
  BY <1>3, LookingIsFinite, FS_CardinalityType DEF Countable, TypeOK
<1>5. ASSUME Asleep' => Asleep, Again => Again', Q' <= Q, L' >= L, C' >= C PROVE Kept
  BY <1>1, <1>4, <1>5
<1>6. ASSUME Q' = 0 PROVE Kept
  BY <1>4, <1>6
<1>7. ASSUME ~Asleep' PROVE Kept
  BY <1>7
<1> USE DEF poolVars, workerVars, callerVars, closerVars
<1>8. ASSUME NEW s \in Submitters, Submit(s) \/ AddTaskWait(s) PROVE Kept
  <2>1. Coming' = Coming /\ UNCHANGED <<worker, closing, taskQueue, Looking>>
    BY <1>8 DEF Submit, AddTaskWait, Coming, TypeOK, Looking
  <2> QED
    BY <1>4, <1>5, <2>1
<1>9. ASSUME NEW s \in Submitters, AddTask(s) PROVE Kept
  <2>1. Coming' = Coming \union {s} /\ s \notin Coming
    BY <1>9 DEF AddTask, AfterAdd, Coming, TypeOK
  <2>2. C' = C + 1
    BY <2>1, CountFacts DEF Countable
  <2>3. Q' = Q + 1 /\ Again' = Again
    BY <1>9 DEF AddTask, TypeOK
  <2>4. Asleep' => Asleep
    BY <1>9 DEF AddTask, TypeOK
  <2>5. L' >= L
    <3>1. CASE UNCHANGED worker
      BY <1>4, <3>1 DEF Looking
    <3>2. CASE worker' = [worker EXCEPT ![threads + 1] = "loop"]
      <4>1. CASE threads + 1 \in Slots
        <5>1. Looking' = Looking \union {threads + 1}
          BY <3>2, <4>1 DEF Looking, TypeOK
        <5> QED
          BY <5>1, CountFacts, LookingIsFinite
      <4>2. CASE threads + 1 \notin Slots
        <5>1. Looking' = Looking
          BY <3>2, <4>2 DEF Looking, TypeOK
        <5> QED
          BY <1>4, <5>1
      <4> QED
        BY <4>1, <4>2
    <3> QED
      BY <1>9, <3>1, <3>2 DEF AddTask
  <2> QED
    BY <1>1, <1>4, <2>2, <2>3, <2>4, <2>5
<1>10. ASSUME NEW s \in Submitters, NotifyOne(s) PROVE Kept
  <2>1. Coming' = Coming \ {s}
    BY <1>10 DEF NotifyOne, Coming, TypeOK
  <2>2. C' >= C - 1 /\ Q' = Q /\ Again' = Again
    BY <1>10, <2>1, CountFacts DEF NotifyOne, Countable
  <2>3. ASSUME NEW w \in Slots, worker[w] = "waiting",
               worker' = [worker EXCEPT ![w] = "loop"]
        PROVE  Kept
    <3>1. Looking' = Looking \union {w} /\ w \notin Looking
      BY <2>3 DEF Looking, TypeOK
    <3>2. L' = L + 1
      BY <3>1, CountFacts, LookingIsFinite
    <3> QED
      BY <1>1, <1>4, <2>2, <2>3, <3>2
  <2>4. ASSUME NEW r \in Submitters, caller[r] = "waiting", UNCHANGED worker
        PROVE  Kept
    <3>1. Again \/ closing = "join"
      BY <2>4 DEF DrainProtocol, TypeOK, ClosingStates
    <3>2. closing = "join" => ~Asleep'
      BY <2>4 DEF DrainProtocol
    <3> QED
      BY <2>2, <3>1, <3>2
  <2>5. ASSUME \A w \in Slots : worker[w] # "waiting", UNCHANGED worker PROVE Kept
    BY <2>5
  <2> QED
    BY <1>10, <2>3, <2>4, <2>5 DEF NotifyOne
<1>11. ASSUME NEW w \in Slots, WorkerWait(w) \/ WorkerExit(w) PROVE Kept
  <2>1. Q' = 0
    BY <1>11 DEF WorkerWait, WorkerExit, MayExit
  <2> QED
    BY <1>6, <2>1
<1>12. ASSUME NEW w \in Slots, WorkerTake(w) PROVE Kept
  <2>1. Q' = Q - 1
    BY <1>12 DEF WorkerTake, RestOfQueue, TypeOK
  <2>2. Looking' = Looking \ {w}
    BY <1>12 DEF WorkerTake, Looking, TypeOK
  <2>3. L' >= L - 1
    BY <2>2, CountFacts, LookingIsFinite
  <2>4. (Asleep' => Asleep) /\ Again' = Again /\ C' = C
    BY <1>12 DEF WorkerTake, TypeOK, Coming
  <2> QED
    BY <1>1, <1>4, <2>1, <2>3, <2>4
<1>13. ASSUME NEW w \in Slots, WorkerExecute(w) PROVE Kept
  <2>1. Looking' = Looking \union {w}
    BY <1>13 DEF WorkerExecute, Looking, TypeOK
  <2>2. L' >= L
    BY <2>1, CountFacts, LookingIsFinite
  <2>3. (Asleep' => Asleep) /\ Again' = Again /\ C' = C /\ Q' = Q
    BY <1>13 DEF WorkerExecute, TypeOK, Coming
  <2> QED
    BY <1>4, <1>5, <2>2, <2>3
<1>14. ASSUME SpuriousWakeup PROVE Kept
  <2>1. Coming' = Coming
    BY <1>14 DEF SpuriousWakeup, Coming, TypeOK
  <2>2. ASSUME NEW w \in Slots, worker' = [worker EXCEPT ![w] = "loop"] PROVE L' >= L
    <3>1. Looking' = Looking \union {w}
      BY <2>2 DEF Looking, TypeOK
    <3> QED
      BY <3>1, CountFacts, LookingIsFinite
  <2>3. ASSUME UNCHANGED worker PROVE L' >= L
    BY <1>4, <2>3 DEF Looking
  <2>4. L' >= L
    <3> HIDE DEF L
    <3> QED
      BY <1>14, <2>2, <2>3 DEF SpuriousWakeup
  <2>5. (Asleep' => Asleep) /\ Again' = Again /\ Q' = Q
    BY <1>14 DEF SpuriousWakeup, TypeOK
  <2> QED
    BY <1>4, <1>5, <2>1, <2>4, <2>5
<1>15. ASSUME WaitBegin PROVE Kept
  BY <1>15 DEF WaitBegin
<1>16. ASSUME WaitNotifyAll \/ WaitNotifyAgain \/ WaitClear PROVE Kept
  <2>1. ~Asleep'
    BY <1>16 DEF WaitNotifyAll, WaitNotifyAgain, NotifyAll, WaitClear
  <2> QED
    BY <1>7, <2>1
<1>17. ASSUME WaitJoin \/ UNCHANGED vars PROVE Kept
  <2>1. UNCHANGED <<worker, caller, closing, taskQueue>>
    BY <1>17 DEF WaitJoin, vars
  <2>2. Looking' = Looking /\ Coming' = Coming
    BY <2>1 DEF Looking, Coming
  <2> QED
    BY <1>4, <1>5, <2>1, <2>2
<1> QED
  BY <1>8, <1>9, <1>10, <1>11, <1>12, <1>13, <1>14, <1>15, <1>16, <1>17
     DEF Next, CallerStep, WorkerStep, CloserStep

-----------------------------------------------------------------------------
(* The theorems *)

IInv == TypeOK /\ DrainProtocol /\ OnePlace /\ NoStrandedTask /\ NoLostWakeup

\* The invariant holds of the constructed pool and every step preserves it.
THEOREM Invariance == Spec => []IInv
<1>1. Init => IInv
  BY SlotsFacts, InitialThreadsAssumption, MaxWaitsAssumption, NoTaskAssumption
     DEF Init, IInv, TypeOK, DrainProtocol, OnePlace, NoStrandedTask, NoLostWakeup,
         Slots, WorkerStates, CallerStates, ClosingStates, Live
<1>2. IInv /\ [Next]_vars => IInv'
  BY TypeStep, DrainStep, OnePlaceStep, StrandedStep, WakeupStep DEF IInv
<1> QED
  BY <1>1, <1>2, PTL DEF Spec

\* m_threads stays within the larger constructor argument, and every variable
\* keeps its type, whatever the callers do.
THEOREM TypeCorrect == Spec => []TypeOK
BY Invariance, PTL DEF IInv

\* A task is with its submitter, in the queue, with one worker or finished: the
\* moves out of holding, out of the queue and out of a worker lose and repeat none.
THEOREM TasksAreInOnePlace == Spec => []OnePlace
BY Invariance, PTL DEF IInv

\* A queued task always has a thread that will look at the queue again.
THEOREM NoTaskIsStranded == Spec => []NoStrandedTask
BY Invariance, PTL DEF IInv

\* A queued task never waits for a notification that was given to somebody else,
\* although submitters and workers share one condition variable.
THEOREM NoWakeupIsLost == Spec => []NoLostWakeup
BY Invariance, PTL DEF IInv

\* Nobody sleeps while more is queued than threads and notifications are coming for,
\* for any number of submitters: notify_one is called once per task, and only a
\* submitter that a drain has put to sleep can take the one a worker needed.
THEOREM NoSleeperIsIdle == Spec => []NoIdleSleeper
<1>1. Init => Countable /\ NoIdleSleeper
  <2> SUFFICES ASSUME Init PROVE Countable /\ NoIdleSleeper
    OBVIOUS
  <2>1. Coming = {} /\ \A w \in Slots : worker[w] # "waiting"
    BY DEF Init, Coming
  <2> QED
    BY <2>1, FS_EmptySet DEF Countable, NoIdleSleeper
<1>2. IInv /\ Countable /\ NoIdleSleeper /\ [Next]_vars => (Countable /\ NoIdleSleeper)'
  BY CountableStep, SleeperStep DEF IInv
<1> QED
  BY <1>1, <1>2, Invariance, PTL DEF Spec

\* waitUntilFinished may run over m_threads without the mutex.
THEOREM JoinLoopIsSafe == Spec => JoinLoopStable
<1>1. IInv /\ [Next]_vars =>
        [closing = "join" => threads' = threads \/ closing' # "join"]_vars
  <2> SUFFICES ASSUME IInv, [Next]_vars, closing = "join"
               PROVE  threads' = threads \/ closing' # "join"
    OBVIOUS
  <2>1. ~waitForNewTasks
    BY DEF IInv, DrainProtocol
  <2> QED
    BY <2>1 DEF Next, Submit, CallerStep, AddTaskWait, AddTask, MayEnqueue, NotifyOne,
           WorkerStep, WorkerWait, WorkerTake, WorkerExit, WorkerExecute,
           SpuriousWakeup, WaitBegin, CloserStep, WaitNotifyAll, WaitJoin,
           WaitClear, WaitNotifyAgain, vars, poolVars
<1> QED
  BY <1>1, Invariance, PTL DEF Spec, JoinLoopStable

\* The pool implements the abstract one: tasks start in the order in which they
\* were accepted, each is finished once, and waitUntilFinished reopens the pool
\* only when nothing is queued and nothing runs.
THEOREM Refinement == Spec => ImplementsTaskPool
<1> DEFINE Running == {current[w] : w \in {v \in Slots : worker[v] = "run"}}
<1>1. Init => Abstract!Init
  BY SlotsFacts DEF Init, Abstract!Init, Slots
<1>2. IInv /\ [Next]_vars => [Abstract!Next]_(Abstract!vars)
  <2> SUFFICES ASSUME IInv, [Next]_vars PROVE [Abstract!Next]_(Abstract!vars)
    OBVIOUS
  <2> USE DEF IInv, TypeOK, poolVars, workerVars, callerVars, closerVars
  <2>1. ASSUME \A w \in Slots : /\ worker'[w] = "run" <=> worker[w] = "run"
                                /\ current'[w] = current[w]
        PROVE  Running' = Running
    BY <2>1
  <2>2. ASSUME UNCHANGED <<waitForNewTasks, taskQueue, result, Running>>
        PROVE  UNCHANGED Abstract!vars
    BY <2>2 DEF Abstract!vars
  <2>3. ASSUME NEW s \in Submitters, Submit(s) PROVE UNCHANGED Abstract!vars
    BY <2>1, <2>2, <2>3 DEF Submit
  <2>4. ASSUME NEW s \in Submitters, AddTaskWait(s) PROVE UNCHANGED Abstract!vars
    BY <2>1, <2>2, <2>4 DEF AddTaskWait
  <2>5. ASSUME NEW s \in Submitters, AddTask(s) PROVE Abstract!Next
    <3>1. holding[s] \in Tasks /\ Abstract!Fresh(holding[s])
      BY <2>5 DEF AddTask, OnePlace, Abstract!Fresh
    <3>2. \A w \in Slots : worker'[w] = "run" <=> worker[w] = "run"
      <4>1. threads + 1 \in Slots => worker[threads + 1] # "run"
        BY SlotsFacts DEF DrainProtocol, Slots
      <4> QED
        BY <2>5, <4>1 DEF AddTask
    <3>3. Running' = Running
      BY <2>1, <2>5, <3>2 DEF AddTask
    <3>4. Abstract!Accept(holding[s])
      BY <2>5, <3>1, <3>3 DEF AddTask, MayEnqueue, Abstract!Accept
    <3> QED
      BY <3>1, <3>4 DEF Abstract!Next
  <2>6. ASSUME NEW s \in Submitters, NotifyOne(s) PROVE UNCHANGED Abstract!vars
    <3>1. \A w \in Slots : worker'[w] = "run" <=> worker[w] = "run"
      BY <2>6 DEF NotifyOne
    <3> QED
      BY <2>1, <2>2, <2>6, <3>1 DEF NotifyOne
  <2>7. ASSUME NEW w \in Slots, WorkerWait(w) \/ WorkerExit(w)
        PROVE  UNCHANGED Abstract!vars
    BY <2>1, <2>2, <2>7 DEF WorkerWait, WorkerExit
  <2>8. ASSUME NEW w \in Slots, WorkerTake(w) PROVE Abstract!Next
    <3>1. Running' = Running \union {Head(taskQueue)}
      <4>1. /\ worker'[w] = "run" /\ current'[w] = Head(taskQueue)
            /\ worker[w] # "run"
            /\ \A v \in Slots \ {w} : worker'[v] = worker[v] /\ current'[v] = current[v]
        BY <2>8 DEF WorkerTake, RestOfQueue
      <4> QED
        BY <4>1
    <3> QED
      BY <2>8, <3>1 DEF WorkerTake, RestOfQueue, Abstract!Start, Abstract!Next
  <2>9. ASSUME NEW w \in Slots, WorkerExecute(w) PROVE Abstract!Next
    <3>1. current[w] \in Tasks /\ current[w] \in Running
      BY <2>9 DEF WorkerExecute, OnePlace
    <3>2. Running' = Running \ {current[w]}
      <4>1. /\ worker[w] = "run" /\ worker'[w] # "run"
            /\ \A v \in Slots \ {w} : worker'[v] = worker[v] /\ current'[v] = current[v]
        BY <2>9 DEF WorkerExecute
      <4>2. \A v \in Slots \ {w} : worker[v] = "run" => current[v] # current[w]
        BY <3>1, NoTaskAssumption DEF OnePlace
      <4> QED
        BY <4>1, <4>2
    <3>3. Abstract!Finish(current[w])
      BY <2>9, <3>1, <3>2 DEF WorkerExecute, Abstract!Finish, Abstract!Outcomes
    <3> QED
      BY <3>1, <3>3 DEF Abstract!Next, Abstract!Finish
  <2>10. ASSUME SpuriousWakeup PROVE UNCHANGED Abstract!vars
    <3>1. \A w \in Slots : worker'[w] = "run" <=> worker[w] = "run"
      BY <2>10 DEF SpuriousWakeup
    <3> QED
      BY <2>1, <2>2, <2>10, <3>1 DEF SpuriousWakeup
  <2>11. ASSUME WaitBegin PROVE Abstract!Next
    <3>1. Running' = Running /\ waitForNewTasks
      BY <2>1, <2>11 DEF WaitBegin, DrainProtocol
    <3> QED
      BY <2>11, <3>1 DEF WaitBegin, Abstract!BeginDrain, Abstract!Next
  <2>12. ASSUME WaitNotifyAll \/ WaitNotifyAgain PROVE UNCHANGED Abstract!vars
    <3>1. \A w \in Slots : worker'[w] = "run" <=> worker[w] = "run"
      BY <2>12 DEF WaitNotifyAll, WaitNotifyAgain, NotifyAll
    <3> QED
      BY <2>1, <2>2, <2>12, <3>1 DEF WaitNotifyAll, WaitNotifyAgain
  <2>13. ASSUME WaitJoin PROVE UNCHANGED Abstract!vars
    BY <2>1, <2>2, <2>13 DEF WaitJoin
  <2>14. ASSUME WaitClear PROVE Abstract!Next
    <3>1. \A w \in Slots : worker[w] \in {"none", "exited"}
      BY <2>14, SlotsFacts DEF WaitClear, AllJoined, DrainProtocol, Slots
    <3>2. taskQueue = <<>>
      BY <3>1 DEF NoStrandedTask, Live
    <3>3. Running = {} /\ Running' = {} /\ ~waitForNewTasks
      BY <2>14, <3>1 DEF WaitClear, DrainProtocol
    <3> QED
      BY <2>14, <3>2, <3>3 DEF WaitClear, Abstract!EndDrain, Abstract!Next
  <2>15. ASSUME UNCHANGED vars PROVE UNCHANGED Abstract!vars
    BY <2>1, <2>2, <2>15 DEF vars
  <2> QED
    BY <2>3, <2>4, <2>5, <2>6, <2>7, <2>8, <2>9, <2>10, <2>11, <2>12, <2>13,
       <2>14, <2>15
       DEF Next, CallerStep, WorkerStep, CloserStep
<1> QED
  BY <1>1, <1>2, Invariance, PTL DEF Spec, ImplementsTaskPool, Abstract!Spec
=============================================================================
