----------------------------- MODULE ThreadPool -----------------------------
(***************************************************************************)
(* lsp::ThreadPool (src/lsp/threadpool.cpp, threadpool.h).                 *)
(*                                                                         *)
(* The threads are the submitters, which call addTask(); the workers,      *)
(* one per element of m_threads; and one closer, which calls               *)
(* waitUntilFinished().  A critical section of m_mutex is one action.      *)
(* Workers and submitters block on the same condition variable m_event:    *)
(* a thread blocked there is in state "waiting" and leaves it only when it *)
(* is notified, or spuriously; it then tests its predicate again.          *)
(***************************************************************************)
EXTENDS Integers, Sequences, FiniteSets

CONSTANTS
    Tasks,            \* the callbacks given to addTask
    Submitters,       \* threads calling addTask
    InitialThreads,   \* first argument of the constructor
    MaxThreads,       \* second argument of the constructor
    MaxWaits,         \* bound on the calls of waitUntilFinished
    NoTask            \* the empty TaskPtr

ASSUME InitialThreadsAssumption == InitialThreads \in Nat
ASSUME MaxThreadsAssumption == MaxThreads \in Nat
ASSUME MaxWaitsAssumption == MaxWaits \in Nat
ASSUME NoTaskAssumption == NoTask \notin Tasks

\* m_maxThreads
Capacity == IF MaxThreads >= 1 THEN MaxThreads ELSE 1

\* The constructor starts InitialThreads even when they exceed m_maxThreads.
MaxSlots == IF InitialThreads > Capacity THEN InitialThreads ELSE Capacity
Slots == 1 .. MaxSlots

VARIABLES
    waitForNewTasks,  \* m_waitForNewTasks
    taskQueue,        \* m_taskQueue, front first
    threads,          \* m_threads.size(); worker i is m_threads[i - 1]
    worker,           \* where each worker is in its loop
    current,          \* the worker's local variable task
    caller,           \* where each submitter is in addTask
    holding,          \* the task a submitter passed to addTask
    submitted,        \* the tasks passed to addTask so far
    result,           \* what each task's promise holds
    closing,          \* where the closer is in waitUntilFinished
    joined,           \* threads joined by the loop of waitUntilFinished
    waits             \* calls of waitUntilFinished so far

poolVars == <<waitForNewTasks, taskQueue, threads>>
workerVars == <<worker, current, result>>
callerVars == <<caller, holding, submitted>>
closerVars == <<closing, joined, waits>>
vars == <<poolVars, workerVars, callerVars, closerVars>>

WorkerStates == {"none", "loop", "waiting", "run", "exited"}
CallerStates == {"idle", "add", "waiting", "notify"}
ClosingStates == {"idle", "notifyAll", "join", "notifyAgain"}

Live == {w \in Slots : worker[w] \in {"loop", "waiting", "run"}}

-----------------------------------------------------------------------------
Init ==
    /\ waitForNewTasks = TRUE
    /\ taskQueue = <<>>
    /\ threads = InitialThreads
    /\ worker = [w \in Slots |-> IF w <= InitialThreads THEN "loop" ELSE "none"]
    /\ current = [w \in Slots |-> NoTask]
    /\ caller = [s \in Submitters |-> "idle"]
    /\ holding = [s \in Submitters |-> NoTask]
    /\ submitted = {}
    /\ result = [t \in Tasks |-> "none"]
    /\ closing = "idle"
    /\ joined = 0
    /\ waits = 0

-----------------------------------------------------------------------------
(* addTask *)

Submit(s) ==
    /\ caller[s] = "idle"
    /\ \E t \in Tasks \ submitted :
          /\ holding' = [holding EXCEPT ![s] = t]
          /\ submitted' = submitted \union {t}
    /\ caller' = [caller EXCEPT ![s] = "add"]
    /\ UNCHANGED <<poolVars, workerVars, closerVars>>

\* Mutant of MayEnqueue: addTask does not look at the flag.
MayAlwaysEnqueue == TRUE

\* addTask blocks while the pool is being drained.
MayEnqueue == waitForNewTasks

AddTaskWait(s) ==
    /\ caller[s] = "add"
    /\ ~MayEnqueue
    /\ caller' = [caller EXCEPT ![s] = "waiting"]
    /\ UNCHANGED <<poolVars, workerVars, closerVars, holding, submitted>>

\* Mutant of NeedsThread: no thread for the first task.
NeedsThreadForBacklog(size) == size > 1 /\ threads < Capacity

\* The condition for a new thread; size is that of the queue with the new task.
NeedsThread(size) == (size > 1 /\ threads < Capacity) \/ threads = 0

\* Mutant of AfterAdd: notify_one only when the queue was empty.
AfterAddIfFirst(size) == IF size = 1 THEN "notify" ELSE "idle"

\* Every addTask ends with notify_one, after it released the mutex.
AfterAdd(size) == "notify"

AddTask(s) ==
    /\ caller[s] = "add"
    /\ MayEnqueue
    /\ taskQueue' = Append(taskQueue, holding[s])
    /\ IF NeedsThread(Len(taskQueue) + 1)
          THEN /\ threads' = threads + 1
               /\ worker' = [worker EXCEPT ![threads + 1] = "loop"]
          ELSE UNCHANGED <<threads, worker>>
    /\ caller' = [caller EXCEPT ![s] = AfterAdd(Len(taskQueue) + 1)]
    /\ holding' = [holding EXCEPT ![s] = NoTask]
    /\ UNCHANGED <<waitForNewTasks, current, result, submitted, closerVars>>

\* m_event.notify_one(): any one thread blocked on m_event, if there is one,
\* be it a worker or another submitter.
NotifyOne(s) ==
    /\ caller[s] = "notify"
    /\ \/ \E w \in Slots :
             /\ worker[w] = "waiting"
             /\ worker' = [worker EXCEPT ![w] = "loop"]
             /\ caller' = [caller EXCEPT ![s] = "idle"]
       \/ \E r \in Submitters :
             /\ caller[r] = "waiting"
             /\ caller' = [caller EXCEPT ![r] = "add", ![s] = "idle"]
             /\ UNCHANGED worker
       \/ /\ \A w \in Slots : worker[w] # "waiting"
          /\ \A r \in Submitters : caller[r] # "waiting"
          /\ caller' = [caller EXCEPT ![s] = "idle"]
          /\ UNCHANGED worker
    /\ UNCHANGED <<poolVars, current, result, holding, submitted, closerVars>>

-----------------------------------------------------------------------------
(* The loop of a worker *)

WorkerWait(w) ==
    /\ worker[w] = "loop"
    /\ waitForNewTasks /\ taskQueue = <<>>
    /\ worker' = [worker EXCEPT ![w] = "waiting"]
    /\ UNCHANGED <<poolVars, current, result, callerVars, closerVars>>

\* Mutant of RestOfQueue: front() without pop().
FrontStays == taskQueue

RestOfQueue == Tail(taskQueue)

WorkerTake(w) ==
    /\ worker[w] = "loop"
    /\ taskQueue # <<>>
    /\ current' = [current EXCEPT ![w] = Head(taskQueue)]
    /\ taskQueue' = RestOfQueue
    /\ worker' = [worker EXCEPT ![w] = "run"]
    /\ UNCHANGED <<waitForNewTasks, threads, result, callerVars, closerVars>>

\* A worker leaves its loop when the pool is drained and nothing is queued.
MayExit == ~waitForNewTasks /\ taskQueue = <<>>

WorkerExit(w) ==
    /\ worker[w] = "loop"
    /\ MayExit
    /\ worker' = [worker EXCEPT ![w] = "exited"]
    /\ UNCHANGED <<poolVars, current, result, callerVars, closerVars>>

\* Task::execute(): the promise is set whether the callback returns or throws.
WorkerExecute(w) ==
    /\ worker[w] = "run"
    /\ \E o \in {"value", "exception"} :
          result' = [result EXCEPT ![current[w]] = o]
    /\ current' = [current EXCEPT ![w] = NoTask]
    /\ worker' = [worker EXCEPT ![w] = "loop"]
    /\ UNCHANGED <<poolVars, callerVars, closerVars>>

SpuriousWakeup ==
    /\ \/ /\ \E w \in Slots :
                /\ worker[w] = "waiting"
                /\ worker' = [worker EXCEPT ![w] = "loop"]
          /\ UNCHANGED caller
       \/ /\ \E s \in Submitters :
                /\ caller[s] = "waiting"
                /\ caller' = [caller EXCEPT ![s] = "add"]
          /\ UNCHANGED worker
    /\ UNCHANGED <<poolVars, current, result, holding, submitted, closerVars>>

-----------------------------------------------------------------------------
(* waitUntilFinished, also the body of the destructor *)

WaitBegin ==
    /\ closing = "idle"
    /\ waits < MaxWaits
    /\ waits' = waits + 1
    /\ waitForNewTasks' = FALSE
    /\ closing' = "notifyAll"
    /\ UNCHANGED <<taskQueue, threads, workerVars, callerVars, joined>>

\* Mutant of NotifyAll: only the workers are notified.
NotifyWorkers ==
    /\ worker' = [w \in Slots |-> IF worker[w] = "waiting" THEN "loop" ELSE worker[w]]
    /\ UNCHANGED caller

\* m_event.notify_all()
NotifyAll ==
    /\ worker' = [w \in Slots |-> IF worker[w] = "waiting" THEN "loop" ELSE worker[w]]
    /\ caller' = [s \in Submitters |-> IF caller[s] = "waiting" THEN "add" ELSE caller[s]]

WaitNotifyAll ==
    /\ closing = "notifyAll"
    /\ NotifyAll
    /\ closing' = "join"
    /\ joined' = 0
    /\ UNCHANGED <<poolVars, current, result, holding, submitted, waits>>

\* The loop runs over m_threads without holding the mutex.
WaitJoin ==
    /\ closing = "join"
    /\ joined < threads
    /\ worker[joined + 1] = "exited"
    /\ joined' = joined + 1
    /\ UNCHANGED <<poolVars, workerVars, callerVars, closing, waits>>

\* Mutant of AllJoined: the last thread is not joined.
AllButOneJoined == joined + 1 >= threads

AllJoined == joined = threads

WaitClear ==
    /\ closing = "join"
    /\ AllJoined
    /\ threads' = 0
    /\ worker' = [w \in Slots |-> "none"]
    /\ waitForNewTasks' = TRUE
    /\ closing' = "notifyAgain"
    /\ UNCHANGED <<taskQueue, current, result, callerVars, joined, waits>>

WaitNotifyAgain ==
    /\ closing = "notifyAgain"
    /\ NotifyAll
    /\ closing' = "idle"
    /\ UNCHANGED <<poolVars, current, result, holding, submitted, joined, waits>>

-----------------------------------------------------------------------------
CallerStep(s) == AddTaskWait(s) \/ AddTask(s) \/ NotifyOne(s)
WorkerStep(w) == WorkerWait(w) \/ WorkerTake(w) \/ WorkerExit(w) \/ WorkerExecute(w)
CloserStep == WaitNotifyAll \/ WaitJoin \/ WaitClear \/ WaitNotifyAgain

Next ==
    \/ \E s \in Submitters : Submit(s) \/ CallerStep(s)
    \/ \E w \in Slots : WorkerStep(w)
    \/ SpuriousWakeup
    \/ WaitBegin
    \/ CloserStep

\* The scheduler runs every thread that can run, and callbacks return.
\* Nobody has to call addTask or waitUntilFinished.
Fairness ==
    /\ \A s \in Submitters : WF_vars(CallerStep(s))
    /\ \A w \in Slots : WF_vars(WorkerStep(w))
    /\ WF_vars(CloserStep)

Spec == Init /\ [][Next]_vars
FairSpec == Spec /\ Fairness

-----------------------------------------------------------------------------
(* Invariants *)

\* Every variable has its type, and m_threads never outgrows the larger of the
\* two constructor arguments (addTask's test before addThread).
TypeOK ==
    /\ waitForNewTasks \in BOOLEAN
    /\ taskQueue \in Seq(Tasks)
    /\ threads \in 0 .. MaxSlots
    /\ worker \in [Slots -> WorkerStates]
    /\ current \in [Slots -> Tasks \union {NoTask}]
    /\ caller \in [Submitters -> CallerStates]
    /\ holding \in [Submitters -> Tasks \union {NoTask}]
    /\ submitted \in SUBSET Tasks
    /\ result \in [Tasks -> {"none", "value", "exception"}]
    /\ closing \in ClosingStates
    /\ joined \in Nat
    /\ waits \in 0 .. MaxWaits

\* How the flag, the closer and the threads go together; with TypeOK and the two
\* properties below it is the inductive invariant of the proofs.  Workers leave
\* their loop only in a drain and with nothing queued, nobody sleeps through
\* the join loop, and a submitter sleeps only in a drain or just before the
\* second notify_all.
DrainProtocol ==
    /\ ~waitForNewTasks <=> closing \in {"notifyAll", "join"}
    /\ \A w \in Slots : worker[w] = "none" <=> w > threads
    /\ \A w \in Slots : worker[w] = "exited" => ~waitForNewTasks /\ taskQueue = <<>>
    /\ closing = "join" =>
          /\ joined <= threads
          /\ \A w \in Slots : worker[w] # "waiting"
          /\ \A w \in Slots : w <= joined => worker[w] = "exited"
    /\ \A s \in Submitters :
          caller[s] = "waiting" => ~waitForNewTasks \/ closing = "notifyAgain"

\* Who holds a task: a submitter between addTask and the queue, a worker that
\* runs it; a task is in one place at a time, and its promise is set last.
OnePlace ==
    /\ \A s \in Submitters : holding[s] # NoTask <=> caller[s] \in {"add", "waiting"}
    /\ \A w \in Slots : current[w] # NoTask <=> worker[w] = "run"
    /\ \A s \in Submitters : holding[s] # NoTask =>
          /\ holding[s] \in submitted
          /\ result[holding[s]] = "none"
          /\ \A i \in DOMAIN taskQueue : taskQueue[i] # holding[s]
          /\ \A w \in Slots : current[w] # holding[s]
          /\ \A r \in Submitters : r # s => holding[r] # holding[s]
    /\ \A i \in DOMAIN taskQueue :
          /\ taskQueue[i] \in submitted
          /\ result[taskQueue[i]] = "none"
          /\ \A w \in Slots : current[w] # taskQueue[i]
          /\ \A j \in DOMAIN taskQueue : j # i => taskQueue[j] # taskQueue[i]
    /\ \A w \in Slots : current[w] # NoTask =>
          /\ current[w] \in submitted
          /\ result[current[w]] = "none"
          /\ \A v \in Slots : v # w => current[v] # current[w]
    /\ \A t \in Tasks : t \notin submitted => result[t] = "none"

\* A queued task always has a thread that has not left its loop: addTask starts
\* one when there is none, and none exits or is cleared before it is taken.
NoStrandedTask == taskQueue # <<>> => Live # {}

\* When a task is queued and every thread sleeps on m_event, a notification is
\* still to come: the notify_one of an addTask that has released the mutex, or
\* one of the two notify_all of waitUntilFinished.  (A notify_one can be taken
\* by a submitter, which shares the condition variable with the workers.)
NoLostWakeup ==
    (taskQueue # <<>> /\ \A w \in Live : worker[w] = "waiting")
        => \/ \E s \in Submitters : caller[s] = "notify"
           \/ closing \in {"notifyAll", "notifyAgain"}

\* No thread sleeps while there is more work than threads coming for it: when a
\* worker is asleep, every queued task has a thread about to look at the queue
\* or a notification on its way.
NoIdleSleeper ==
    LET looking == Cardinality({w \in Slots : worker[w] = "loop"})
        coming == Cardinality({s \in Submitters : caller[s] = "notify"})
    IN  (\E w \in Slots : worker[w] = "waiting")
            => \/ Len(taskQueue) <= looking + coming
               \/ closing \in {"notifyAll", "notifyAgain"}

-----------------------------------------------------------------------------
(* Action and temporal properties *)

\* The loop over m_threads in waitUntilFinished holds no lock: the vector must
\* not change under it until the critical section that clears it.
JoinLoopStable == [][closing = "join" => threads' = threads \/ closing' # "join"]_vars

\* The pool as its users see it.
Abstract == INSTANCE TaskPool WITH
    queue <- taskQueue,
    running <- {current[w] : w \in {v \in Slots : worker[v] = "run"}},
    outcome <- result,
    draining <- ~waitForNewTasks

\* The threads, the condition variable and the draining protocol implement the
\* abstract pool: waitUntilFinished reopens it only when all work is done.
ImplementsTaskPool == Abstract!Spec

\* A task given to addTask ends with its promise set, also when the call met a drain and
\* had to wait for the pool to be reopened; waitUntilFinished, and so the destructor,
\* returns.
TasksAndDrainsEnd ==
    /\ \A t \in Tasks : t \in submitted ~> result[t] # "none"
    /\ closing # "idle" ~> closing = "idle"
=============================================================================
