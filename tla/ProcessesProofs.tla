-------------------------- MODULE ProcessesProofs --------------------------
(***************************************************************************)
(* Of Processes, for any number of threads and of starts and any number of *)
(* failures: the program has exactly the descriptors open that its objects *)
(* and starts own, no child is left a zombie, and a process that start()   *)
(* has returned is one whose program was executed.                         *)
(***************************************************************************)
EXTENDS Processes, TLAPS

\* The labels of start(), and those of them after the fork
StartStates == {"pipeIn", "pipeOut", "pipeErr", "fork", "close", "readError", "reap"}
ForkedStates == {"close", "readError", "reap"}

\* A thread that is in start() has a start left.
StartsInRange ==
    \A t \in Threads : pc[t] \in StartStates => starts[t] < MaxStarts[t]

\* What an object or a call holds is an earlier child of the same thread, and the child
\* that is replaced is another than the one that replaces it.
HeldByOne ==
    \A t \in Threads :
        /\ m_pid[t] # None => m_pid[t][1] = t /\ m_pid[t][2] < starts[t]
        /\ target[t] # None => target[t][1] = t /\ target[t][2] < starts[t]
        /\ target[t] # None <=> pc[t] \in {"destroy", "waitpid"}
        /\ pc[t] = "destroy" => target[t] # m_pid[t]

\* A start whose fork failed is over.
LeakedBefore == \A s \in forkFailed : s[2] < starts[s[1]]

\* A child has its error pipe open until it executes the program, or has written the error
\* of execvp; the child of a start under way has not been waited for.
ChildrenFit ==
    /\ \A s \in Starts : /\ child[s] = "forked" => End(s, "err", "write") \in open[s]
                         /\ child[s] = "failed" => s \in reported
    /\ \A t \in Threads :
           pc[t] \in ForkedStates => child[Current(t)] \in {"forked", "running", "failed", "exited"}

\* What the other parts of the invariant are told apart by
Bookkept == TypeOK /\ StartsInRange /\ HeldByOne /\ LeakedBefore

\* The inductive invariant
IInv ==
    /\ Bookkept
    /\ ChildrenFit
    /\ DescriptorsAreOwned
    /\ NoZombieIsLeft
    /\ StartedIsExecuted

-----------------------------------------------------------------------------
(* Starts and ends *)

\* A start is a thread and a number below the thread's bound.
LEMMA StartFacts ==
    /\ \A s \in Starts : /\ s[1] \in Threads /\ s[2] \in Nat
                         /\ s[2] < MaxStarts[s[1]] /\ s = <<s[1], s[2]>>
    /\ \A t \in Threads, n \in Nat : n < MaxStarts[t] => <<t, n>> \in Starts
    BY MaxStartsAssumption DEF Starts

\* The start under way is a start of its thread.
LEMMA CurrentFacts ==
    ASSUME TypeOK, StartsInRange, NEW t \in Threads
    PROVE  /\ Current(t)[1] = t /\ Current(t)[2] = starts[t] /\ starts[t] \in Nat
           /\ pc[t] \in StartStates => Current(t) \in Starts
    BY StartFacts DEF TypeOK, StartsInRange, Current

\* An end is one of a start.
LEMMA EndIsOfStart ==
    ASSUME NEW e \in Ends
    PROVE  e[1] \in Starts /\ e[2] \in {"in", "out", "err"} /\ e[3] \in {"read", "write"}
    BY DEF Ends, AllPipes, InOut, Pipe, End

\* Which ends each set of them has
LEMMA EndFacts ==
    ASSUME NEW s \in Starts, NEW e \in Ends
    PROVE  /\ e \in Pipe(s, "in") <=> e[1] = s /\ e[2] = "in"
           /\ e \in Pipe(s, "out") <=> e[1] = s /\ e[2] = "out"
           /\ e \in Pipe(s, "err") <=> e[1] = s /\ e[2] = "err"
           /\ e \in InOut(s) <=> e[1] = s /\ e[2] # "err"
           /\ e \in AllPipes(s) <=> e[1] = s
           /\ e \in Handles(s) <=> e[1] = s /\ <<e[2], e[3]>> \in {<<"in", "write">>, <<"out", "read">>}
           /\ e \in ChildEnds(s) <=> e[1] = s /\ <<e[2], e[3]>> \in
                  {<<"in", "read">>, <<"out", "write">>, <<"err", "write">>}
<1>. PICK r \in Starts, p \in {"in", "out", "err"}, d \in {"read", "write"} : e = <<r, p, d>>
    BY DEF Ends, AllPipes, InOut, Pipe, End
<1>1. e[1] = r /\ e[2] = p /\ e[3] = d
    OBVIOUS
<1>. QED
    BY <1>1 DEF AllPipes, InOut, Pipe, End, Handles, ChildEnds

\* The ends of a start are ends.
LEMMA EndsOfStart ==
    ASSUME NEW s \in Starts
    PROVE  /\ AllPipes(s) \subseteq Ends /\ InOut(s) \subseteq Ends
           /\ Pipe(s, "in") \subseteq Ends /\ Pipe(s, "out") \subseteq Ends
           /\ Pipe(s, "err") \subseteq Ends /\ Handles(s) \subseteq Ends
           /\ ChildEnds(s) \subseteq Ends
           /\ End(s, "err", "read") \in Pipe(s, "err") /\ End(s, "err", "write") \in Pipe(s, "err")
           /\ End(s, "err", "write") \notin Handles(s)
<1>1. AllPipes(s) \subseteq Ends
    BY DEF Ends
<1>. QED
    BY <1>1 DEF AllPipes, InOut, Pipe, End, Handles, ChildEnds

-----------------------------------------------------------------------------
(* Where threads are, and what they hold *)

\* A step of the thread t, and one of the child s
ThreadStep(t) == Call(t) \/ Return(t) \/ Interrupt(t)
ChildStep(s) == Exec(s) \/ ExecFails(s) \/ Exit(s)

\* A step of one thread changes where it is and what it holds, and nothing of another's.
LEMMA OthersUnchanged ==
    ASSUME TypeOK, NEW t \in Threads, ThreadStep(t)
    PROVE  \A u \in Threads \ {t} :
               /\ pc'[u] = pc[u] /\ starts'[u] = starts[u]
               /\ m_pid'[u] = m_pid[u] /\ target'[u] = target[u]
<1>. USE DEF TypeOK, Goto
<1>1. CASE Start(t) \/ CreatePipes(t) \/ Fork(t) \/ CloseChildEnds(t) \/ ReadError(t)
    BY <1>1 DEF Start, CreatePipes, CreatePipe, Fork, CloseChildEnds, ReadError
<1>2. CASE PipeFails(t) \/ ForkFails(t) \/ ReapFailed(t)
    BY <1>2 DEF PipeFails, ForkFails, ReapFailed, Throw
<1>3. CASE ReadEnd(t) \/ ReadInterrupted(t)
    BY <1>3 DEF ReadEnd, ReadInterrupted, Started
<1>4. CASE CheckRunning(t) \/ wait(t) \/ terminate(t) \/ Destroy(t) \/ WaitReturns(t)
    BY <1>4 DEF CheckRunning, wait, terminate, Destroy, WaitReturns, checkRunning, Release, Reap
<1>5. CASE WaitInterrupted(t)
    BY <1>5 DEF WaitInterrupted
<1>. QED
    BY <1>1, <1>2, <1>3, <1>4, <1>5 DEF ThreadStep, Call, Return, Interrupt, Starting

\* The types are kept.
LEMMA TypesKept ==
    ASSUME Bookkept, [Next]_vars
    PROVE  TypeOK'
<1>. USE DEF Bookkept
<1>1. ASSUME NEW t \in Threads, ThreadStep(t)
      PROVE  TypeOK'
    <2>1. /\ pc[t] \in StartStates => Current(t) \in Starts
          /\ starts[t] \in Nat
        BY CurrentFacts
    <2>2. \A s \in Starts :
              /\ AllPipes(s) \subseteq Ends /\ InOut(s) \subseteq Ends
              /\ Pipe(s, "in") \subseteq Ends /\ Pipe(s, "out") \subseteq Ends
              /\ Pipe(s, "err") \subseteq Ends
        BY EndsOfStart
    <2>3. m_pid[t] \in Starts \union {None} /\ target[t] \in Starts \union {None}
        BY DEF TypeOK
    <2>4. CASE Start(t) \/ Fork(t)
        BY <2>4, <2>1 DEF Start, Fork, Goto, Becomes, TypeOK, States, StartStates, signals
    <2>5. CASE CreatePipes(t)
        BY <2>5, <2>1, <2>2 DEF CreatePipes, CreatePipe, Goto, Open, TypeOK, States, StartStates, signals
    <2>6. CASE PipeFails(t) \/ ForkFails(t)
        BY <2>6, <2>1 DEF PipeFails, ForkFails, Throw, Goto, Close, TypeOK, States, StartStates, signals
    <2>7. CASE CloseChildEnds(t) \/ ReadError(t)
        BY <2>7, <2>1 DEF CloseChildEnds, ReadError, Goto, Close, TypeOK, States, StartStates, signals
    <2>8. CASE ReadEnd(t) \/ ReadInterrupted(t)
        BY <2>8, <2>1, <2>3 DEF ReadEnd, ReadInterrupted, Started, Goto, Close, TypeOK, States,
                                StartStates, signals
    <2>9. CASE ReapFailed(t)
        BY <2>9, <2>1 DEF ReapFailed, Throw, Becomes, Goto, TypeOK, States, StartStates, signals
    <2>10. CASE CheckRunning(t)
        BY <2>10, <2>3 DEF CheckRunning, checkRunning, Reap, Becomes, Close, Goto, TypeOK, States, signals
    <2>11. CASE wait(t) \/ terminate(t)
        BY <2>11, <2>3 DEF wait, terminate, Release, Close, Goto, TypeOK, States
    <2>12. CASE Destroy(t)
        <3>1. target[t] \in Starts
            BY <2>3, <2>12 DEF HeldByOne, Destroy
        <3>. QED
            BY <2>12, <3>1 DEF Destroy, checkRunning, Reap, Release, Becomes, Close, Goto, TypeOK, States, signals
    <2>13. CASE WaitReturns(t)
        <3>1. target[t] \in Starts
            BY <2>3, <2>13 DEF HeldByOne, WaitReturns
        <3>. QED
            BY <2>13, <3>1 DEF WaitReturns, Reap, Becomes, Goto, TypeOK, States, signals
    <2>14. CASE WaitInterrupted(t)
        <3>1. pc[t] = "waitpid" => target[t] \in Starts
            BY <2>3 DEF HeldByOne
        <3>. QED
            BY <2>14, <3>1, <2>1 DEF WaitInterrupted, Goto, TypeOK, States, StartStates
    <2>. QED
        BY <1>1, <2>4, <2>5, <2>6, <2>7, <2>8, <2>9, <2>10, <2>11, <2>12, <2>13, <2>14
        DEF ThreadStep, Call, Return, Interrupt, Starting
<1>2. ASSUME NEW s \in Starts, ChildStep(s)
      PROVE  TypeOK'
    BY <1>2 DEF ChildStep, Exec, ExecFails, Exit, Becomes, TypeOK, signals
<1>3. CASE UNCHANGED vars
    BY <1>3 DEF vars, TypeOK
<1>. QED
    BY <1>1, <1>2, <1>3 DEF Next, ThreadStep, ChildStep

\* So is what the threads' positions say about what they hold.
LEMMA HoldingKept ==
    ASSUME Bookkept, [Next]_vars
    PROVE  (StartsInRange /\ HeldByOne /\ LeakedBefore)'
<1>. USE DEF Bookkept
<1>1. ASSUME NEW t \in Threads, ThreadStep(t)
      PROVE  (StartsInRange /\ HeldByOne /\ LeakedBefore)'
    <2>1. /\ Current(t)[1] = t /\ Current(t)[2] = starts[t] /\ starts[t] \in Nat
          /\ pc[t] \in StartStates => Current(t) \in Starts
        BY CurrentFacts
    <2>2. /\ m_pid[t] \in Starts \union {None} /\ target[t] \in Starts \union {None}
          /\ \A s \in Starts : s[1] \in Threads /\ s[2] \in Nat
        BY StartFacts DEF TypeOK
    <2>3. /\ pc'[t] \in StartStates => starts'[t] < MaxStarts[t]
          /\ m_pid'[t] # None => m_pid'[t][1] = t /\ m_pid'[t][2] < starts'[t]
          /\ target'[t] # None => target'[t][1] = t /\ target'[t][2] < starts'[t]
          /\ target'[t] # None <=> pc'[t] \in {"destroy", "waitpid"}
          /\ pc'[t] = "destroy" => target'[t] # m_pid'[t]
          /\ starts'[t] \in Nat /\ starts'[t] >= starts[t]
          /\ forkFailed' \subseteq forkFailed \union {Current(t)}
          /\ forkFailed' # forkFailed => starts[t] < starts'[t]
        <3>. USE DEF Goto, TypeOK, StartsInRange, HeldByOne, StartStates, signals
        <3>1. CASE Start(t) \/ Fork(t)
            BY <3>1, <2>1, <2>2 DEF Start, Fork
        <3>2. CASE CreatePipes(t)
            BY <3>2, <2>1, <2>2 DEF CreatePipes, CreatePipe
        <3>3. CASE PipeFails(t) \/ ForkFails(t)
            BY <3>3, <2>1, <2>2 DEF PipeFails, ForkFails, Throw
        <3>4. CASE CloseChildEnds(t) \/ ReadError(t)
            BY <3>4, <2>1, <2>2 DEF CloseChildEnds, ReadError
        <3>5. CASE ReadEnd(t) \/ ReadInterrupted(t)
            BY <3>5, <2>1, <2>2, NamesAssumption DEF ReadEnd, ReadInterrupted, Started
        <3>6. CASE ReapFailed(t)
            BY <3>6, <2>1, <2>2 DEF ReapFailed, Throw
        <3>7. CASE CheckRunning(t)
            BY <3>7, <2>1, <2>2 DEF CheckRunning, checkRunning, Reap
        <3>8. CASE wait(t) \/ terminate(t)
            BY <3>8, <2>1, <2>2 DEF wait, terminate, Release
        <3>9. CASE Destroy(t)
            BY <3>9, <2>1, <2>2 DEF Destroy, checkRunning, Reap, Release
        <3>10. CASE WaitReturns(t)
            BY <3>10, <2>1, <2>2 DEF WaitReturns, Reap
        <3>11. CASE WaitInterrupted(t)
            BY <3>11, <2>1, <2>2 DEF WaitInterrupted
        <3>. QED
            BY <1>1, <3>1, <3>2, <3>3, <3>4, <3>5, <3>6, <3>7, <3>8, <3>9, <3>10, <3>11
            DEF ThreadStep, Call, Return, Interrupt, Starting
    <2>4. \A u \in Threads \ {t} :
              /\ pc'[u] = pc[u] /\ starts'[u] = starts[u]
              /\ m_pid'[u] = m_pid[u] /\ target'[u] = target[u]
        BY <1>1, OthersUnchanged
    <2>5. StartsInRange'
        BY <2>3, <2>4 DEF StartsInRange
    <2>6. HeldByOne'
        BY <2>3, <2>4 DEF HeldByOne
    <2>7. LeakedBefore'
        <3>1. \A s \in forkFailed : s \in Starts /\ s[1] \in Threads /\ s[2] \in Nat /\ s[2] < starts[s[1]]
            BY StartFacts DEF LeakedBefore, TypeOK
        <3>2. \A s \in forkFailed : s[2] < starts'[s[1]]
            BY <3>1, <2>1, <2>3, <2>4
        <3>. QED
            BY <3>2, <2>1, <2>3 DEF LeakedBefore
    <2>. QED
        BY <2>5, <2>6, <2>7
<1>2. ASSUME NEW s \in Starts, ChildStep(s)
      PROVE  (StartsInRange /\ HeldByOne /\ LeakedBefore)'
    BY <1>2 DEF ChildStep, Exec, ExecFails, Exit, StartsInRange, HeldByOne, LeakedBefore, signals
<1>3. CASE UNCHANGED vars
    BY <1>3 DEF vars, StartsInRange, HeldByOne, LeakedBefore
<1>. QED
    BY <1>1, <1>2, <1>3 DEF Next, ThreadStep, ChildStep

-----------------------------------------------------------------------------
(* The children *)

\* A child may be left to itself only when nothing is left to wait for.
LeftAlone(s) == child[s] \in {"none", "reaped"} \/ s \in interrupted

\* Only its own thread is concerned with a child.
LEMMA ConcernedIsOwn ==
    ASSUME Bookkept
    PROVE  NoZombieIsLeft <=> \A s \in Starts : s \notin Concerned(s[1]) => LeftAlone(s)
<1>1. \A t \in Threads, s \in Starts : s \in Concerned(t) => s[1] = t
    BY CurrentFacts, NamesAssumption DEF Bookkept, HeldByOne, Concerned, ForkedStates
<1>2. \A s \in Starts : s[1] \in Threads
    BY StartFacts
<1>. QED
    BY <1>1, <1>2 DEF NoZombieIsLeft, LeftAlone

\* A step of a thread leaves the children of the others as they are.
LEMMA OthersChildrenUnchanged ==
    ASSUME Bookkept, NEW t \in Threads, ThreadStep(t)
    PROVE  /\ reported' = reported
           /\ \A s \in Starts : s[1] # t =>
                  /\ child'[s] = child[s] /\ open'[s] = open[s]
                  /\ s \in interrupted' <=> s \in interrupted
                  /\ s \in forkFailed' <=> s \in forkFailed
<1>. USE DEF Bookkept, signals
<1>1. /\ Current(t)[1] = t
      /\ pc[t] \in StartStates => Current(t) \in Starts
    BY CurrentFacts
<1>2. /\ m_pid[t] # None => m_pid[t] \in Starts /\ m_pid[t][1] = t
      /\ target[t] # None => target[t] \in Starts /\ target[t][1] = t
      /\ target[t] # None <=> pc[t] \in {"destroy", "waitpid"}
    BY DEF TypeOK, HeldByOne
<1>3. /\ open \in [Starts \union {Parent} -> SUBSET Ends] /\ Parent \notin Starts
      /\ child \in [Starts -> {"none", "forked", "running", "failed", "exited", "reaped"}]
    BY NamesAssumption DEF TypeOK
<1>. HIDE DEF Bookkept
<1>. USE DEF Open, Close, Becomes, StartStates
<1>4. CASE Start(t) \/ CreatePipes(t) \/ Fork(t)
    BY <1>1, <1>3, <1>4 DEF Start, CreatePipes, CreatePipe, Fork
<1>5. CASE PipeFails(t) \/ ForkFails(t)
    BY <1>1, <1>3, <1>5 DEF PipeFails, ForkFails, Throw
<1>6. CASE CloseChildEnds(t) \/ ReadError(t)
    BY <1>1, <1>3, <1>6 DEF CloseChildEnds, ReadError
<1>7. CASE ReadEnd(t) \/ ReadInterrupted(t)
    BY <1>1, <1>3, <1>7 DEF ReadEnd, ReadInterrupted, Started
<1>8. CASE ReapFailed(t)
    BY <1>1, <1>3, <1>8 DEF ReapFailed, Throw
<1>9. CASE CheckRunning(t)
    BY <1>2, <1>3, <1>9 DEF CheckRunning, checkRunning, Reap
<1>10. CASE wait(t) \/ terminate(t)
    BY <1>2, <1>3, <1>10 DEF wait, terminate, Release
<1>11. CASE Destroy(t)
    BY <1>2, <1>3, <1>11 DEF Destroy, checkRunning, Reap, Release
<1>12. CASE WaitReturns(t)
    BY <1>2, <1>3, <1>12 DEF WaitReturns, Reap
<1>13. CASE WaitInterrupted(t)
    BY <1>1, <1>2, <1>3, <1>13 DEF WaitInterrupted
<1>. QED
    BY <1>4, <1>5, <1>6, <1>7, <1>8, <1>9, <1>10, <1>11, <1>12, <1>13
    DEF ThreadStep, Call, Return, Interrupt, Starting

\* What holds of the children of t and of the one its object has
OwnChildren(t) ==
    /\ pc[t] \in ForkedStates => child[Current(t)] \in {"forked", "running", "failed", "exited"}
    /\ \A s \in Starts : s[1] = t =>
           /\ child[s] = "forked" => End(s, "err", "write") \in open[s]
           /\ child[s] = "failed" => s \in reported
           /\ s \notin Concerned(t) => LeftAlone(s)
    /\ m_pid[t] # None /\ m_pid[t] \notin interrupted => child[m_pid[t]] \in {"running", "exited"}

\* That is all there is to say of the children.
LEMMA ChildrenByThread ==
    ASSUME Bookkept
    PROVE  ChildrenFit /\ NoZombieIsLeft /\ StartedIsExecuted <=> \A t \in Threads : OwnChildren(t)
<1>1. NoZombieIsLeft <=> \A s \in Starts : s \notin Concerned(s[1]) => LeftAlone(s)
    BY ConcernedIsOwn
<1>2. \A s \in Starts : s[1] \in Threads
    BY StartFacts
<1>. QED
    BY <1>1, <1>2 DEF ChildrenFit, StartedIsExecuted, OwnChildren

\* What holds of a thread's children is kept by the steps of the thread.
LEMMA OwnChildrenKept ==
    ASSUME Bookkept, DescriptorsAreOwned, NEW t \in Threads, OwnChildren(t), ThreadStep(t)
    PROVE  OwnChildren(t)'
<1>1. /\ Current(t)[1] = t /\ Current(t)[2] = starts[t] /\ starts[t] \in Nat
      /\ pc[t] \in StartStates => Current(t) \in Starts
    BY CurrentFacts DEF Bookkept
<1>2. /\ m_pid[t] # None => m_pid[t] \in Starts /\ m_pid[t][1] = t /\ m_pid[t][2] < starts[t]
      /\ target[t] # None => target[t] \in Starts /\ target[t][1] = t /\ target[t][2] < starts[t]
      /\ target[t] # None <=> pc[t] \in {"destroy", "waitpid"}
      /\ pc[t] = "destroy" => target[t] # m_pid[t]
      /\ m_pid[t] \in Starts \union {None} /\ target[t] \in Starts \union {None}
    BY DEF TypeOK, HeldByOne, Bookkept
<1>3. /\ open \in [Starts \union {Parent} -> SUBSET Ends] /\ Parent \notin Starts
      /\ child \in [Starts -> {"none", "forked", "running", "failed", "exited", "reaped"}]
      /\ pc \in [Threads -> States] /\ m_pid \in [Threads -> Starts \union {None}]
      /\ target \in [Threads -> Starts \union {None}] /\ starts \in [Threads -> Nat]
    BY NamesAssumption DEF TypeOK, Bookkept
<1>4. \A s \in Starts : s \in Concerned(t) <=>
          s = m_pid[t] \/ s = target[t] \/ (pc[t] \in ForkedStates /\ s = Current(t))
    BY DEF Concerned, ForkedStates
<1>5. \A s \in Starts : s \in Concerned(t)' <=>
          s = m_pid'[t] \/ s = target'[t] \/ (pc'[t] \in ForkedStates /\ s = Current(t)')
    BY DEF Concerned, ForkedStates
<1>6. /\ starts'[t] = starts[t] => Current(t)' = Current(t)
      /\ None \notin Starts
    BY NamesAssumption DEF Current
<1>7. /\ pc[t] \in ForkedStates => child[Current(t)] \in {"forked", "running", "failed", "exited"}
      /\ \A s \in Starts : s[1] = t =>
             /\ child[s] = "forked" => End(s, "err", "write") \in open[s]
             /\ child[s] = "failed" => s \in reported
             /\ s \notin Concerned(t) => LeftAlone(s)
      /\ m_pid[t] # None /\ m_pid[t] \notin interrupted => child[m_pid[t]] \in {"running", "exited"}
    BY DEF OwnChildren
<1>8. SUFFICES
          /\ pc'[t] \in ForkedStates => child'[Current(t)'] \in {"forked", "running", "failed", "exited"}
          /\ \A s \in Starts : s[1] = t =>
                 /\ child'[s] = "forked" => End(s, "err", "write") \in open'[s]
                 /\ child'[s] = "failed" => s \in reported'
                 /\ s \notin Concerned(t)' => child'[s] \in {"none", "reaped"} \/ s \in interrupted'
          /\ m_pid'[t] # None /\ m_pid'[t] \notin interrupted' => child'[m_pid'[t]] \in {"running", "exited"}
    BY DEF OwnChildren, LeftAlone, End
<1>. USE DEF Open, Close, Becomes, Goto, StartStates, ForkedStates, LeftAlone, signals
<1>9. CASE Start(t)
    BY <1>1, <1>2, <1>3, <1>4, <1>5, <1>6, <1>7, <1>9 DEF Start
<1>10. CASE CreatePipes(t)
    BY <1>1, <1>2, <1>3, <1>4, <1>5, <1>6, <1>7, <1>10 DEF CreatePipes, CreatePipe
<1>11. CASE PipeFails(t) \/ ForkFails(t)
    BY <1>1, <1>2, <1>3, <1>4, <1>5, <1>6, <1>7, <1>11 DEF PipeFails, ForkFails, Throw
<1>12. CASE Fork(t)
    <2>1. End(Current(t), "err", "write") \in open[Parent]
        <3>1. End(Current(t), "err", "write") \in InConstructor(t)
            BY <1>12 DEF Fork, InConstructor, AllPipes, Pipe
        <3>. QED
            BY <3>1 DEF DescriptorsAreOwned
    <2>. QED
        BY <1>1, <1>2, <1>3, <1>4, <1>5, <1>6, <1>7, <1>12, <2>1 DEF Fork
<1>13. CASE CloseChildEnds(t) \/ ReadError(t)
    BY <1>1, <1>2, <1>3, <1>4, <1>5, <1>6, <1>7, <1>13 DEF CloseChildEnds, ReadError
<1>14. CASE ReadEnd(t)
    <2>1. End(Current(t), "err", "write") \notin open[Current(t)]
        BY <1>1, <1>14 DEF ReadEnd, Holders
    <2>2. child[Current(t)] \in {"running", "exited"}
        BY <2>1, <1>1, <1>7, <1>14 DEF ReadEnd
    <2>. QED
        BY <1>1, <1>2, <1>3, <1>4, <1>5, <1>6, <1>7, <1>14, <2>2 DEF ReadEnd, Started
<1>15. CASE ReadInterrupted(t)
    BY <1>1, <1>2, <1>3, <1>4, <1>5, <1>6, <1>7, <1>15 DEF ReadInterrupted, Started
<1>16. CASE ReapFailed(t)
    BY <1>1, <1>2, <1>3, <1>4, <1>5, <1>6, <1>7, <1>16 DEF ReapFailed, Throw
<1>17. CASE CheckRunning(t)
    BY <1>1, <1>2, <1>3, <1>4, <1>5, <1>6, <1>7, <1>17 DEF CheckRunning, checkRunning, Reap
<1>18. CASE wait(t) \/ terminate(t)
    BY <1>1, <1>2, <1>3, <1>4, <1>5, <1>6, <1>7, <1>18 DEF wait, terminate, Release
<1>19. CASE Destroy(t)
    BY <1>1, <1>2, <1>3, <1>4, <1>5, <1>6, <1>7, <1>19 DEF Destroy, checkRunning, Reap, Release
<1>20. CASE WaitReturns(t)
    BY <1>1, <1>2, <1>3, <1>4, <1>5, <1>6, <1>7, <1>20 DEF WaitReturns, Reap
<1>21. CASE WaitInterrupted(t)
    BY <1>1, <1>2, <1>3, <1>4, <1>5, <1>6, <1>7, <1>21 DEF WaitInterrupted
<1>. QED
    BY <1>9, <1>10, <1>11, <1>12, <1>13, <1>14, <1>15, <1>16, <1>17, <1>18, <1>19, <1>20, <1>21
    DEF ThreadStep, Call, Return, Interrupt, Starting

\* A child ends, or executes the program, only while somebody is concerned with it.
LEMMA ChildrenKept ==
    ASSUME IInv, [Next]_vars, Bookkept'
    PROVE  (ChildrenFit /\ NoZombieIsLeft /\ StartedIsExecuted)'
<1>1. \A t \in Threads : OwnChildren(t)
    BY ChildrenByThread DEF IInv
<1>2. SUFFICES (\A t \in Threads : OwnChildren(t))'
    BY ChildrenByThread, PTL
<1>3. ASSUME NEW t \in Threads, ThreadStep(t), NEW u \in Threads
      PROVE  OwnChildren(u)'
    <2>1. CASE u = t
        BY <1>1, <1>3, <2>1, OwnChildrenKept DEF IInv
    <2>2. CASE u # t
        <3>1. /\ pc'[u] = pc[u] /\ starts'[u] = starts[u]
              /\ m_pid'[u] = m_pid[u] /\ target'[u] = target[u]
            BY <1>3, <2>2, OthersUnchanged DEF IInv, Bookkept
        <3>2. /\ reported' = reported
              /\ \A s \in Starts : s[1] = u =>
                     /\ child'[s] = child[s] /\ open'[s] = open[s]
                     /\ s \in interrupted' <=> s \in interrupted
            BY <1>3, <2>2, OthersChildrenUnchanged DEF IInv
        <3>3. /\ Current(u)' = Current(u) /\ Concerned(u)' = Concerned(u)
              /\ Current(u)[1] = u
              /\ pc[u] \in ForkedStates => Current(u) \in Starts
            BY <3>1, CurrentFacts DEF Current, Concerned, IInv, Bookkept, StartStates, ForkedStates
        <3>4. m_pid[u] # None => m_pid[u] \in Starts /\ m_pid[u][1] = u
            BY DEF IInv, Bookkept, TypeOK, HeldByOne
        <3>5. pc'[u] \in ForkedStates => child'[Current(u)'] \in {"forked", "running", "failed", "exited"}
            BY <1>1, <3>1, <3>2, <3>3 DEF OwnChildren
        <3>6. m_pid'[u] # None /\ m_pid'[u] \notin interrupted' => child'[m_pid'[u]] \in {"running", "exited"}
            BY <1>1, <3>1, <3>2, <3>4 DEF OwnChildren
        <3>7. \A s \in Starts : s[1] = u =>
                  /\ child'[s] = "forked" => End(s, "err", "write") \in open'[s]
                  /\ child'[s] = "failed" => s \in reported'
                  /\ s \notin Concerned(u)' => child'[s] \in {"none", "reaped"} \/ s \in interrupted'
            BY <1>1, <3>2, <3>3 DEF OwnChildren, LeftAlone
        <3>. QED
            BY <3>5, <3>7, <3>6 DEF OwnChildren, LeftAlone, End
    <2>. QED
        BY <2>1, <2>2
<1>4. ASSUME NEW c \in Starts, ChildStep(c), NEW u \in Threads
      PROVE  OwnChildren(u)'
    <2>1. /\ open \in [Starts \union {Parent} -> SUBSET Ends]
          /\ child \in [Starts -> {"none", "forked", "running", "failed", "exited", "reaped"}]
        BY DEF IInv, Bookkept, TypeOK
    <2>2. /\ UNCHANGED <<pc, starts, m_pid, target, interrupted>>
          /\ reported \subseteq reported'
          /\ \A s \in Starts : s # c => child'[s] = child[s] /\ open'[s] = open[s]
          /\ \/ child[c] = "forked" /\ child'[c] \in {"running", "exited"}
             \/ child[c] = "forked" /\ child'[c] = "failed" /\ c \in reported'
             \/ child[c] = "running" /\ child'[c] = "exited"
        BY <1>4, <2>1 DEF ChildStep, Exec, ExecFails, Exit, Becomes, signals
    <2>3. /\ Current(u)' = Current(u) /\ Concerned(u)' = Concerned(u)
          /\ pc[u] \in ForkedStates => Current(u) \in Starts
          /\ m_pid[u] # None => m_pid[u] \in Starts
        BY <2>2, CurrentFacts DEF Current, Concerned, IInv, Bookkept, TypeOK, StartStates, ForkedStates
    <2>4. /\ pc'[u] \in ForkedStates => child'[Current(u)'] \in {"forked", "running", "failed", "exited"}
          /\ m_pid'[u] # None /\ m_pid'[u] \notin interrupted' => child'[m_pid'[u]] \in {"running", "exited"}
        BY <1>1, <2>2, <2>3 DEF OwnChildren
    <2>5. \A s \in Starts : s[1] = u =>
              /\ child'[s] = "forked" => End(s, "err", "write") \in open'[s]
              /\ child'[s] = "failed" => s \in reported'
              /\ s \notin Concerned(u)' => child'[s] \in {"none", "reaped"} \/ s \in interrupted'
        BY <1>1, <2>2, <2>3 DEF OwnChildren, LeftAlone
    <2>. QED
        BY <2>4, <2>5 DEF OwnChildren, LeftAlone, End
<1>5. CASE UNCHANGED vars
    BY <1>1, <1>5 DEF vars, OwnChildren, LeftAlone, Concerned, Current, End
<1>. QED
    BY <1>3, <1>4, <1>5 DEF Next, ThreadStep, ChildStep

-----------------------------------------------------------------------------
(* The descriptors *)

\* The ends that a Process object keeps, and those that are closed in the parent
IsHandle(e) == <<e[2], e[3]>> \in {<<"in", "write">>, <<"out", "read">>}
IsChildEnd(e) == <<e[2], e[3]>> \in {<<"in", "read">>, <<"out", "write">>, <<"err", "write">>}

\* The end e is one the thread t has a use for, or one that a failed fork has leaked.
Owns(t, e) ==
    \/ /\ e[1] = Current(t)
       /\ \/ pc[t] = "pipeOut" /\ e[2] = "in"
          \/ pc[t] = "pipeErr" /\ e[2] # "err"
          \/ pc[t] \in {"fork", "close"}
          \/ pc[t] = "readError" /\ ~IsChildEnd(e)
    \/ e[1] = m_pid[t] /\ IsHandle(e) /\ ~(pc[t] = "waitpid" /\ target[t] = m_pid[t])
    \/ e[1] = target[t] /\ IsHandle(e) /\ pc[t] = "destroy"
    \/ e[1] \in forkFailed /\ e[2] = "err"

\* The descriptors are owned when each is by the thread whose start made it.
LEMMA OwnedByThread ==
    ASSUME Bookkept
    PROVE  DescriptorsAreOwned <=>
               \A e \in Ends : e \in open[Parent] <=> Owns(e[1][1], e)
<1>. USE DEF IsHandle, IsChildEnd
<1>1. ASSUME NEW t \in Threads, NEW e \in Ends
      PROVE  e \in InConstructor(t) <=>
                 /\ e[1] = Current(t)
                 /\ \/ pc[t] = "pipeOut" /\ e[2] = "in"
                    \/ pc[t] = "pipeErr" /\ e[2] # "err"
                    \/ pc[t] \in {"fork", "close"}
                    \/ pc[t] = "readError" /\ ~IsChildEnd(e)
    <2>1. CASE pc[t] \in {"pipeOut", "pipeErr", "fork", "close", "readError"}
        <3>1. Current(t) \in Starts
            BY <2>1, CurrentFacts DEF Bookkept, StartStates
        <3>. QED
            BY <2>1, <3>1, EndFacts DEF InConstructor
    <2>2. CASE pc[t] \notin {"pipeOut", "pipeErr", "fork", "close", "readError"}
        BY <2>2 DEF InConstructor
    <2>. QED
        BY <2>1, <2>2
<1>2. ASSUME NEW t \in Threads, NEW e \in Ends
      PROVE  e \in InObject(t) <=>
                 \/ e[1] = m_pid[t] /\ IsHandle(e) /\ ~(pc[t] = "waitpid" /\ target[t] = m_pid[t])
                 \/ e[1] = target[t] /\ IsHandle(e) /\ pc[t] = "destroy"
    <2>1. /\ m_pid[t] # None => m_pid[t] \in Starts
          /\ pc[t] = "destroy" => target[t] \in Starts
          /\ e[1] \in Starts /\ None \notin Starts
        BY EndIsOfStart, NamesAssumption DEF Bookkept, TypeOK, HeldByOne
    <2>. QED
        BY <2>1, EndFacts DEF InObject
<1>3. ASSUME NEW e \in Ends
      PROVE  (\E s \in forkFailed : e \in Pipe(s, "err")) <=> e[1] \in forkFailed /\ e[2] = "err"
    BY EndFacts DEF Bookkept, TypeOK
<1>4. ASSUME NEW t \in Threads
      PROVE  InConstructor(t) \subseteq Ends /\ InObject(t) \subseteq Ends
    <2>1. pc[t] \in {"pipeOut", "pipeErr", "fork", "close", "readError"} => Current(t) \in Starts
        BY CurrentFacts DEF Bookkept, StartStates
    <2>2. /\ m_pid[t] # None => m_pid[t] \in Starts
          /\ pc[t] = "destroy" => target[t] \in Starts
        BY DEF Bookkept, TypeOK, HeldByOne
    <2>. QED
        BY <2>1, <2>2, EndsOfStart DEF InConstructor, InObject
<1>5. \A s \in forkFailed : Pipe(s, "err") \subseteq Ends
    BY EndsOfStart DEF Bookkept, TypeOK
<1>6. open[Parent] \subseteq Ends
    BY DEF Bookkept, TypeOK
<1>7. DescriptorsAreOwned <=>
          \A e \in Ends : e \in open[Parent] <=>
              \/ \E t \in Threads : e \in InConstructor(t) \/ e \in InObject(t)
              \/ \E s \in forkFailed : e \in Pipe(s, "err")
    BY <1>4, <1>5, <1>6 DEF DescriptorsAreOwned
<1>8. ASSUME NEW e \in Ends
      PROVE  Owns(e[1][1], e) <=>
              \/ \E t \in Threads : e \in InConstructor(t) \/ e \in InObject(t)
              \/ \E s \in forkFailed : e \in Pipe(s, "err")
    <2>1. e[1] \in Starts /\ e[1][1] \in Threads /\ None \notin Starts
        BY EndIsOfStart, StartFacts, NamesAssumption
    <2>2. \A t \in Threads : Current(t)[1] = t
        BY DEF Current
    <2>3. \A t \in Threads : /\ m_pid[t] # None => m_pid[t][1] = t
                             /\ pc[t] = "destroy" => target[t][1] = t
        BY DEF Bookkept, HeldByOne
    <2>. HIDE DEF IsHandle, IsChildEnd
    <2>4. \A t \in Threads : e \in InConstructor(t) \/ e \in InObject(t) => e[1][1] = t
        BY <1>1, <1>2, <2>1, <2>2, <2>3
    <2>. QED
        BY <1>1, <1>2, <1>3, <2>1, <2>4 DEF Owns
<1>. QED
    BY <1>7, <1>8

\* A step of a thread opens and closes its own ends as it comes to own them, and no others.
LEMMA OwnEndsKept ==
    ASSUME Bookkept, NEW t \in Threads, ThreadStep(t), NEW e \in Ends,
           e[1][1] = t => (e \in open[Parent] <=> Owns(t, e))
    PROVE  /\ e[1][1] = t => (e \in open'[Parent] <=> Owns(t, e)')
           /\ e[1][1] # t => (e \in open'[Parent] <=> e \in open[Parent])
<1>1. /\ Current(t)[1] = t /\ Current(t)[2] = starts[t] /\ starts[t] \in Nat
      /\ pc[t] \in StartStates => Current(t) \in Starts
    BY CurrentFacts DEF Bookkept
<1>2. /\ m_pid[t] # None => m_pid[t] \in Starts /\ m_pid[t][1] = t /\ m_pid[t][2] < starts[t]
      /\ target[t] # None => target[t] \in Starts /\ target[t][1] = t /\ target[t][2] < starts[t]
      /\ target[t] # None <=> pc[t] \in {"destroy", "waitpid"}
      /\ pc[t] = "destroy" => target[t] # m_pid[t]
    BY DEF TypeOK, HeldByOne, Bookkept
<1>3. /\ open \in [Starts \union {Parent} -> SUBSET Ends] /\ Parent \notin Starts
      /\ pc \in [Threads -> States] /\ m_pid \in [Threads -> Starts \union {None}]
      /\ target \in [Threads -> Starts \union {None}] /\ starts \in [Threads -> Nat]
      /\ None \notin Starts
    BY NamesAssumption DEF TypeOK, Bookkept
<1>4. /\ e[1] \in Starts /\ e[2] \in {"in", "out", "err"} /\ e[3] \in {"read", "write"}
      /\ e[1] \in forkFailed => e[1][2] < starts[e[1][1]]
    BY EndIsOfStart DEF LeakedBefore, Bookkept
<1>5. \A s \in Starts :
          /\ e \in Pipe(s, "in") <=> e[1] = s /\ e[2] = "in"
          /\ e \in Pipe(s, "out") <=> e[1] = s /\ e[2] = "out"
          /\ e \in Pipe(s, "err") <=> e[1] = s /\ e[2] = "err"
          /\ e \in InOut(s) <=> e[1] = s /\ e[2] # "err"
          /\ e \in Handles(s) <=> e[1] = s /\ IsHandle(e)
          /\ e \in ChildEnds(s) <=> e[1] = s /\ IsChildEnd(e)
          /\ e = End(s, "err", "read") <=> e[1] = s /\ e[2] = "err" /\ e[3] = "read"
    <2>1. \A s \in Starts : e = End(s, "err", "read") <=> e[1] = s /\ e[2] = "err" /\ e[3] = "read"
        BY DEF Ends, AllPipes, InOut, Pipe, End
    <2>. QED
        BY <2>1, EndFacts DEF IsHandle, IsChildEnd
<1>6. /\ IsHandle(e) <=> (e[2] = "in" /\ e[3] = "write") \/ (e[2] = "out" /\ e[3] = "read")
      /\ IsChildEnd(e) <=>
             (e[2] = "in" /\ e[3] = "read") \/ (e[2] = "out" /\ e[3] = "write")
                 \/ (e[2] = "err" /\ e[3] = "write")
    BY DEF IsHandle, IsChildEnd
<1>7. Current(t)' = <<t, starts'[t]>> /\ Current(t) = <<t, starts[t]>>
    BY DEF Current
<1>8. Owns(t, e)' <=>
          \/ /\ e[1] = Current(t)'
             /\ \/ pc'[t] = "pipeOut" /\ e[2] = "in"
                \/ pc'[t] = "pipeErr" /\ e[2] # "err"
                \/ pc'[t] \in {"fork", "close"}
                \/ pc'[t] = "readError" /\ ~IsChildEnd(e)
          \/ e[1] = m_pid'[t] /\ IsHandle(e) /\ ~(pc'[t] = "waitpid" /\ target'[t] = m_pid'[t])
          \/ e[1] = target'[t] /\ IsHandle(e) /\ pc'[t] = "destroy"
          \/ e[1] \in forkFailed' /\ e[2] = "err"
    BY DEF Owns, IsHandle, IsChildEnd
<1>. USE DEF Open, Close, Goto, StartStates, Owns, signals
<1>9. CASE Start(t)
    BY <1>1, <1>2, <1>3, <1>4, <1>5, <1>6, <1>7, <1>8, <1>9 DEF Start
<1>10. CASE CreatePipes(t)
    BY <1>1, <1>2, <1>3, <1>4, <1>5, <1>6, <1>7, <1>8, <1>10 DEF CreatePipes, CreatePipe
<1>11. CASE PipeFails(t)
    BY <1>1, <1>2, <1>3, <1>4, <1>5, <1>6, <1>7, <1>8, <1>11 DEF PipeFails, Throw
<1>12. CASE ForkFails(t)
    BY <1>1, <1>2, <1>3, <1>4, <1>5, <1>6, <1>7, <1>8, <1>12 DEF ForkFails, Throw
<1>13. CASE Fork(t)
    BY <1>1, <1>2, <1>3, <1>4, <1>5, <1>6, <1>7, <1>8, <1>13 DEF Fork
<1>14. CASE CloseChildEnds(t)
    BY <1>1, <1>2, <1>3, <1>4, <1>5, <1>6, <1>7, <1>8, <1>14 DEF CloseChildEnds
<1>15. CASE ReadEnd(t) \/ ReadInterrupted(t)
    BY <1>1, <1>2, <1>3, <1>4, <1>5, <1>6, <1>7, <1>8, <1>15 DEF ReadEnd, ReadInterrupted, Started
<1>16. CASE ReadError(t)
    BY <1>1, <1>2, <1>3, <1>4, <1>5, <1>6, <1>7, <1>8, <1>16 DEF ReadError
<1>17. CASE ReapFailed(t)
    BY <1>1, <1>2, <1>3, <1>4, <1>5, <1>6, <1>7, <1>8, <1>17 DEF ReapFailed, Throw
<1>18. CASE CheckRunning(t)
    BY <1>1, <1>2, <1>3, <1>4, <1>5, <1>6, <1>7, <1>8, <1>18 DEF CheckRunning, checkRunning, Reap
<1>19. CASE wait(t) \/ terminate(t)
    BY <1>1, <1>2, <1>3, <1>4, <1>5, <1>6, <1>7, <1>8, <1>19 DEF wait, terminate, Release
<1>20. CASE Destroy(t)
    BY <1>1, <1>2, <1>3, <1>4, <1>5, <1>6, <1>7, <1>8, <1>20 DEF Destroy, checkRunning, Reap, Release
<1>21. CASE WaitReturns(t)
    BY <1>1, <1>2, <1>3, <1>4, <1>5, <1>6, <1>7, <1>8, <1>21 DEF WaitReturns, Reap
<1>22. CASE WaitInterrupted(t)
    BY <1>1, <1>2, <1>3, <1>4, <1>5, <1>6, <1>7, <1>8, <1>22 DEF WaitInterrupted
<1>. QED
    BY <1>9, <1>10, <1>11, <1>12, <1>13, <1>14, <1>15, <1>16, <1>17, <1>18, <1>19, <1>20, <1>21, <1>22
    DEF ThreadStep, Call, Return, Interrupt, Starting

\* So the descriptors stay owned.
LEMMA DescriptorsKept ==
    ASSUME Bookkept, DescriptorsAreOwned, [Next]_vars, Bookkept'
    PROVE  DescriptorsAreOwned'
<1>1. \A e \in Ends : e \in open[Parent] <=> Owns(e[1][1], e)
    BY OwnedByThread
<1>2. SUFFICES (\A e \in Ends : e \in open[Parent] <=> Owns(e[1][1], e))'
    BY OwnedByThread, PTL
<1>3. SUFFICES ASSUME NEW e \in Ends
               PROVE  e \in open'[Parent] <=> Owns(e[1][1], e)'
    OBVIOUS
<1>4. e[1] \in Starts /\ e[1][1] \in Threads
    BY EndIsOfStart, StartFacts
<1>5. ASSUME NEW t \in Threads, ThreadStep(t)
      PROVE  e \in open'[Parent] <=> Owns(e[1][1], e)'
    <2>1. /\ e[1][1] = t => (e \in open'[Parent] <=> Owns(t, e)')
          /\ e[1][1] # t => (e \in open'[Parent] <=> e \in open[Parent])
        BY <1>1, <1>5, OwnEndsKept
    <2>2. CASE e[1][1] # t
        <3>. DEFINE u == e[1][1]
        <3>1. /\ pc'[u] = pc[u] /\ starts'[u] = starts[u]
              /\ m_pid'[u] = m_pid[u] /\ target'[u] = target[u]
            BY <1>4, <1>5, <2>2, OthersUnchanged DEF Bookkept
        <3>2. e[1] \in forkFailed' <=> e[1] \in forkFailed
            BY <1>4, <1>5, <2>2, OthersChildrenUnchanged
        <3>3. Owns(u, e)' <=> Owns(u, e)
            BY <3>1, <3>2 DEF Owns, Current, IsHandle, IsChildEnd
        <3>. QED
            BY <1>1, <2>1, <2>2, <3>3
    <2>. QED
        BY <2>1, <2>2
<1>6. ASSUME NEW c \in Starts, ChildStep(c)
      PROVE  e \in open'[Parent] <=> Owns(e[1][1], e)'
    <2>1. UNCHANGED <<pc, starts, m_pid, target, forkFailed>> /\ open'[Parent] = open[Parent]
        BY <1>6, NamesAssumption DEF ChildStep, Exec, ExecFails, Exit, signals, Bookkept, TypeOK
    <2>. QED
        BY <1>1, <2>1 DEF Owns, Current, IsHandle, IsChildEnd
<1>7. CASE UNCHANGED vars
    BY <1>1, <1>7 DEF vars, Owns, Current, IsHandle, IsChildEnd
<1>. QED
    BY <1>5, <1>6, <1>7 DEF Next, ThreadStep, ChildStep

-----------------------------------------------------------------------------
(* The theorems *)

\* Initially there are no children and no descriptors.
LEMMA InitIInv == Init => IInv
<1>1. ASSUME Init
      PROVE  Bookkept
    BY <1>1 DEF Init, Bookkept, TypeOK, States, StartsInRange, HeldByOne, LeakedBefore, StartStates
<1>2. ASSUME Init
      PROVE  ChildrenFit /\ NoZombieIsLeft /\ StartedIsExecuted
    BY <1>2 DEF Init, ChildrenFit, NoZombieIsLeft, StartedIsExecuted, ForkedStates
<1>3. ASSUME Init
      PROVE  DescriptorsAreOwned
    <2>1. \A t \in Threads : InConstructor(t) = {} /\ InObject(t) = {}
        BY <1>3 DEF Init, InConstructor, InObject
    <2>. QED
        BY <1>3, <2>1 DEF Init, DescriptorsAreOwned
<1>. QED
    BY <1>1, <1>2, <1>3 DEF IInv

\* Every step keeps the invariant.
LEMMA StepIInv == IInv /\ [Next]_vars => IInv'
<1>. SUFFICES ASSUME IInv, [Next]_vars
              PROVE  IInv'
    OBVIOUS
<1>1. Bookkept'
    BY TypesKept, HoldingKept DEF IInv, Bookkept
<1>. QED
    BY <1>1, ChildrenKept, DescriptorsKept DEF IInv

\* IInv is an invariant.
THEOREM Invariance == Spec => []IInv
    BY InitIInv, StepIInv, PTL DEF Spec

\* The state of the threads, their objects and the children always has its type.
THEOREM TypeCorrect == Spec => []TypeOK
    BY Invariance, PTL DEF IInv, Bookkept

\* However starts fail and objects are released or replaced, in whatever order the threads
\* run, the program has open exactly what its objects and its starts own.
THEOREM NoDescriptorLeaks == Spec => []DescriptorsAreOwned
    BY Invariance, PTL DEF IInv

\* A child that nobody is concerned with any longer has been waited for.
THEOREM NoZombieStays == Spec => []NoZombieIsLeft
    BY Invariance, PTL DEF IInv

\* A process that start() has returned has executed its program.
THEOREM ReturnsExecuted == Spec => []StartedIsExecuted
    BY Invariance, PTL DEF IInv
=============================================================================
