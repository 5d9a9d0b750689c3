----------------------------- MODULE Processes -----------------------------
(***************************************************************************)
(* src/lsp/process.cpp on POSIX: threads of one program start, check, wait *)
(* for, terminate and replace child processes, each through a Process      *)
(* object of its own.  A child inherits every descriptor that is open when *)
(* it is forked and keeps all but the ends of its own pipes.               *)
(***************************************************************************)
EXTENDS Integers, FiniteSets

CONSTANTS
    Threads,
    MaxStarts,    \* thread -> how often it starts a process
    Parent,       \* the program itself, among those that hold descriptors
    None,         \* no process: m_pid is -1
    MaxFaults     \* bound on failed forks and on interrupted calls

ASSUME MaxStartsAssumption == MaxStarts \in [Threads -> Nat]

\* A start by its thread and number; also the child that comes of it.
Starts == UNION {{t} \X (0 .. MaxStarts[t] - 1) : t \in Threads}
End(s, pipe, side) == <<s, pipe, side>>
Pipe(s, pipe) == {End(s, pipe, side) : side \in {"read", "write"}}
InOut(s) == Pipe(s, "in") \union Pipe(s, "out")
AllPipes(s) == InOut(s) \union Pipe(s, "err")

\* m_stdinWrite and m_stdoutRead
Handles(s) == {End(s, "in", "write"), End(s, "out", "read")}
ChildEnds(s) == {End(s, "in", "read"), End(s, "out", "write"), End(s, "err", "write")}

Ends == UNION {AllPipes(s) : s \in Starts}

ASSUME NamesAssumption == Parent \notin Starts /\ None \notin Starts

VARIABLES
    pc,          \* where a thread is
    starts,      \* number of starts of a thread so far
    m_pid,       \* the child of a thread's object
    target,      \* the child a thread waits for or destroys
    open,        \* holder -> ends it has open
    child,       \* what has become of each child
    reported,    \* children whose execvp error is in their error pipe
    signalled,   \* children that were sent a signal
    forkFailed,  \* starts whose fork failed
    interrupted  \* children whose start or end a signal kept from being noticed

vars == <<pc, starts, m_pid, target, open, child, reported, signalled, forkFailed, interrupted>>
signals == <<reported, signalled, forkFailed, interrupted>>

Current(t) == <<t, starts[t]>>
Zombie(s) == child[s] \in {"failed", "exited"}
Holders(end) == {h \in Starts \union {Parent} : end \in open[h]}

Init ==
    /\ pc = [t \in Threads |-> "idle"]
    /\ starts = [t \in Threads |-> 0]
    /\ m_pid = [t \in Threads |-> None]
    /\ target = [t \in Threads |-> None]
    /\ open = [h \in Starts \union {Parent} |-> {}]
    /\ child = [s \in Starts |-> "none"]
    /\ reported = {} /\ signalled = {} /\ forkFailed = {} /\ interrupted = {}

Goto(t, label) == pc' = [pc EXCEPT ![t] = label]
Open(ends) == open' = [open EXCEPT ![Parent] = @ \union ends]
Close(ends) == open' = [open EXCEPT ![Parent] = @ \ ends]
Becomes(s, state) == child' = [child EXCEPT ![s] = state]

\* start() throws.
Throw(t) ==
    /\ Goto(t, "idle")
    /\ starts' = [starts EXCEPT ![t] = @ + 1]

-----------------------------------------------------------------------------
(* Process::start *)

Start(t) ==
    /\ pc[t] = "idle"
    /\ starts[t] < MaxStarts[t]
    /\ Goto(t, "pipeIn")
    /\ UNCHANGED <<starts, m_pid, target, open, child, signals>>

CreatePipe(t, pipe, next) ==
    /\ Open(Pipe(Current(t), pipe))
    /\ Goto(t, next)
    /\ UNCHANGED <<starts, m_pid, target, child, signals>>

CreatePipes(t) ==
    \/ pc[t] = "pipeIn" /\ CreatePipe(t, "in", "pipeOut")
    \/ pc[t] = "pipeOut" /\ CreatePipe(t, "out", "pipeErr")
    \/ pc[t] = "pipeErr" /\ CreatePipe(t, "err", "fork")

\* Those that were opened before are closed.
PipeFails(t) ==
    /\ pc[t] \in {"pipeIn", "pipeOut", "pipeErr"}
    /\ Close(InOut(Current(t)))
    /\ Throw(t)
    /\ UNCHANGED <<m_pid, target, child, signals>>

MayFail == Cardinality(forkFailed) + Cardinality(interrupted) < MaxFaults

\* The error pipe is left open.
ForkFails(t) ==
    /\ pc[t] = "fork"
    /\ MayFail
    /\ Close(InOut(Current(t)))
    /\ forkFailed' = forkFailed \union {Current(t)}
    /\ Throw(t)
    /\ UNCHANGED <<m_pid, target, child, reported, signalled, interrupted>>

Fork(t) ==
    /\ pc[t] = "fork"
    /\ Becomes(Current(t), "forked")
    /\ open' = [open EXCEPT ![Current(t)] = open[Parent]]
    /\ Goto(t, "close")
    /\ UNCHANGED <<starts, m_pid, target, signals>>

\* Mutant of CloseChildEnds: the write end of the error pipe stays open.
CloseInOut(t) ==
    /\ pc[t] = "close"
    /\ Close(ChildEnds(Current(t)) \ Pipe(Current(t), "err"))
    /\ Goto(t, "readError")
    /\ UNCHANGED <<starts, m_pid, target, child, signals>>

CloseChildEnds(t) ==
    /\ pc[t] = "close"
    /\ Close(ChildEnds(Current(t)))
    /\ Goto(t, "readError")
    /\ UNCHANGED <<starts, m_pid, target, child, signals>>

\* The object holds the new child; one it held before is destroyed.
Started(t) ==
    /\ m_pid' = [m_pid EXCEPT ![t] = Current(t)]
    /\ target' = [target EXCEPT ![t] = m_pid[t]]
    /\ Close({End(Current(t), "err", "read")})
    /\ Goto(t, IF m_pid[t] = None THEN "idle" ELSE "destroy")
    /\ starts' = [starts EXCEPT ![t] = @ + 1]

\* Mutant of ReadEnd: start() does not wait for the error pipe.
ReadAtOnce(t) ==
    /\ pc[t] = "readError"
    /\ Current(t) \notin reported
    /\ Started(t)
    /\ UNCHANGED <<child, signals>>

\* The error pipe is at its end: execvp has closed it.
ReadEnd(t) ==
    /\ pc[t] = "readError"
    /\ Current(t) \notin reported
    /\ Holders(End(Current(t), "err", "write")) = {}
    /\ Started(t)
    /\ UNCHANGED <<child, signals>>

\* read() fails with EINTR, which counts as no error.
ReadInterrupted(t) ==
    /\ pc[t] = "readError"
    /\ Current(t) \notin reported
    /\ MayFail
    /\ Started(t)
    /\ interrupted' = interrupted \union {Current(t)}
    /\ UNCHANGED <<child, reported, signalled, forkFailed>>

\* Mutant of ReadError: the handles are not closed.
ReadErrorOnly(t) ==
    /\ pc[t] = "readError"
    /\ Current(t) \in reported
    /\ Close({End(Current(t), "err", "read")})
    /\ Goto(t, "reap")
    /\ UNCHANGED <<starts, m_pid, target, child, signals>>

ReadError(t) ==
    /\ pc[t] = "readError"
    /\ Current(t) \in reported
    /\ Close({End(Current(t), "err", "read")} \union Handles(Current(t)))
    /\ Goto(t, "reap")
    /\ UNCHANGED <<starts, m_pid, target, child, signals>>

\* Mutant of ReapFailed: the child whose execvp failed is not waited for.
ReapNothing(t) ==
    /\ pc[t] = "reap"
    /\ Throw(t)
    /\ UNCHANGED <<m_pid, target, open, child, signals>>

ReapFailed(t) ==
    /\ pc[t] = "reap"
    /\ Zombie(Current(t))
    /\ Becomes(Current(t), "reaped")
    /\ Throw(t)
    /\ UNCHANGED <<m_pid, target, open, signals>>

-----------------------------------------------------------------------------
(* The child *)

\* All of its own ends are closed but those that are its standard input and output.
Exec(s) ==
    /\ child[s] = "forked"
    /\ Becomes(s, "running")
    /\ open' = [open EXCEPT ![s] =
                    @ \ (Handles(s) \union Pipe(s, "err"))]
    /\ UNCHANGED <<pc, starts, m_pid, target, signals>>

ExecFails(s) ==
    /\ child[s] = "forked"
    /\ reported' = reported \union {s}
    /\ Becomes(s, "failed")
    /\ open' = [open EXCEPT ![s] = {}]
    /\ UNCHANGED <<pc, starts, m_pid, target, signalled, forkFailed, interrupted>>

Exit(s) ==
    /\ child[s] = "running" \/ (child[s] = "forked" /\ s \in signalled)
    /\ Becomes(s, "exited")
    /\ open' = [open EXCEPT ![s] = {}]
    /\ UNCHANGED <<pc, starts, m_pid, target, signals>>

\* External: a program ends when its input does, or by a signal.
MustExit(s) == s \in signalled \/ Holders(End(s, "in", "write")) = {}

-----------------------------------------------------------------------------
(* The object *)

\* waitpid has returned the child s: the object does not hold it any longer.
Reap(t, s) ==
    /\ Zombie(s)
    /\ Becomes(s, "reaped")
    /\ m_pid' = [m_pid EXCEPT ![t] = IF @ = s THEN None ELSE @]
    /\ target' = [target EXCEPT ![t] = None]
    /\ Goto(t, "idle")
    /\ UNCHANGED <<starts, signals>>

\* checkRunning finds that the child has ended.  isRunning, id and stdIO do no more than
\* this, and nothing otherwise.
checkRunning(t, s) == Reap(t, s) /\ Close(Handles(s))

CheckRunning(t) == pc[t] = "idle" /\ m_pid[t] # None /\ checkRunning(t, m_pid[t])

\* closeStdHandles and, but for wait(), a signal; then waitpid.
Release(t, s, signalsSent) ==
    /\ ~Zombie(s)
    /\ Close(Handles(s))
    /\ signalled' = signalled \union signalsSent
    /\ target' = [target EXCEPT ![t] = s]
    /\ Goto(t, "waitpid")
    /\ UNCHANGED <<starts, m_pid, child, reported, forkFailed, interrupted>>

\* wait(), which is also what the destructor does
wait(t) == pc[t] = "idle" /\ m_pid[t] # None /\ Release(t, m_pid[t], {})

terminate(t) == pc[t] = "idle" /\ m_pid[t] # None /\ Release(t, m_pid[t], {m_pid[t]})

\* ~Impl of the child that was replaced
Destroy(t) ==
    /\ pc[t] = "destroy"
    /\ checkRunning(t, target[t]) \/ Release(t, target[t], {target[t]})

WaitReturns(t) == pc[t] = "waitpid" /\ Reap(t, target[t]) /\ UNCHANGED open

\* waitpid fails with EINTR: the child is given up, in start() too.
WaitInterrupted(t) ==
    /\ pc[t] \in {"waitpid", "reap"}
    /\ MayFail
    /\ LET s == IF pc[t] = "reap" THEN Current(t) ELSE target[t]
       IN  /\ ~Zombie(s)
           /\ interrupted' = interrupted \union {s}
           /\ m_pid' = [m_pid EXCEPT ![t] = IF @ = s THEN None ELSE @]
    /\ target' = [target EXCEPT ![t] = None]
    /\ starts' = [starts EXCEPT ![t] = IF pc[t] = "reap" THEN @ + 1 ELSE @]
    /\ Goto(t, "idle")
    /\ UNCHANGED <<open, child, reported, signalled, forkFailed>>

Starting(t) ==
    CreatePipes(t) \/ PipeFails(t) \/ ForkFails(t) \/ Fork(t) \/ CloseChildEnds(t)
        \/ ReadEnd(t) \/ ReadError(t) \/ ReapFailed(t)

Interrupt(t) == ReadInterrupted(t) \/ WaitInterrupted(t)
Call(t) == Start(t) \/ CheckRunning(t) \/ wait(t) \/ terminate(t)
Return(t) == Starting(t) \/ Destroy(t) \/ WaitReturns(t)

Next ==
    \/ \E t \in Threads : Call(t) \/ Return(t) \/ Interrupt(t)
    \/ \E s \in Starts : Exec(s) \/ ExecFails(s) \/ Exit(s)

\* The scheduler runs every thread and child, and children end when they must.
Fairness ==
    /\ \A t \in Threads : WF_vars(Return(t))
    /\ \A s \in Starts : WF_vars(Exec(s) \/ ExecFails(s)) /\ WF_vars(MustExit(s) /\ Exit(s))

Spec == Init /\ [][Next]_vars /\ Fairness

-----------------------------------------------------------------------------
States == {"idle", "pipeIn", "pipeOut", "pipeErr", "fork", "close", "readError", "reap",
           "destroy", "waitpid"}

TypeOK ==
    /\ pc \in [Threads -> States]
    /\ starts \in [Threads -> Nat]
    /\ m_pid \in [Threads -> Starts \union {None}]
    /\ target \in [Threads -> Starts \union {None}]
    /\ open \in [Starts \union {Parent} -> SUBSET Ends]
    /\ child \in [Starts -> {"none", "forked", "running", "failed", "exited", "reaped"}]
    /\ reported \subseteq Starts /\ signalled \subseteq Starts
    /\ forkFailed \subseteq Starts /\ interrupted \subseteq Starts

\* What the constructor has open
InConstructor(t) ==
    LET s == Current(t)
    IN  CASE pc[t] = "pipeOut" -> Pipe(s, "in")
          [] pc[t] = "pipeErr" -> InOut(s)
          [] pc[t] \in {"fork", "close"} -> AllPipes(s)
          [] pc[t] = "readError" -> AllPipes(s) \ ChildEnds(s)
          [] OTHER -> {}

\* What an object has open: waiting closes the handles first.
InObject(t) ==
    (IF m_pid[t] = None \/ (pc[t] = "waitpid" /\ target[t] = m_pid[t])
     THEN {} ELSE Handles(m_pid[t]))
        \union (IF pc[t] = "destroy" THEN Handles(target[t]) ELSE {})

\* However starts fail and objects are released, the program keeps exactly the
\* descriptors of its objects and of the starts under way; only a failed fork leaks.
DescriptorsAreOwned ==
    open[Parent] = (UNION {InConstructor(t) \union InObject(t) : t \in Threads})
                        \union (UNION {Pipe(s, "err") : s \in forkFailed})

\* A child that no object and no call is concerned with any longer has been reaped,
\* unless a signal interrupted the wait for it.
Concerned(t) ==
    {m_pid[t], target[t]}
        \union (IF pc[t] \in {"close", "readError", "reap"} THEN {Current(t)} ELSE {})

NoZombieIsLeft ==
    \A s \in Starts \ UNION {Concerned(t) : t \in Threads} :
        child[s] \in {"none", "reaped"} \/ s \in interrupted

\* A start that returns has executed the program, unless a signal interrupted it.
StartedIsExecuted ==
    \A t \in Threads :
        m_pid[t] # None /\ m_pid[t] \notin interrupted =>
            child[m_pid[t]] \in {"running", "exited"}

\* A call waits for ever only when some other child has, from some time on, the end of
\* the pipe open whose closing it waits for: the error pipe of the start, inherited by a
\* child of another thread, or the input of a child that is waited for without a signal.
HeldUp(t) ==
    \/ /\ pc[t] = "readError"
       /\ \E c \in Starts : c[1] # t /\ End(Current(t), "err", "write") \in open[c]
    \/ /\ pc[t] = "waitpid" /\ target[t] \notin signalled
       /\ \E c \in Starts \ {target[t]} : End(target[t], "in", "write") \in open[c]

EveryCallReturns == \A t \in Threads : []<>(pc[t] = "idle") \/ <>[]HeldUp(t)
=============================================================================
