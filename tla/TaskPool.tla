------------------------------ MODULE TaskPool ------------------------------
(***************************************************************************)
(* What lsp::ThreadPool promises its users, whatever its threads do:       *)
(* tasks start in the order they were accepted, each runs once and leaves  *)
(* one outcome in its promise, and waitUntilFinished() closes the pool to  *)
(* new tasks until every accepted one is done.                             *)
(***************************************************************************)
EXTENDS Sequences

CONSTANT Tasks

Outcomes == {"value", "exception"}

VARIABLES
    queue,      \* accepted tasks that have not started, oldest first
    running,    \* tasks being executed
    outcome,    \* what the task's std::promise holds
    draining    \* between the two critical sections of waitUntilFinished()

vars == <<queue, running, outcome, draining>>

Fresh(t) ==
    /\ \A i \in DOMAIN queue : queue[i] # t
    /\ t \notin running
    /\ outcome[t] = "none"

Init ==
    /\ queue = <<>>
    /\ running = {}
    /\ outcome = [t \in Tasks |-> "none"]
    /\ draining = FALSE

Accept(t) ==
    /\ ~draining
    /\ Fresh(t)
    /\ queue' = Append(queue, t)
    /\ UNCHANGED <<running, outcome, draining>>

Start ==
    /\ queue # <<>>
    /\ running' = running \union {Head(queue)}
    /\ queue' = Tail(queue)
    /\ UNCHANGED <<outcome, draining>>

Finish(t) ==
    /\ t \in running
    /\ \E o \in Outcomes : outcome' = [outcome EXCEPT ![t] = o]
    /\ running' = running \ {t}
    /\ UNCHANGED <<queue, draining>>

BeginDrain ==
    /\ ~draining
    /\ draining' = TRUE
    /\ UNCHANGED <<queue, running, outcome>>

EndDrain ==
    /\ draining
    /\ queue = <<>> /\ running = {}
    /\ draining' = FALSE
    /\ UNCHANGED <<queue, running, outcome>>

Next ==
    \/ \E t \in Tasks : Accept(t) \/ Finish(t)
    \/ Start
    \/ BeginDrain
    \/ EndDrain

Spec == Init /\ [][Next]_vars
=============================================================================
