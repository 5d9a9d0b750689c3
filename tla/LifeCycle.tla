----------------------------- MODULE LifeCycle -----------------------------
(***************************************************************************)
(* The life of a language server as its client leads it through: what a    *)
(* session promises, whatever happens to the connection.                   *)
(***************************************************************************)
VARIABLES
    client,    \* the last of these messages the client has sent
    server     \* the state of the server

Init == client = "none" /\ server = "Uninitialized"

Sends(from, to) == client = from /\ client' = to /\ UNCHANGED server
Turns(from, to) == server = from /\ server' = to /\ UNCHANGED client

\* exit is sent when the server has been told to shut down and has done so, whether it is
\* still there or not.
ClientSteps ==
    \/ Sends("none", "initialize")
    \/ Sends("initialize", "shutdown")
    \/ server \in {"Shutdown", "Ended"} /\ Sends("shutdown", "exit")

ServerSteps ==
    \/ client # "none" /\ Turns("Uninitialized", "Active")
    \/ client \in {"shutdown", "exit"} /\ Turns("Active", "Shutdown")
    \/ client = "exit" /\ Turns("Shutdown", "Inactive")

\* The server ends by itself once it is inactive, or because the connection is lost.
Ends == server # "Ended" /\ server' = "Ended" /\ UNCHANGED client

Next == ClientSteps \/ ServerSteps \/ Ends

Spec == Init /\ [][Next]_<<client, server>>
=============================================================================
