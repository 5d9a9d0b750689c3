------------------------- MODULE MCOutgoingRequests -------------------------
(* Instance of OutgoingRequests for TLC: the constants are given in the cfg. *)
EXTENDS OutgoingRequests
=============================================================================
