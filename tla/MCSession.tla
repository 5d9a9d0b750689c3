----------------------------- MODULE MCSession -----------------------------
(* An instance of Session for TLC. *)
EXTENDS Session

TwoAddresses == <<"ipv6", "ipv4">>
=============================================================================
