--------------------------- MODULE RequestExchange ---------------------------
(***************************************************************************)
(* What a peer may expect of lsp::MessageHandler for the requests it sends:*)
(* a request is owed one answer from the moment it is read; it is answered *)
(* at most once, with its own id, or given up when an exception escapes or *)
(* when its method's handler is one for notifications.  Nothing else is    *)
(* ever answered.                                                          *)
(***************************************************************************)
EXTENDS Naturals, Sequences

CONSTANT Requests

VARIABLES
    owed,      \* requests read and not yet settled
    sent,      \* ids of the answers written, oldest first
    givenUp    \* requests that will not be answered

vars == <<owed, sent, givenUp>>

Answered == {sent[i] : i \in DOMAIN sent}

Init ==
    /\ owed = {}
    /\ sent = <<>>
    /\ givenUp = {}

Receive ==
    /\ \E new \in SUBSET (Requests \ (owed \union givenUp \union Answered)) :
          owed' = owed \union new
    /\ UNCHANGED <<sent, givenUp>>

\* One answer, or those of a batch.
Answer ==
    /\ \E n \in 1 .. Len(sent') :
          LET ids == {sent'[i] : i \in Len(sent) + 1 .. Len(sent')}
          IN  /\ Len(sent') = Len(sent) + n
              /\ SubSeq(sent', 1, Len(sent)) = sent
              /\ \A i, j \in Len(sent) + 1 .. Len(sent') :
                    sent'[i] = sent'[j] => i = j
              /\ ids \subseteq owed
              /\ owed' = owed \ ids
    /\ UNCHANGED givenUp

GiveUp ==
    /\ \E lost \in SUBSET owed :
          /\ owed' = owed \ lost
          /\ givenUp' = givenUp \union lost
    /\ UNCHANGED sent

Next == Receive \/ Answer \/ GiveUp

Spec == Init /\ [][Next]_vars
=============================================================================
