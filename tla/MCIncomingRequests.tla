------------------------- MODULE MCIncomingRequests -------------------------
(* Instances of IncomingRequests for TLC. *)
EXTENDS IncomingRequests, TLC

Handler(style, async) == [style |-> style, async |-> async]
Form(kind, method) == [kind |-> kind, method |-> method]

\* Asynchronous handlers beside synchronous ones.
SomeMethods == {"hover", "rename", "custom", "exit"}
SomeHandlers == [m \in SomeMethods |->
    CASE m = "hover" -> Handler("request", TRUE)
      [] m = "rename" -> Handler("request", FALSE)
      [] m = "custom" -> Handler("generic", TRUE)
      [] m = "exit" -> Handler("notification", FALSE)]
NoOffers == [m \in SomeMethods |-> {}]
SomeForms ==
    {Form("request", "hover"), Form("request", "rename"), Form("request", "custom"),
     Form("notification", "custom"), Form("notification", "exit"),
     Form("response", "hover")}

\* A request handler that may give way to a handler of any kind, a generic one and
\* one for notifications, which may change between synchronous and asynchronous.
FewMethods == {"hover", "custom", "exit"}
FewHandlers == [m \in FewMethods |->
    CASE m = "hover" -> Handler("request", TRUE)
      [] m = "custom" -> Handler("generic", FALSE)
      [] m = "exit" -> Handler("notification", TRUE)]
FewOffers == [m \in FewMethods |->
    CASE m = "hover" -> Handlers
      [] m = "custom" -> {Handler("generic", TRUE)}
      [] m = "exit" -> {Handler("notification", FALSE)}]
FewForms ==
    {Form("request", "hover"), Form("request", "custom"), Form("notification", "custom"),
     Form("notification", "exit")}

\* What ExchangeKept is proved from.
ASSUME QuietPeerAssumption == QuietPeer

\* Sound for the safety runs: readers are interchangeable.
Symmetry == Permutations(Readers)
=============================================================================
