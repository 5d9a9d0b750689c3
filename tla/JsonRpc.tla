------------------------------ MODULE JsonRpc ------------------------------
(***************************************************************************)
(* The JSON-RPC 2.0 codec, src/lsp/jsonrpc/jsonrpc.cpp: messages to JSON   *)
(* and back, with the checks made on what a peer sends.                    *)
(***************************************************************************)
EXTENDS JsonValues

CONSTANTS
    Messages,    \* messages sent, one by one
    Batches,     \* batches sent
    Received     \* JSON values that arrive from some other peer

-----------------------------------------------------------------------------
(* create... *)

createRequest(id, method, params) ==
    [type |-> "request", id |-> Some(id), method |-> method, params |-> params]
createNotification(method, params) ==
    [type |-> "request", id |-> Nothing, method |-> method, params |-> params]
createResponse(id, result) ==
    [type |-> "response", id |-> Some(id), result |-> Some(result), error |-> Nothing]
createErrorResponse(id, code, message, data) ==
    [type |-> "response", id |-> Some(id), result |-> Nothing,
     error |-> Some([code |-> code, message |-> message, data |-> data])]

-----------------------------------------------------------------------------
(* What the constants stand for *)

\* A MessageId; the integer of a json::Integer, counted in halves, is even.
IsId(id) ==
    /\ id = Value(id.kind, id.v)
    /\ id.kind \in {"string", "number", "null"}
    /\ id.kind = "number" => id.v \in Int /\ id.v % 2 = 0

MayBeSent(m) ==
    \/ /\ m.type = "request"
       /\ m = [type |-> "request", id |-> m.id, method |-> m.method, params |-> m.params]
       /\ m.id = Nothing \/ (m.id = Some(m.id[1]) /\ IsId(m.id[1]))
       /\ m.method.kind = "string"
       /\ \/ m.params = Nothing
          \/ m.params = Some(m.params[1]) /\ m.params[1].kind \in {"object", "array"}
    \/ /\ m.type = "response" /\ m.error = Nothing
       /\ m = createResponse(m.id[1], m.result[1])
       /\ IsId(m.id[1])
    \/ /\ m.type = "response" /\ m.error # Nothing
       /\ LET error == m.error[1] IN
            /\ m = createErrorResponse(m.id[1], error.code, error.message, error.data)
            /\ error.code \in Int
            /\ error.data = Nothing \/ error.data = Some(error.data[1])
       /\ IsId(m.id[1])

\* Messages are of the types of jsonrpc.h, with objects or arrays for params; a batch has
\* at least one message.
ASSUME MessagesAssumption == \A m \in Messages : MayBeSent(m)

ASSUME BatchesAssumption == Batches \subseteq Seq(Messages) \ {<<>>}

\* The v of an array is a sequence; of what else arrives nothing is assumed.
ASSUME ReceivedAssumption ==
    \A json \in Received :
        json.kind = "array" => json.v \in Seq({json.v[i] : i \in DOMAIN json.v})

-----------------------------------------------------------------------------
(* messageToJson *)

ProtocolVersion == String("2.0")
Versioned == Put(Object(<<>>), "jsonrpc", ProtocolVersion)

RequestToJson(m) ==
    PutSome(Put(PutSome(Versioned, "id", m.id), "method", m.method), "params", m.params)

\* The error's data goes to the response object, not to the error object.
ErrorToJson(json, error) ==
    LET fields == Put(Put(Object(<<>>), "code", Number(2 * error.code)),
                      "message", String(error.message))
    IN  Put(PutSome(json, "data", error.data), "error", fields)

ResponseToJson(m) ==
    LET json == PutSome(Put(Versioned, "id", m.id[1]), "result", m.result)
    IN  IF m.error = Nothing THEN json ELSE ErrorToJson(json, m.error[1])

messageToJson(m) == IF m.type = "request" THEN RequestToJson(m) ELSE ResponseToJson(m)

messageBatchToJson(b) == Array([i \in DOMAIN b |-> messageToJson(b[i])])

-----------------------------------------------------------------------------
(* messageFromJson *)

\* verifyProtocolVersion
ValidVersion(json) ==
    /\ "jsonrpc" \in Keys(json)
    /\ json.v["jsonrpc"].kind = "string"
    /\ json.v["jsonrpc"].v = "2.0"

ValidId(value) == value.kind \in {"string", "number", "null"}
messageIdFromJson(value) ==
    IF value.kind = "number" THEN Number(2 * Truncate(value.v)) ELSE value

\* The exceptions come in the order of the checks.
RequestFailure(json) ==
    CASE ~ValidVersion(json) -> "ProtocolError"
      [] json.v["method"].kind # "string" -> "TypeError"
      [] "id" \in Keys(json) /\ ~ValidId(json.v["id"]) -> "ProtocolError"
      [] "params" \in Keys(json)
            /\ json.v["params"].kind \notin {"object", "array", "null"} -> "ProtocolError"
      [] OTHER -> "none"

\* Null params are accepted and dropped.
ParamsOf(json) ==
    LET params == At(json, "params")
    IN  IF params # Nothing /\ params[1].kind = "null" THEN Nothing ELSE params

\* Mutant of IdOf: no id is the null id.
IdOrNull(json) ==
    IF "id" \in Keys(json) THEN Some(messageIdFromJson(json.v["id"])) ELSE Some(Null)

IdOf(json) ==
    IF "id" \in Keys(json) THEN Some(messageIdFromJson(json.v["id"])) ELSE Nothing

requestFromJson(json) ==
    LET failure == RequestFailure(json)
    IN  IF failure # "none" THEN Failure(failure)
        ELSE Ok([type |-> "request", id |-> IdOf(json), method |-> json.v["method"],
                 params |-> ParamsOf(json)])

ErrorFailure(error) ==
    CASE error.kind # "object" -> "TypeError"
      [] "code" \notin Keys(error) -> "ProtocolError"
      [] error.v["code"].kind # "number" -> "ProtocolError"
      [] "message" \notin Keys(error) -> "ProtocolError"
      [] error.v["message"].kind # "string" -> "ProtocolError"
      [] OTHER -> "none"

\* Mutant of OneOutcome: neither is accepted, too.
AtMostOneOutcome(json) == ~("result" \in Keys(json) /\ "error" \in Keys(json))

\* Exactly one of result and error.
OneOutcome(json) == ("result" \in Keys(json)) # ("error" \in Keys(json))

ResponseFailure(json) ==
    CASE ~ValidVersion(json) -> "ProtocolError"
      [] "id" \in Keys(json) /\ ~ValidId(json.v["id"]) -> "ProtocolError"
      [] "error" \in Keys(json) /\ ErrorFailure(json.v["error"]) # "none"
            -> ErrorFailure(json.v["error"])
      [] ~OneOutcome(json) -> "ProtocolError"
      [] OTHER -> "none"

ErrorOf(json) ==
    IF "error" \notin Keys(json) THEN Nothing
    ELSE LET error == json.v["error"]
         IN  Some([code |-> Truncate(error.v["code"].v),
                   message |-> error.v["message"].v,
                   data |-> At(error, "data")])

\* A response without an id gets the null id of a default MessageId.
responseFromJson(json) ==
    LET failure == ResponseFailure(json)
    IN  IF failure # "none" THEN Failure(failure)
        ELSE Ok([type |-> "response",
                 id |-> IF IdOf(json) = Nothing THEN Some(Null) ELSE IdOf(json),
                 result |-> At(json, "result"), error |-> ErrorOf(json)])

messageFromJson(json) ==
    IF "method" \in Keys(json) THEN requestFromJson(json) ELSE responseFromJson(json)

ElementFromJson(json) ==
    IF json.kind # "object" THEN Failure("TypeError") ELSE messageFromJson(json)

\* The first bad element decides the exception; the others are not delivered.
messageBatchFromJson(json) ==
    LET decoded == [i \in DOMAIN json.v |-> ElementFromJson(json.v[i])]
        bad == {i \in DOMAIN decoded : ~decoded[i].ok}
    IN  IF json.v = <<>> THEN Failure("ProtocolError")
        ELSE IF bad = {} THEN Ok([i \in DOMAIN decoded |-> decoded[i].value])
        ELSE decoded[CHOOSE i \in bad : \A j \in bad : i <= j]

-----------------------------------------------------------------------------
(* A message or a batch is sent, or JSON of another peer arrives; it is decoded. *)

VARIABLES
    stage,   \* "send", "wire" or "read"
    sent,    \* what was sent, if it was one of ours
    wire,    \* the JSON on its way
    got      \* what the receiver made of it

rpcVars == <<stage, sent, wire, got>>

RpcInit ==
    /\ stage = "send"
    /\ sent = Nothing
    /\ wire = Null
    /\ got = Failure("none")

SendMessage ==
    /\ stage = "send"
    /\ \E m \in Messages : sent' = Some(m) /\ wire' = messageToJson(m)
    /\ stage' = "wire"
    /\ UNCHANGED got

SendBatch ==
    /\ stage = "send"
    /\ \E b \in Batches : sent' = Some(b) /\ wire' = messageBatchToJson(b)
    /\ stage' = "wire"
    /\ UNCHANGED got

Arrive ==
    /\ stage = "send"
    /\ wire' \in Received
    /\ stage' = "wire"
    /\ UNCHANGED <<sent, got>>

\* The dispatch of Connection::readMessage on the kind of the value.
FromJson(json) ==
    CASE json.kind = "object" -> messageFromJson(json)
      [] json.kind = "array" -> messageBatchFromJson(json)
      [] OTHER -> Failure("ProtocolError")

Read ==
    /\ stage = "wire"
    /\ got' = FromJson(wire)
    /\ stage' = "read"
    /\ UNCHANGED <<sent, wire>>

RpcNext == SendMessage \/ SendBatch \/ Arrive \/ Read

RpcSpec == RpcInit /\ [][RpcNext]_rpcVars

-----------------------------------------------------------------------------
(* JSON-RPC 2.0, as a definition of what is a message and nothing more. *)

Has(json, key, kinds) == key \in Keys(json) /\ json.v[key].kind \in kinds
MayHave(json, key, kinds) == key \in Keys(json) => json.v[key].kind \in kinds

IsRequest(json) ==
    /\ Has(json, "method", {"string"})
    /\ MayHave(json, "params", {"object", "array", "null"})

IsResponse(json) ==
    /\ "method" \notin Keys(json)
    /\ \/ "result" \in Keys(json) /\ "error" \notin Keys(json)
       \/ /\ "result" \notin Keys(json)
          /\ Has(json, "error", {"object"})
          /\ Has(json.v["error"], "code", {"number"})
          /\ Has(json.v["error"], "message", {"string"})

IsMessage(json) ==
    /\ json.kind = "object"
    /\ Has(json, "jsonrpc", {"string"}) /\ json.v["jsonrpc"].v = "2.0"
    /\ MayHave(json, "id", {"string", "number", "null"})
    /\ IsRequest(json) \/ IsResponse(json)

\* Exactly the messages of the protocol are accepted; a batch is accepted when it
\* is not empty and every element is a message, and else nothing of it is.
AcceptsTheProtocol ==
    stage = "read" =>
        (got.ok <=> \/ IsMessage(wire)
                    \/ /\ wire.kind = "array" /\ wire.v # <<>>
                       /\ \A i \in DOMAIN wire.v : IsMessage(wire.v[i]))

\* What one handler sends, the other one receives: a notification stays one, an
\* id keeps its type, a batch its order.  The data of errors is left out here.
WithoutData(m) ==
    IF m.type = "response" /\ m.error # Nothing
    THEN [m EXCEPT !.error = Some([m.error[1] EXCEPT !.data = Nothing])]
    ELSE m

RoundTrip ==
    stage = "read" /\ sent # Nothing =>
        /\ got.ok
        /\ IF wire.kind = "object"
           THEN WithoutData(got.value) = WithoutData(sent[1])
           ELSE [i \in DOMAIN got.value |-> WithoutData(got.value[i])]
                    = [i \in DOMAIN sent[1] |-> WithoutData(sent[1][i])]

=============================================================================
