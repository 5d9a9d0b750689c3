--------------------------- MODULE TypedMessages ---------------------------
(***************************************************************************)
(* Messages with typed content: what the typed interface of                *)
(* src/lsp/messagehandler.inl converts to JSON is sent as the params of a  *)
(* request or notification or as the result of a response, and converted   *)
(* back on the other side.  Any other peer may answer with any JSON.       *)
(***************************************************************************)
EXTENDS JsonRpc, Conversion

CONSTANTS
    Types,        \* types of the meta model
    Typed,        \* those of them -> C++ values that are sent
    Foreign       \* those of them -> JSON that another peer sends for one

VARIABLES
    type,         \* the type of the content
    typed,        \* the value that was sent, if it was one of ours
    converted     \* what the receiver made of it

typedVars == <<type, typed, converted>>

TypedInit == RpcInit /\ type = BaseType("null") /\ typed = Nothing /\ converted = Failure("none")

MessageWith(content) ==
    {createRequest(Number(2), String("m"), Some(content)),
     createNotification(String("m"), Some(content)), createResponse(Number(2), content)}

\* sendRequest, sendNotification, and the responses of the wrappers made by add.  Params
\* are objects or arrays.
SendTyped ==
    /\ stage = "send"
    /\ \E t \in Types : \E x \in Typed[t] :
        LET content == toJson(cppTypeName(t), x)
        IN  \E m \in MessageWith(content) :
                /\ m.type = "request" => content.kind \in {"object", "array"}
                /\ sent' = Some(m)
                /\ wire' = messageToJson(m)
                /\ type' = t
                /\ typed' = Some(x)
    /\ stage' = "wire"
    /\ UNCHANGED <<got, converted>>

ArriveTyped ==
    /\ stage = "send"
    /\ \E t \in Types : \E json \in Foreign[t] :
        /\ wire' = messageToJson(createResponse(Number(2), json))
        /\ type' = t
    /\ stage' = "wire"
    /\ UNCHANGED <<sent, got, typed, converted>>

\* The wrapper of a handler converts params, setValueFromJson a result.
Content(m) == IF m.type = "request" THEN m.params[1] ELSE m.result[1]

Convert ==
    /\ stage = "read" /\ got.ok /\ type \in Types
    /\ converted' = fromJson(cppTypeName(type), Content(got.value))
    /\ stage' = "converted"
    /\ UNCHANGED <<sent, wire, got, type, typed>>

TypedNext == (RpcNext /\ UNCHANGED typedVars) \/ SendTyped \/ ArriveTyped \/ Convert

TypedSpec == TypedInit /\ [][TypedNext]_<<rpcVars, typedVars>>

-----------------------------------------------------------------------------
(* Which JSON is of a type of the meta model: a definition that has no first       *)
(* element and no first alternative.                                               *)

\* The members of a structure with all that it extends and mixes in; its own replace
\* inherited ones.
RECURSIVE AllProperties(_)
AllProperties(s) ==
    LET above == UNION {AllProperties(Structures[name]) : name \in Range(s.extends \o s.mixins)}
    IN  Range(s.properties) \union {p \in above : p.name \notin Names(s.properties)}

KindOf ==
    [boolean |-> "boolean", string |-> "string", integer |-> "number", uinteger |-> "number",
     decimal |-> "number", URI |-> "string", DocumentUri |-> "string", RegExp |-> "string",
     null |-> "null"]

\* strict: as the protocol has it.  Otherwise members may be there that the structure
\* does not have, optional ones may be null, enumerations may have other values and maps
\* keys that are no URIs.
RECURSIVE Conforms(_, _, _)

ConformingMembers(properties, json, strict) ==
    /\ json.kind = "object"
    /\ strict => Keys(json) \subseteq {p.name : p \in properties}
    /\ \A p \in properties :
        IF p.name \in Keys(json)
        THEN \/ Conforms(p.type, json.v[p.name], strict)
             \/ ~strict /\ p.isOptional /\ json.v[p.name].kind = "null"
        ELSE p.isOptional

Conforms(t, json, strict) ==
    CASE t.kind = "base" -> json.kind = KindOf[t.of]
      [] t.kind = "stringLiteral" -> json.kind = "string" /\ json.v = t.of
      [] t.kind = "array" ->
            json.kind = "array" /\ \A i \in DOMAIN json.v : Conforms(t.of, json.v[i], strict)
      [] t.kind = "map" ->
            /\ json.kind = "object"
            /\ \A k \in Keys(json) :
                IF t.of[1] = BaseType("string") \/ k \in UriTexts
                THEN Conforms(t.of[2], json.v[k], strict) ELSE ~strict
      [] t.kind = "tuple" ->
            /\ json.kind = "array" /\ Len(json.v) = Len(t.of)
            /\ \A i \in DOMAIN t.of : Conforms(t.of[i], json.v[i], strict)
      [] t.kind = "or" -> \E i \in DOMAIN t.of : Conforms(t.of[i], json, strict)
      [] t.kind = "literal" -> ConformingMembers(Range(t.of.properties), json, strict)
      [] t.of = "LSPAny" -> TRUE
      [] t.of \in DOMAIN TypeAliases -> Conforms(TypeAliases[t.of], json, strict)
      [] t.of \in DOMAIN Enumerations ->
            /\ Conforms(Enumerations[t.of].type, json, strict)
            /\ strict => json.v \in Range(Enumerations[t.of].values)
      [] OTHER -> ConformingMembers(AllProperties(Structures[t.of]), json, strict)

\* A handler or a callback never gets a value made of JSON that is not of its type.
ConvertedConforms ==
    stage = "converted" /\ converted.ok => Conforms(type, Content(got.value), FALSE)

\* JSON of a type is never refused.  Of an "or" this needs alternatives that can be told
\* apart by the members they require and by literals: Types is to have no others.
ConformingIsConverted ==
    stage = "converted" /\ Conforms(type, Content(got.value), TRUE) => converted.ok

\* A typed value arrives as it was sent.
TypedRoundTrip == stage = "converted" /\ typed # Nothing => converted = Ok(typed[1])
=============================================================================
