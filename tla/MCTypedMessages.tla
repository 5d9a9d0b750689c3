-------------------------- MODULE MCTypedMessages --------------------------
(* Instances of TypedMessages for TLC, with types of src/lspgen/metaModel.json. *)
EXTENDS TypedMessages

\* What the handlers of this framework send.
SomeIds == {String("a"), Number(2), Null}
SomeParams == {Nothing, Some(Object(<<>>)), Some(Array(<<Number(1)>>))}
SomeMessages ==
    {createRequest(id, String("m"), p) : id \in SomeIds, p \in SomeParams}
        \union {createNotification(String("m"), p) : p \in SomeParams}
        \union {createResponse(id, r) : id \in SomeIds, r \in {Null, Number(3)}}
        \union {createErrorResponse(id, -32603, "text", d) :
                    id \in SomeIds, d \in {Nothing, Some(Number(2))}}

SomeBatches == UNION {[1 .. n -> SomeMessages] : n \in 1 .. 2}

\* What may arrive: every choice of members, sound and unsound ones.
MemberChoices == [
    jsonrpc : {Nothing, Some(String("2.0")), Some(String("1.0")), Some(Number(4))},
    id : {Nothing, Some(String("a")), Some(Number(3)), Some(Object(<<>>))},
    method : {Nothing, Some(String("m")), Some(Number(2))},
    params : {Nothing, Some(Null), Some(Array(<<>>)), Some(Number(2))},
    result : {Nothing, Some(Null)},
    error : {Nothing, Some(Null),
             Some(Object([message |-> String("text")])),
             Some(Object([code |-> String("x"), message |-> String("text")])),
             Some(Object([code |-> Number(5)])),
             Some(Object([code |-> Number(5), message |-> Number(2)])),
             Some(Object([code |-> Number(5), message |-> String("text"),
                          data |-> Null]))}]

Chosen(c) ==
    Object([k \in {key \in DOMAIN c : c[key] # Nothing} |-> c[k][1]])

Singles == {Chosen(c) : c \in MemberChoices}
FewSingles == {Chosen(c) : c \in {d \in MemberChoices :
    d.jsonrpc # Nothing /\ d.id = Nothing /\ d.params = Nothing /\ d.result = Nothing}}
SomeReceived ==
    Singles \union {Null, Number(2), Array(<<>>), Array(<<Null>>)}
        \union {Array(<<a, b>>) : a \in FewSingles, b \in FewSingles}

-----------------------------------------------------------------------------
(* Types, most of them shortened *)

Str == BaseType("string")
Uint == BaseType("uinteger")
Ref(name) == ReferenceType(name)
NullType == BaseType("null")
Req(name, t) == Property(name, t, FALSE)
Opt(name, t) == Property(name, t, TRUE)
Struct(properties) == [extends |-> <<>>, mixins |-> <<>>, properties |-> properties]
Derived(bases, mixins, properties) ==
    [extends |-> bases, mixins |-> mixins, properties |-> properties]

SomeStructures == [
    Position |-> Struct(<<Req("line", Uint), Req("character", BaseType("integer"))>>),
    Location |-> Struct(<<Req("uri", BaseType("DocumentUri")), Req("range", Uint)>>),
    LocationLink |-> Struct(<<Req("targetUri", BaseType("URI")), Req("targetRange", Uint)>>),
    LocationUriOnly |-> Struct(<<Req("uri", BaseType("DocumentUri"))>>),
    SelectionRange |-> Struct(<<Opt("parent", Ref("SelectionRange")), Req("range", Uint)>>),
    ResourceOperation |-> Struct(<<Req("kind", Str), Opt("annotationId", Str)>>),
    CreateFile |-> Derived(<<"ResourceOperation">>, <<>>,
        <<Req("kind", StringLiteralType("create")), Req("uri", BaseType("DocumentUri"))>>),
    DeleteFile |-> Derived(<<"ResourceOperation">>, <<>>,
        <<Req("kind", StringLiteralType("delete")), Req("uri", BaseType("DocumentUri"))>>),
    TextEdit |-> Struct(<<Req("newText", Str)>>),
    AnnotatedTextEdit |-> Derived(<<"TextEdit">>, <<>>, <<Req("annotationId", Str)>>),
    WorkspaceEdit |-> Struct(<<
        Opt("changes", MapType(BaseType("DocumentUri"), ArrayType(Ref("TextEdit")))),
        Opt("documentChanges", ArrayType(OrType(<<Ref("CreateFile"), Ref("DeleteFile")>>)))>>),
    Diagnostic |-> Struct(<<
        Opt("severity", Ref("DiagnosticSeverity")),
        Opt("code", OrType(<<BaseType("integer"), Str>>)),
        Opt("data", Ref("LSPAny"))>>),
    MarkupContent |-> Struct(<<Req("kind", Ref("MarkupKind")), Req("value", Str)>>),
    MarkedStringWithLanguage |-> Struct(<<Req("language", Str), Req("value", Str)>>),
    WorkDoneProgressOptions |-> Struct(<<Opt("workDoneProgress", BaseType("boolean"))>>),
    HoverOptions |-> Derived(<<>>, <<"WorkDoneProgressOptions">>, <<>>),
    TextDocumentRegistrationOptions |-> Struct(<<
        Req("documentSelector", OrType(<<ArrayType(Str), NullType>>))>>),
    HoverRegistrationOptions |-> Derived(
        <<"TextDocumentRegistrationOptions", "HoverOptions">>, <<>>, <<>>),
    FullReport |-> Struct(<<Req("kind", StringLiteralType("full")), Opt("resultId", Str)>>),
    ReportOptions |-> Struct(<<Opt("kind", StringLiteralType("full"))>>),
    Command |-> Struct(<<Req("title", Str), Req("command", Str)>>),
    CodeAction |-> Struct(<<Req("title", Str), Opt("command", Ref("Command"))>>),
    WorkspaceFolder |-> Struct(<<Req("uri", BaseType("URI")), Req("name", Str)>>),
    RelativePattern |-> Struct(<<
        Req("baseUri", OrType(<<Ref("WorkspaceFolder"), BaseType("URI")>>))>>)]

SomeTypeAliases == [
    Definition |-> OrType(<<Ref("Location"), ArrayType(Ref("Location"))>>),
    MarkedString |-> OrType(<<Str, Ref("MarkedStringWithLanguage")>>)]

SomeEnumerations == [
    DiagnosticSeverity |-> [type |-> Uint, values |-> <<1, 2>>],
    MarkupKind |-> [type |-> Str, values |-> <<"plaintext", "markdown">>]]

SomeTypes == {
    Ref("SelectionRange"), Ref("WorkspaceEdit"), Ref("Diagnostic"),
    Ref("HoverRegistrationOptions"), Ref("FullReport"), Ref("ReportOptions"),
    OrType(<<Ref("Definition"), ArrayType(Ref("LocationLink")), NullType>>),
    OrType(<<Ref("MarkupContent"), Ref("MarkedString"), ArrayType(Ref("MarkedString"))>>),
    OrType(<<Str, TupleType(<<Uint, BaseType("decimal")>>)>>),
    OrType(<<Ref("Position"), NullType>>),
    OrType(<<StructureLiteralType(<<Req("a", Uint)>>),
             StructureLiteralType(<<Opt("a", Uint)>>), BaseType("boolean")>>)}

-----------------------------------------------------------------------------
(* Samples.  n bounds the depth of members of a structure's own type. *)

Wrong == {Null, Boolean(TRUE), Number(3), Number(-40), String("x"), Array(<<>>),
          Object(<<>>), Array(<<Number(2)>>), Array(<<Number(2), Number(4)>>),
          Array(<<String("x"), Number(4)>>),
          Array(<<Number(2), Number(3), Number(2)>>)}

PropertiesOf(t) ==
    IF t.kind = "literal" THEN Range(t.of.properties) ELSE AllProperties(Structures[t.of])
IsStructure(t) == t.kind = "literal" \/ (t.kind = "reference" /\ t.of \in DOMAIN Structures)

\* A few JSON values of a type
RECURSIVE Few(_, _)
SomeOf(t, n) == CHOOSE x \in Few(t, n) : TRUE
Minimal(t, n) ==
    LET required == {p \in PropertiesOf(t) : ~p.isOptional}
        Of(name) == (CHOOSE p \in required : p.name = name).type
    IN  Object([name \in {p.name : p \in required} |-> SomeOf(Of(name), n)])
Few(t, n) ==
    CASE t.kind = "base" ->
            (CASE t.of = "null" -> {Null}
               [] t.of = "boolean" -> {Boolean(TRUE)}
               [] t.of \in {"URI", "DocumentUri"} -> {String("file:///a")}
               [] t.of = "string" -> {String("x"), String("y")}
               [] t.of = "integer" -> {Number(-4), Number(2)}
               [] OTHER -> {Number(2)})
      [] t.kind = "stringLiteral" -> {String(t.of)}
      [] t.kind = "array" -> {Array(<<>>)} \union {Array(<<x>>) : x \in Few(t.of, n)}
      [] t.kind = "map" -> {Object([k \in {"file:///a"} |-> x]) : x \in Few(t.of[2], n)}
      [] t.kind = "tuple" -> {Array([i \in DOMAIN t.of |-> SomeOf(t.of[i], n)])}
      [] t.kind = "or" -> UNION {Few(t.of[i], n) : i \in DOMAIN t.of}
      [] IsStructure(t) ->
            {Minimal(t, n)} \union
            IF n = 0 THEN {}
            ELSE UNION {{Put(Minimal(t, n), p.name, x) : x \in Few(p.type, n - 1)} :
                            p \in PropertiesOf(t)}
      [] t.of = "LSPAny" -> {Number(1), Array(<<Null>>)}
      [] t.of \in DOMAIN TypeAliases -> Few(TypeAliases[t.of], n)
      [] OTHER -> {Value(KindOf[Enumerations[t.of].type.of],
                     IF Enumerations[t.of].type = Str THEN v ELSE 2 * v) :
                       v \in Range(Enumerations[t.of].values)}

\* Many, with at most one thing about them that is wrong
RECURSIVE Many(_, _)
Without(json, name) == Object([k \in Keys(json) \ {name} |-> json.v[k]])
Many(t, n) ==
    Few(t, n) \union Wrong \union
    CASE t.kind = "array" ->
            {Array(<<x>>) : x \in Many(t.of, n)}
                \union {Array(<<x, y>>) : x \in Few(t.of, n), y \in Many(t.of, n)}
      [] t.kind = "map" ->
            {Object([k \in {"file:///a", "no"} \ without |-> x]) :
                x \in Many(t.of[2], n), without \in SUBSET {"file:///a", "no"}}
      [] t.kind = "tuple" ->
            {Array([i \in DOMAIN t.of |-> IF i = j THEN x ELSE SomeOf(t.of[i], n)]) :
                x \in Wrong, j \in DOMAIN t.of}
      [] t.kind = "or" -> UNION {Many(t.of[i], n) : i \in DOMAIN t.of}
      [] IsStructure(t) ->
            {Put(Minimal(t, n), "unknown", Null)}
            \union {Without(Minimal(t, n), p.name) : p \in PropertiesOf(t)}
            \union IF n = 0 THEN {}
                   ELSE UNION {{Put(Minimal(t, n), p.name, x) : x \in Many(p.type, n - 1)} :
                                   p \in PropertiesOf(t)}
      [] t.kind = "reference" /\ t.of \in DOMAIN TypeAliases -> Many(TypeAliases[t.of], n)
      [] OTHER -> {}

\* C++ values of a type
RECURSIVE Values(_, _)
FewValues(p, n) ==
    IF p.isOptional THEN {Nothing} ELSE {CHOOSE x \in Values(cppTypeName(p.type), n) : TRUE}
PropertyValues(p, n) ==
    CASE p.isOptional /\ IsLiteral(p) -> {Some(p.type.of)}
      [] p.isOptional -> {Nothing} \union IF n = 0 THEN {}
                                         ELSE {Some(x) : x \in Values(cppTypeName(p.type), n - 1)}
      [] OTHER -> Values(cppTypeName(p.type), n)

\* The literals have their values.
InitialOf(s, p) ==
    LET literal == {q \in CheckedLiterals(s) : q.name = p.name}
    IN  IF literal = {} THEN FewValues(p, 0)
        ELSE {IF p.isOptional THEN Some(q.type.of) ELSE q.type.of : q \in literal}
StructValues(s, n) ==
    LET Member(name) == CHOOSE p \in Range(Members(s)) : p.name = name
        initial == [name \in Names(Members(s)) |->
                        CHOOSE x \in InitialOf(s, Member(name)) : TRUE]
        free == Names(Members(s)) \ {p.name : p \in CheckedLiterals(s)}
    IN  {initial} \union
            UNION {{[initial EXCEPT ![name] = x] : x \in PropertyValues(Member(name), n)} :
                        name \in free}
Values(t, n) ==
    CASE t.kind = "Null" -> {<<>>}
      [] t.kind = "bool" -> {TRUE}
      [] t.kind = "int" -> {-MaxInteger - 1, 0}
      [] t.kind = "uint" -> {1, 2 * MaxInteger + 1}
      [] t.kind = "double" -> {3}
      [] t.kind = "String" -> {"x", "y"}
      [] t.kind = "Uri" -> {"", "file:///a"}
      [] t.kind = "LSPAny" -> {Number(1), Array(<<Null>>)}
      [] t.kind = "NullOr" -> {Nothing} \union {Some(x) : x \in Values(t.of, n)}
      [] t.kind = "Array" ->
            {<<>>} \union {<<x>> : x \in Values(t.of, n)}
                \union {<<x, y>> : x \in Values(t.of, n), y \in Values(t.of, n)}
      [] t.kind = "Map" ->
            {<<>>} \union {[k \in {"file:///a"} |-> x] : x \in Values(t.of[2], n)}
      [] t.kind = "Tuple" -> {[i \in DOMAIN t.of |-> CHOOSE x \in Values(t.of[i], n) : TRUE]}
      [] t.kind = "Enumeration" ->
            {<<i, <<>> >> : i \in DOMAIN t.of.values}
                \union {<<0, IF t.of.type.kind = "String" THEN "other" ELSE 5>>}
      [] t.kind = "OneOf" ->
            UNION {{<<i, x>> : x \in Values(t.of[i], n)} : i \in DOMAIN t.of}
      [] t.kind = "struct" -> StructValues(t.of, n)

\* An empty array is of the first kind of array among the alternatives.
Ambiguous(t, x) ==
    t.kind = "or" /\ Len(t.of) = 3 /\ t.of[1] = Ref("Definition") /\ x = Some(<<2, <<>> >>)
Depth == 2
SomeTyped == [t \in SomeTypes |-> {x \in Values(cppTypeName(t), Depth) : ~Ambiguous(t, x)}]
SomeForeign == [t \in SomeTypes |-> Many(t, Depth)]

-----------------------------------------------------------------------------
(* The result of textDocument/codeAction *)

CodeActions == OrType(<<ArrayType(OrType(<<Ref("Command"), Ref("CodeAction")>>)), NullType>>)
OtherTypes == {CodeActions}
NoMessages == {}
OtherTyped == [t \in OtherTypes |-> Values(cppTypeName(t), Depth)]
OtherForeign == [t \in OtherTypes |-> Few(t, Depth)]
=============================================================================
