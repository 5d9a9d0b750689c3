----------------------------- MODULE Conversion -----------------------------
(***************************************************************************)
(* src/lsp/serialization.h, nullable.h and enumeration.h: values of the    *)
(* C++ types to JSON and back.                                             *)
(*                                                                         *)
(* Booleans, numbers, strings, URIs and LSPAny are their JSON payload; an  *)
(* optional or Nullable is <<>> or <<value>>, a variant <<index, value>>,  *)
(* an Enumeration <<index, value>> with the value of a custom one only.    *)
(***************************************************************************)
EXTENDS Lspgen

CONSTANTS
    MaxInteger,    \* largest json::Integer
    UriTexts       \* the texts that Uri::parse takes and toString returns

ASSUME MaxIntegerAssumption == MaxInteger \in Nat

NumberTypes == {"int", "uint", "double"}

-----------------------------------------------------------------------------
(* canDeserializeTypeFromJson *)

RECURSIVE canDeserialize(_, _)

hasLiteralProperties(s, json) ==
    \A p \in literalProperties(s) :
        p.name \in Keys(json) =>
            json.v[p.name].kind = "string" /\ json.v[p.name].v = p.type.of

\* Mutant of canDeserializeStruct: any object will do.
canDeserializeObject(s, json) == json.kind = "object" /\ hasLiteralProperties(s, json)

canDeserializeStruct(s, json) ==
    /\ json.kind = "object"
    /\ hasLiteralProperties(s, json)
    /\ requiredProperties(s) \subseteq Keys(json)

\* The right number of elements, one of which fits.
canDeserializeTuple(types, json) ==
    /\ json.kind = "array"
    /\ Len(json.v) = Len(types)
    /\ \E i \in DOMAIN types : canDeserialize(types[i], json.v[i])

\* Only the first element of an array is looked at.  What has no case of its own, like
\* a Uri or an LSPAny, is taken for a structure without properties.
canDeserialize(t, json) ==
    CASE t.kind = "Null" -> json.kind = "null"
      [] t.kind = "bool" -> json.kind = "boolean"
      [] t.kind \in NumberTypes -> json.kind = "number"
      [] t.kind = "String" -> json.kind = "string"
      [] t.kind = "NullOr" -> json.kind = "null" \/ canDeserialize(t.of, json)
      [] t.kind = "Array" ->
            json.kind = "array" /\ (json.v = <<>> \/ canDeserialize(t.of, json.v[1]))
      [] t.kind = "Tuple" -> canDeserializeTuple(t.of, json)
      [] t.kind = "Enumeration" -> canDeserialize(t.of.type, json)
      [] t.kind = "OneOf" -> \E i \in DOMAIN t.of : canDeserialize(t.of[i], json)
      [] t.kind = "struct" -> canDeserializeStruct(t.of, json)
      [] OTHER -> json.kind = "object"

-----------------------------------------------------------------------------
(* fromJson *)

TypeError == Failure("TypeError")

\* A function of results is the result of a function, if there is no exception.
AllOk(results) ==
    IF \A x \in DOMAIN results : results[x].ok
    THEN Ok([x \in DOMAIN results |-> results[x].value])
    ELSE TypeError

\* A number that an int cannot hold makes the cast undefined: Unspecified stands for
\* the number the build makes of it, and is a value that nothing else has.
Unspecified == -MaxInteger - 2
InRange(type, n) ==
    IF type = "uint" THEN n \in 0 .. 2 * MaxInteger + 1 ELSE n \in -MaxInteger - 1 .. MaxInteger
numberFromJson(type, halves) ==
    IF type = "double" THEN halves
    ELSE IF InRange(type, Truncate(halves)) THEN Truncate(halves) ELSE Unspecified

\* A text that is no URI gives the empty one.
parseUri(text) == IF text \in UriTexts THEN text ELSE ""

\* Mutant of enumerationFromValue: the last value is left out.
enumerationFromOthers(values, v) ==
    LET at == {i \in DOMAIN values : i < Len(values) /\ values[i] = v}
    IN  IF at = {} THEN <<0, v>> ELSE <<Min(at), <<>> >>

\* Enumeration::operator=: the first value that is equal, or a custom value.
enumerationFromValue(values, v) ==
    LET at == {i \in DOMAIN values : values[i] = v}
    IN  IF at = {} THEN <<0, v>> ELSE <<Min(at), <<>> >>

RECURSIVE fromJson(_, _)

\* Null is accepted for an optional, which holds it if its type can.
optionalFromJson(t, json) ==
    IF json.kind = "null" /\ ~canDeserialize(t, json) THEN Ok(Nothing)
    ELSE AllOk(Some(fromJson(t, json)))

\* Mutant of memberFromJson: find() instead of get().
memberFromJsonIfThere(p, json) ==
    IF p.name \notin Keys(json) THEN Ok(IF IsLiteral(p) THEN Some(p.type.of) ELSE Nothing)
    ELSE IF p.isOptional THEN optionalFromJson(cppTypeName(p.type), json.v[p.name])
    ELSE fromJson(cppTypeName(p.type), json.v[p.name])

\* A member that is left out keeps its initial value.
memberFromJson(p, json) ==
    IF p.name \notin Keys(json)
    THEN IF ~p.isOptional THEN TypeError
         ELSE Ok(IF IsLiteral(p) THEN Some(p.type.of) ELSE Nothing)
    ELSE IF p.isOptional THEN optionalFromJson(cppTypeName(p.type), json.v[p.name])
    ELSE fromJson(cppTypeName(p.type), json.v[p.name])

structFromJson(s, json) ==
    LET Member(name) == CHOOSE p \in Range(Members(s)) : p.name = name
        members == AllOk([name \in Names(Members(s)) |-> memberFromJson(Member(name), json)])
        Expected(p) == IF Member(p.name).isOptional THEN Some(p.type.of) ELSE p.type.of
    IN  IF /\ json.kind = "object" /\ members.ok
           /\ \A p \in CheckedLiterals(s) : members.value[p.name] = Expected(p)
        THEN members ELSE TypeError

\* deserializableVariantIndex: the first alternative that seems to fit.
variantFromJson(types, json) ==
    LET fit == {i \in DOMAIN types : canDeserialize(types[i], json)}
    IN  IF fit = {} THEN TypeError
        ELSE AllOk(<<Ok(Min(fit)), fromJson(types[Min(fit)], json)>>)

\* Keys that are no URIs are skipped, if the keys are URIs.
mapFromJson(key, t, json) ==
    LET keys == IF key.kind = "Uri" THEN Keys(json) \intersect UriTexts ELSE Keys(json)
    IN  AllOk([k \in keys |-> fromJson(t, json.v[k])])

tupleFromJson(types, json) ==
    IF Len(json.v) # Len(types) THEN TypeError
    ELSE AllOk([i \in DOMAIN types |-> fromJson(types[i], json.v[i])])

fromJson(t, json) ==
    CASE t.kind = "Null" -> Ok(<<>>)
      [] t.kind = "bool" /\ json.kind = "boolean" -> Ok(json.v)
      [] t.kind \in NumberTypes /\ json.kind = "number" -> Ok(numberFromJson(t.kind, json.v))
      [] t.kind = "String" /\ json.kind = "string" -> Ok(json.v)
      [] t.kind = "Uri" /\ json.kind = "string" -> Ok(parseUri(json.v))
      [] t.kind = "LSPAny" -> Ok(json)
      [] t.kind = "NullOr" ->
            IF json.kind = "null" THEN Ok(Nothing) ELSE AllOk(Some(fromJson(t.of, json)))
      [] t.kind = "Array" /\ json.kind = "array" ->
            AllOk([i \in DOMAIN json.v |-> fromJson(t.of, json.v[i])])
      [] t.kind = "Map" /\ json.kind = "object" -> mapFromJson(t.of[1], t.of[2], json)
      [] t.kind = "Tuple" /\ json.kind = "array" -> tupleFromJson(t.of, json)
      [] t.kind = "Enumeration" ->
            LET value == fromJson(t.of.type, json)
            IN  IF value.ok THEN Ok(enumerationFromValue(t.of.values, value.value)) ELSE value
      [] t.kind = "OneOf" -> variantFromJson(t.of, json)
      [] t.kind = "struct" -> structFromJson(t.of, json)
      [] OTHER -> TypeError

-----------------------------------------------------------------------------
(* toJson *)

numberToJson(type, n) == Number(IF type = "double" THEN n ELSE 2 * n)

RECURSIVE toJson(_, _)

\* A member is written unless it is an optional without a value.
structToJson(s, value) ==
    LET Member(name) == CHOOSE p \in Range(Members(s)) : p.name = name
        Unwrapped(name) == IF Member(name).isOptional THEN value[name][1] ELSE value[name]
    IN  Object([name \in {n \in DOMAIN value : Member(n).isOptional => value[n] # Nothing} |->
                    toJson(cppTypeName(Member(name).type), Unwrapped(name))])

toJson(t, value) ==
    CASE t.kind = "Null" -> Null
      [] t.kind = "bool" -> Boolean(value)
      [] t.kind \in NumberTypes -> numberToJson(t.kind, value)
      [] t.kind \in {"String", "Uri"} -> String(value)
      [] t.kind = "LSPAny" -> value
      [] t.kind = "NullOr" -> IF value = Nothing THEN Null ELSE toJson(t.of, value[1])
      [] t.kind = "Array" -> Array([i \in DOMAIN value |-> toJson(t.of, value[i])])
      [] t.kind = "Map" -> Object([k \in DOMAIN value |-> toJson(t.of[2], value[k])])
      [] t.kind = "Tuple" -> Array([i \in DOMAIN value |-> toJson(t.of[i], value[i])])
      [] t.kind = "Enumeration" ->
            toJson(t.of.type, IF value[1] = 0 THEN value[2] ELSE t.of.values[value[1]])
      [] t.kind = "OneOf" -> toJson(t.of[value[1]], value[2])
      [] t.kind = "struct" -> structToJson(t.of, value)
=============================================================================
