------------------------------- MODULE Lspgen -------------------------------
(***************************************************************************)
(* src/lspgen/lspgen.cpp: the C++ types that the generator makes of the    *)
(* types of the protocol's meta model, and what the generated conversions  *)
(* of a structure go through.                                              *)
(*                                                                         *)
(* A type, of either side, is [kind, of].  Structure types carry their     *)
(* definition, [extends, mixins, properties].  Types of kind "and", and    *)
(* literals that are not strings, are left out: the protocol has none.     *)
(***************************************************************************)
EXTENDS JsonValues, SequencesExt

CONSTANTS
    Structures,      \* name -> [extends, mixins, properties]
    TypeAliases,     \* name -> type
    Enumerations     \* name -> [type, values]

\* extractStructureProperties: the required ones come first.
InOrder(properties) ==
    SelectSeq(properties, LAMBDA p : ~p.isOptional)
        \o SelectSeq(properties, LAMBDA p : p.isOptional)

Structure(name) == [Structures[name] EXCEPT !.properties = InOrder(@)]

Type(kind, of) == [kind |-> kind, of |-> of]
BaseType(name) == Type("base", name)
ReferenceType(name) == Type("reference", name)
ArrayType(element) == Type("array", element)
MapType(key, value) == Type("map", <<key, value>>)
OrType(items) == Type("or", items)
TupleType(items) == Type("tuple", items)
StructureLiteralType(properties) ==
    Type("literal", [extends |-> <<>>, mixins |-> <<>>, properties |-> InOrder(properties)])
StringLiteralType(text) == Type("stringLiteral", text)

Property(name, type, isOptional) == [name |-> name, type |-> type, isOptional |-> isOptional]

-----------------------------------------------------------------------------
(* Reading the meta model *)

\* Two literals with the same names in the same order become one; a property that one
\* of them may leave out is optional then, and stays where it is.
Merge(literals, next) ==
    LET ps == Last(literals).of.properties
        qs == next.of.properties
        Same == Len(ps) = Len(qs) /\ \A i \in DOMAIN ps : ps[i].name = qs[i].name
        both == [i \in DOMAIN ps |-> [ps[i] EXCEPT !.isOptional = @ \/ qs[i].isOptional]]
    IN  IF literals # <<>> /\ Same
        THEN [literals EXCEPT ![Len(literals)].of.properties = both]
        ELSE Append(literals, next)

\* OrType::extract: literals go behind the other alternatives.
Alternatives(items) ==
    SelectSeq(items, LAMBDA t : t.kind # "literal")
        \o FoldLeft(Merge, <<>>, SelectSeq(items, LAMBDA t : t.kind = "literal"))

-----------------------------------------------------------------------------
(* C++ types *)

s_baseTypeMapping ==
    [boolean |-> "bool", string |-> "String", integer |-> "int", uinteger |-> "uint",
     decimal |-> "double", URI |-> "Uri", DocumentUri |-> "Uri", RegExp |-> "String",
     null |-> "Null"]

\* NullOr, NullOrOneOf and OneOf: one null makes a Nullable of the rest.
OrTypeName(types) ==
    LET rest == SelectSeq(types, LAMBDA t : t.kind # "Null")
        oneOf == IF Len(rest) = 1 THEN rest[1] ELSE Type("OneOf", rest)
    IN  IF rest = types THEN oneOf ELSE Type("NullOr", oneOf)

RECURSIVE cppTypeName(_)
cppTypeName(t) ==
    CASE t.kind = "base" -> Type(s_baseTypeMapping[t.of], <<>>)
      [] t.kind = "stringLiteral" -> Type("String", <<>>)
      [] t.kind = "array" -> Type("Array", cppTypeName(t.of))
      [] t.kind = "map" -> Type("Map", <<cppTypeName(t.of[1]), cppTypeName(t.of[2])>>)
      [] t.kind = "tuple" -> Type("Tuple", [i \in DOMAIN t.of |-> cppTypeName(t.of[i])])
      [] t.kind = "literal" -> Type("struct", t.of)
      [] t.kind = "or" ->
            LET items == Alternatives(t.of)
            IN  OrTypeName([i \in DOMAIN items |-> cppTypeName(items[i])])
      [] t.kind = "reference" ->
            CASE t.of = "LSPAny" -> Type("LSPAny", <<>>)
              [] t.of \in DOMAIN TypeAliases -> cppTypeName(TypeAliases[t.of])
              [] t.of \in DOMAIN Enumerations ->
                    Type("Enumeration", [type |-> cppTypeName(Enumerations[t.of].type),
                                         values |-> Enumerations[t.of].values])
              [] OTHER -> Type("struct", Structure(t.of))

-----------------------------------------------------------------------------
(* Generated structures *)

Names(properties) == {p.name : p \in Range(properties)}
BaseProperties(s) == [i \in DOMAIN s.extends |-> Structure(s.extends[i]).properties]

\* The properties that are written into a structure: those of its mixins, but not of
\* what these extend, and its own.
StructureProperties(s) ==
    FlattenSeq([i \in DOMAIN s.mixins |-> Structure(s.mixins[i]).properties])
        \o s.properties

IsLiteral(p) == p.type.kind = "stringLiteral"

\* Such a literal is no member of its own but a value of the inherited one.
IsInheritedLiteral(s, p) ==
    IsLiteral(p) /\ s.extends # <<>> /\ p.name \in Names(BaseProperties(s)[1])

RECURSIVE Members(_)
Members(s) ==
    FlattenSeq([i \in DOMAIN s.extends |-> Members(Structure(s.extends[i]))])
        \o SelectSeq(StructureProperties(s), LAMBDA p : ~IsInheritedLiteral(s, p))

literalProperties(s) == {p \in Range(StructureProperties(s)) : IsLiteral(p)}

\* Those of a base that the base inherits itself are missing here.
requiredProperties(s) ==
    {p.name : p \in {q \in Range(FlattenSeq(BaseProperties(s))) : ~q.isOptional}}
        \union {p.name : p \in {q \in Range(StructureProperties(s)) :
                                    ~q.isOptional /\ ~IsLiteral(q)}}

\* The literals that fromJson compares, those of the bases included.
RECURSIVE CheckedLiterals(_)
CheckedLiterals(s) ==
    literalProperties(s)
        \union UNION {CheckedLiterals(Structure(s.extends[i])) : i \in DOMAIN s.extends}
=============================================================================
