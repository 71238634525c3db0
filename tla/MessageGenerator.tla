-------------------------- MODULE MessageGenerator --------------------------
(***************************************************************************)
(* qtprotobufgen: from the descriptor of a .proto file it prints a header, *)
(* a source file and a registration file.  Which accessor, which member,   *)
(* which Q_PROPERTY and which row of the metadata a field gets is decided  *)
(* in some fifteen loops over the same fields, each with its own chain of  *)
(* conditions; the C++ compiler, moc and the runtime's                     *)
(* QProtobufPropertyOrdering rely on these loops agreeing.                 *)
(*                                                                         *)
(* What is printed for a field is the name of a template of                *)
(* CommonTemplates.  The name of a function is a sequence of words:        *)
(* <<"set", "1">> is the setter of field 1.  The JSON name of field n has  *)
(* n characters.                                                           *)
(***************************************************************************)
EXTENDS Integers, Sequences, FiniteSets, FiniteSetsExt, SequencesExt, Folds, TLC

CONSTANTS Messages,   \* the message types, in the order of the file
          Families    \* the descriptors to consider: trees of messages with fields

VARIABLES file,       \* the descriptor
          options,    \* the options of the command line
          phase,
          header, source, registration   \* what has been printed

vars == <<file, options, phase, header, source, registration>>

NoMessage == "none"
Pkg == "pkg"
MessageNames == ToSet(Messages)
Word(n) == ToString(n)
-----------------------------------------------------------------------------
(* The descriptor.  A field has a type, for a message or an enum the       *)
(* message that it is or that contains it, and a label; "singular" is a    *)
(* field without presence.  A message may have one oneof and has one enum. *)

Parent(m) == file.parent[m]
NestedIn(m) == SelectSeq(Messages, LAMBDA n : Parent(n) = m)
Fields(m) == file.fields[m]

isRepeated(f) == f.label \in {"repeated", "map"}
isMap(f) == f.label = "map"
isGroupField(f) == f.type = "group"
isQtType(f) == f.type = "message" /\ f.of = "Qt"
isOverridden(f) == f.type = "message" /\ f.of = "Any"
isPureMessage(f) ==
    f.type = "message" /\ ~isMap(f) /\ ~isRepeated(f) /\ ~isQtType(f) /\ ~isOverridden(f)
isRepeatedMessage(f) == f.type = "message" /\ ~isMap(f) /\ isRepeated(f)
isOneofField(f) == f.label = "oneof"
isOptionalField(f) == f.label = "optional" /\ f.type # "message"
isTriviallyCopyable(f) == ~isRepeated(f) /\ f.type \notin {"message", "string"}

iterateMessageFields(m) == SelectSeq(Fields(m), LAMBDA f : ~isGroupField(f))
iterateOneofFields(m) ==
    IF \E i \in DOMAIN Fields(m) : isOneofField(Fields(m)[i]) THEN <<<<"one">>>> ELSE <<>>
generateFieldEnum == TRUE
hasNestedMessages(m) == NestedIn(m) # <<>>
hasNestedTypes(m) == hasNestedMessages(m) \/ generateFieldEnum

(* All that a loop prints, one after the other. *)
ForEach(s, Each(_)) == FlattenSeq([i \in DOMAIN s |-> Each(s[i])])
If(condition, templates) == IF condition THEN templates ELSE <<>>
-----------------------------------------------------------------------------
(* Names. *)

optionalName(f) == IF isOneofField(f) THEN <<"one">> ELSE f.name
setName(n) == <<"set">> \o n
hasName(n) == <<"has">> \o n
clearName(n) == <<"clear">> \o n
mutableGetterName(n) == <<"mut">> \o n
private(n) == Append(n, "_p")

(* The functions that the declaration and the definition templates of one  *)
(* name have in their text: name, parameter, result and qualifier.         *)
Signatures(n, o) ==
    LET has == <<hasName(n), "", "bool", "const">>
        setter == {<<setName(n), "T", "void", "">>}
        complex == {<<setName(n), "const T &", "void", "">>, <<setName(n), "T &&", "void", "">>}
        privateGetter(r, q) == {<<private(n), "", r, q>>}
        privateSetter(a) == {<<private(setName(n)), a, "void", "">>}
    IN  [GetterOneofMessage |-> {has, <<n, "", "T &", "const">>},
         GetterOneof |-> {has, <<n, "", "T", "const">>},
         GetterOptional |-> {has, <<n, "", "T", "const">>},
         GetterMessage |-> {has, <<n, "", "const T &", "const &">>},
         GetterMessageMutable |-> {<<mutableGetterName(n), "", "T &", "&">>},
         GetterComplex |-> {<<n, "", "const T &", "const &">>},
         Getter |-> {<<n, "", "T", "const">>},
         GetterOneofFieldNumber |-> {<<Append(o, "Field"), "", "Fields", "const">>},
         ClearMessage |-> {<<clearName(n), "", "void", "">>},
         ClearOneof |-> {<<clearName(o), "", "void", "">>},
         ClearOptional |-> {<<clearName(o), "", "void", "">>},
         Setter |-> setter, SetterFloatingPoint |-> setter,
         SetterOneof |-> setter, SetterOptional |-> setter,
         SetterMessage |-> complex, SetterComplex |-> complex,
         SetterComplexOneof |-> complex, SetterComplexOptional |-> complex,
         PrivateGetterMessage |-> privateGetter("T *", ""),
         PrivateGetterOneofMessage |-> privateGetter("T *", ""),
         PrivateGetterOneof |-> privateGetter("T", "const"),
         PrivateGetterOptional |-> privateGetter("T", "const"),
         PrivateSetterMessage |-> privateSetter("T *"),
         PrivateSetterOneofMessage |-> privateSetter("T *"),
         PrivateSetterOneof |-> privateSetter("T"),
         PrivateSetterOptional |-> privateSetter("T")]

(* The members of the data class that the definitions work on. *)
OneofTemplates == {"GetterOneofMessage", "GetterOneof", "GetterOneofFieldNumber", "ClearOneof",
                   "SetterOneof", "SetterComplexOneof", "PrivateGetterOneofMessage",
                   "PrivateGetterOneof", "PrivateSetterOneofMessage", "PrivateSetterOneof"}
OptionalTemplates == {"GetterOptional", "ClearOptional", "SetterOptional",
                      "SetterComplexOptional", "PrivateGetterOptional", "PrivateSetterOptional"}
MessageTemplates == {"GetterMessage", "GetterMessageMutable", "ClearMessage", "SetterMessage",
                     "PrivateGetterMessage", "PrivateSetterMessage"}
-----------------------------------------------------------------------------
(* The header: MessageDeclarationPrinter. *)

Property(name, read, write) == [name |-> name, read |-> read, write |-> write]
PropertyTemplate(n) == Property(n, n, setName(n))
PropertyRepeatedMessageDeprecated(n) == Property(Append(n, "Data"), n, setName(n))
PropertyPrivate(name, n) == Property(name, private(n), private(setName(n)))
PropertyHasField(n) == Property(hasName(n), hasName(n), <<>>)

PropertiesOf(f) ==
    LET n == f.name
    IN  IF isOneofField(f)
        THEN <<PropertyPrivate(IF isPureMessage(f) THEN private(n) ELSE n, n), PropertyHasField(n)>>
        ELSE IF isOptionalField(f) THEN <<PropertyPrivate(n, n), PropertyHasField(n)>>
        ELSE IF isPureMessage(f) THEN <<PropertyPrivate(private(n), n), PropertyHasField(n)>>
        ELSE IF isRepeatedMessage(f)
        THEN <<PropertyTemplate(n), PropertyRepeatedMessageDeprecated(n)>>
        ELSE <<PropertyTemplate(n)>>

QmlProperties(m) ==
    If(options.qml, ForEach(SelectSeq(Fields(m), isPureMessage),
                            LAMBDA f : <<PropertyTemplate(f.name)>>))

printProperties(m) == ForEach(iterateMessageFields(m), PropertiesOf) \o QmlProperties(m)

(* An accessor is a template and the names it is printed with. *)
For(f, templates) ==
    [i \in DOMAIN templates |-> [template |-> templates[i], name |-> f.name, optional |-> optionalName(f)]]
ForOneofs(m, templates) ==
    ForEach(iterateOneofFields(m),
            LAMBDA o : [i \in DOMAIN templates |-> [template |-> templates[i], name |-> o, optional |-> o]])

DeclaredGetters(f) ==
    IF isOneofField(f)
    THEN <<IF isPureMessage(f) THEN "GetterOneofMessage" ELSE "GetterOneof">>
    ELSE IF isOptionalField(f) THEN <<"GetterOneof">>
    ELSE IF isPureMessage(f) THEN <<"GetterMessage", "GetterMessageMutable", "ClearMessage">>
    ELSE IF f.type \in {"message", "string"} \/ isRepeated(f) THEN <<"GetterComplex">>
    ELSE <<"Getter">>

DeclaredSetters(f) ==
    IF isOneofField(f)
    THEN <<IF isTriviallyCopyable(f) THEN "SetterOneof" ELSE "SetterComplexOneof">>
    ELSE IF isOptionalField(f)
    THEN <<IF isTriviallyCopyable(f) THEN "Setter" ELSE "SetterComplex", "ClearOneof">>
    ELSE IF f.type = "message" /\ ~isRepeated(f) /\ ~isQtType(f) THEN <<"SetterMessage">>
    ELSE IF f.type \in {"message", "string"} \/ isRepeated(f) THEN <<"SetterComplex">>
    ELSE <<"Setter">>

DeclaredPrivateGetters(f) ==
    IF isOneofField(f)
    THEN <<IF isPureMessage(f) THEN "PrivateGetterOneofMessage" ELSE "PrivateGetterOneof">>
    ELSE If(isOptionalField(f), <<"PrivateGetterOneof">>)
         \o If(isPureMessage(f), <<"PrivateGetterMessage">>)

DeclaredPrivateSetters(f) ==
    IF isOneofField(f)
    THEN <<IF isPureMessage(f) THEN "PrivateSetterOneofMessage" ELSE "PrivateSetterOneof">>
    ELSE If(isOptionalField(f), <<"PrivateSetterOneof">>)
         \o If(isPureMessage(f), <<"PrivateSetterMessage">>)

DeclaredAccessors(m) ==
    LET Loop(Templates(_)) == ForEach(iterateMessageFields(m), LAMBDA f : For(f, Templates(f)))
    IN  Loop(DeclaredGetters) \o ForOneofs(m, <<"GetterOneofFieldNumber">>)
        \o Loop(DeclaredSetters) \o ForOneofs(m, <<"ClearOneof">>)
        \o Loop(DeclaredPrivateGetters) \o Loop(DeclaredPrivateSetters)

NestedScope(m) == m \o "_QtProtobufNested"
EnumOf(m) == m \o "Enum"
FieldEnum == "QtProtobufFieldEnum"
EnumsOf(m) == <<FieldEnum, EnumOf(m)>>
              \o [i \in DOMAIN iterateOneofFields(m) |-> m \o "OneofFields"]

(* Names of types: the namespaces of nested types from the innermost that  *)
(* encloses the scope, or those of the package for a type outside of all.  *)
Ancestors(m) ==
    LET Up[n \in MessageNames] == IF Parent(n) = NoMessage THEN <<n>> ELSE Append(Up[Parent(n)], n)
    IN  IF m = NoMessage THEN <<>> ELSE Up[m]
NestedNamespaces(m) == [i \in DOMAIN Ancestors(m) |-> NestedScope(Ancestors(m)[i])]
NamespaceOf(m) == <<Pkg>> \o NestedNamespaces(Parent(m))

getScopeNamespace(container, scope) ==
    LET all == Ancestors(container)
        from == IF scope \in ToSet(all) THEN CHOOSE i \in DOMAIN all : all[i] = scope ELSE 1
    IN  SubSeq(NestedNamespaces(container), from, Len(all))

GlobalEnumGadget == <<Pkg, "EnumGadget">>
(* A global enum is in a namespace of its own; the package is only cut off *)
(* for a scope that is directly in it.                                     *)
scopeType(f, scope) ==
    IF f.type = "enum"
    THEN IF f.of # NoMessage THEN Append(getScopeNamespace(f.of, scope), EnumOf(f.of))
         ELSE IF Parent(scope) = NoMessage THEN <<"EnumGadget", "Enum">>
         ELSE GlobalEnumGadget \o <<"Enum">>
    ELSE Append(getScopeNamespace(Parent(f.of), scope), f.of)

RefersToType(f) == ~isMap(f) /\ (f.type = "enum" \/ (f.type = "message" /\ f.of \in MessageNames))

(* The types that a class body names: what it renames, and its fields'.    *)
printNested(m) ==
    LET Renamed(x) == <<NestedScope(m), x>>
    IN  {Renamed(x) : x \in ToSet(EnumsOf(m)) \cup ToSet(NestedIn(m))}
TypesUsed(m) == {scopeType(f, m) : f \in {g \in ToSet(iterateMessageFields(m)) : RefersToType(g)}}

Line(what, m, ns, name) == [what |-> what, of |-> m, ns |-> ns, name |-> name]

SlipForward ==
    LET Forward(m) ==
            <<Line("forward", m, NamespaceOf(m), m)>>
            \o ForEach(EnumsOf(m), LAMBDA e : <<Line("enum", m, Append(NamespaceOf(m), NestedScope(m)), e)>>)
    IN  ForEach(NestedIn(NoMessage), Forward)
printClassForwardDeclarations ==
    LET Forward[m \in MessageNames] ==
            LET inside == Append(NamespaceOf(m), NestedScope(m))
            IN  <<Line("forward", m, NamespaceOf(m), m)>>
                \o If(hasNestedTypes(m),
                      ForEach(EnumsOf(m), LAMBDA e : <<Line("enum", m, inside, e)>>)
                      \o ForEach(NestedIn(m), LAMBDA n : Forward[n]))
    IN  ForEach(NestedIn(NoMessage), LAMBDA m : Forward[m])

(* A message without fields has nothing to enumerate: its field enum       *)
(* remains declared, which makes it a complete type for C++.               *)
isDefined(m, e) == e # FieldEnum \/ Fields(m) # <<>>

printEnums(m) ==
    ForEach(SelectSeq(EnumsOf(m), LAMBDA e : isDefined(m, e)),
            LAMBDA e : <<Line("enumClass", m, Append(NamespaceOf(m), NestedScope(m)), e)>>)

printClassDeclarations ==
    LET Declared[m \in MessageNames] ==
            <<Line("class", m, NamespaceOf(m), m)>>
            \o If(hasNestedTypes(m), printEnums(m) \o ForEach(NestedIn(m), LAMBDA n : Declared[n]))
    IN  ForEach(NestedIn(NoMessage), LAMBDA m : Declared[m])

EnumDeclarations == <<Line("enumClass", NoMessage, GlobalEnumGadget, "Enum")>>

(* specialMessageHandling(): the includes that a message needs, and the    *)
(* clash of a field named mutX with the mutable getter of a field X.       *)
Includes(m) ==
    {"qprotobufoneof.h" : o \in ToSet(iterateOneofFields(m))}
    \cup {"optional" : f \in {g \in ToSet(iterateMessageFields(m)) : isOptionalField(g)}}
    \cup {"QtType" : f \in {g \in ToSet(iterateMessageFields(m)) :
                                isQtType(g) /\ ~isRepeated(g)}}

MutPrefixedNames(f) ==
    {mutableGetterName(f.name)} \cup (IF f.name[1] = "mut" THEN {f.name} ELSE {})

MutFieldsClash(m) ==
    LET pure == SelectSeq(iterateMessageFields(m), isPureMessage)
    IN  \E i, j \in DOMAIN pure : i < j /\
            {pure[j].name, mutableGetterName(pure[j].name)} \cap MutPrefixedNames(pure[i]) # {}

(* The messages of the file and those nested in them, but no deeper.       *)
Examined == {m \in MessageNames : Parent(m) = NoMessage \/ Parent(Parent(m)) = NoMessage}
-----------------------------------------------------------------------------
(* The source: MessageDefinitionPrinter. *)

Member(template, name) == [template |-> template, name |-> name]

MemberOf(f) ==
    IF isOptionalField(f) THEN Member("MemberOptional", optionalName(f))
    ELSE IF isPureMessage(f) THEN Member("MemberMessage", f.name)
    ELSE IF isRepeated(f) /\ ~isMap(f) THEN Member("MemberRepeated", f.name)
    ELSE Member("Member", f.name)

NoOneofFields(m) == SelectSeq(iterateMessageFields(m), LAMBDA f : ~isOneofField(f))

WithOneofs(m, Each(_), template) ==
    ForEach(NoOneofFields(m), Each) \o ForEach(iterateOneofFields(m), LAMBDA o : <<Member(template, o)>>)

printClassMembers(m) == WithOneofs(m, LAMBDA f : <<MemberOf(f)>>, "MemberOneof")

printDataClassCopy(m) ==
    WithOneofs(m, LAMBDA f : <<Member(IF isPureMessage(f) THEN "CopyInitializerMemberMessage"
                                      ELSE "CopyInitializerMember", f.name)>>,
               "CopyInitializerMemberOneof")

printComparisonOperators(m) ==
    WithOneofs(m, LAMBDA f : <<Member(IF isPureMessage(f) THEN "EqualOperatorMemberMessage"
                                      ELSE IF f.type = "message" /\ isRepeated(f)
                                      THEN "EqualOperatorMemberRepeated"
                                      ELSE "EqualOperatorMember", f.name)>>,
               "EqualOperatorMemberOneof")

hasInitializer(f) ==
    f.type \in {"int64", "float", "enum"} \/ (f.type = "message" /\ ~isQtType(f))

printInitializationList(m) ==
    ForEach(iterateMessageFields(m),
            LAMBDA f : If(~(isRepeated(f) \/ isOneofField(f) \/ isOptionalField(f)) /\ hasInitializer(f),
                          <<f.name>>))

DefinedGetters(f) ==
    IF isOneofField(f)
    THEN IF isPureMessage(f) THEN <<"PrivateGetterOneofMessage", "GetterOneofMessage">>
         ELSE <<"PrivateGetterOneof", "GetterOneof">>
    ELSE IF isOptionalField(f) THEN <<"PrivateGetterOptional", "GetterOptional">>
    ELSE IF isPureMessage(f)
    THEN <<"PrivateGetterMessage", "GetterMessage", "GetterMessageMutable", "ClearMessage">>
    ELSE IF f.type \in {"message", "string"} \/ isRepeated(f) THEN <<"GetterComplex">>
    ELSE <<"Getter">>

SlipDefinedSetters(f) ==
    IF isOneofField(f)
    THEN <<IF isTriviallyCopyable(f) THEN "SetterOneof" ELSE "SetterComplexOneof",
           IF isPureMessage(f) THEN "PrivateSetterOneofMessage" ELSE "PrivateSetterOneof">>
    ELSE IF isOptionalField(f)
    THEN <<"SetterOptional", "PrivateSetterOptional", "ClearOptional">>
    ELSE IF isPureMessage(f) THEN <<"PrivateSetterMessage", "SetterMessage">>
    ELSE IF f.type \in {"message", "string"} \/ isRepeated(f) THEN <<"SetterComplex">>
    ELSE <<IF f.type = "float" THEN "SetterFloatingPoint" ELSE "Setter">>
DefinedSetters(f) ==
    IF isOneofField(f)
    THEN <<IF isTriviallyCopyable(f) THEN "SetterOneof" ELSE "SetterComplexOneof",
           IF isPureMessage(f) THEN "PrivateSetterOneofMessage" ELSE "PrivateSetterOneof">>
    ELSE IF isOptionalField(f)
    THEN <<IF isTriviallyCopyable(f) THEN "SetterOptional" ELSE "SetterComplexOptional",
           "PrivateSetterOptional", "ClearOptional">>
    ELSE IF isPureMessage(f) THEN <<"PrivateSetterMessage", "SetterMessage">>
    ELSE IF f.type \in {"message", "string"} \/ isRepeated(f) THEN <<"SetterComplex">>
    ELSE <<IF f.type = "float" THEN "SetterFloatingPoint" ELSE "Setter">>

DefinedAccessors(m) ==
    ForEach(iterateMessageFields(m), LAMBDA f : For(f, DefinedGetters(f)))
    \o ForEach(iterateMessageFields(m), LAMBDA f : For(f, DefinedSetters(f)))
    \o ForOneofs(m, <<"GetterOneofFieldNumber", "ClearOneof">>)

(* The metadata: numbers in one array, strings in another. *)
NUL == "NUL"
JsonName(f) == [i \in 1 .. f.number |-> Word(f.number)]
FullName(m) == <<Pkg, ".", m>>
metaCharDataSize(m) == Len(FullName(m))
charDataSize(m) ==
    FoldSeq(LAMBDA f, sum : sum + Len(JsonName(f)) + 1, 0, iterateMessageFields(m)) + 1
NullTerminator == 1

collectFieldFlags(f) ==
    (IF isRepeated(f) /\ ~isMap(f) /\ f.type \notin {"string", "message"} /\ ~f.packed
     THEN {"NonPacked"} ELSE {})
    \cup (IF isOneofField(f) THEN {"Oneof"} ELSE {})
    \cup (IF isOptionalField(f) THEN {"Optional"} ELSE {})
    \cup (IF f.label = "required" THEN {"Required"} ELSE {})
    \cup (IF isOneofField(f) \/ isOptionalField(f) \/ isPureMessage(f) THEN {"ExplicitPresence"} ELSE {})
    \cup (IF isMap(f) THEN {"Map"} ELSE {})
    \cup (IF isRepeated(f) /\ ~isMap(f) THEN {"Repeated"} ELSE {})
    \cup (IF f.type = "enum" THEN {"Enum"} ELSE {})
    \cup (IF f.type = "message" THEN {"Message"} ELSE {})

SlipPropertyCount(f) == IF isOneofField(f) \/ isOptionalField(f) \/ isPureMessage(f) THEN 2 ELSE 1
PropertyCount(f) ==
    IF isOneofField(f) \/ isOptionalField(f) \/ isPureMessage(f) \/ isRepeatedMessage(f) THEN 2 ELSE 1

(* printUintData(): a column of the table, with the counters of its loop.  *)
printUintData(m, Column(_, _, _)) ==
    LET s == iterateMessageFields(m)
        Before(i, Count(_)) == MapThenSumSet(LAMBDA j : Count(s[j]), 1 .. i - 1)
    IN  [i \in DOMAIN s |->
            Column(s[i], Before(i, PropertyCount),
                   metaCharDataSize(m) + NullTerminator
                       + Before(i, LAMBDA f : Len(JsonName(f)) + NullTerminator))]

printCharData(m) ==
    Append(FullName(m), NUL) \o ForEach(iterateMessageFields(m), LAMBDA f : Append(JsonName(f), NUL))

printFieldsOrdering(m) ==
    LET fieldCount == Len(iterateMessageFields(m))
        total == metaCharDataSize(m) + NullTerminator + charDataSize(m)
    IN  [numFields |-> fieldCount,
         fieldNumberOffset |-> fieldCount * 1 + NullTerminator,
         propertyIndexOffset |-> fieldCount * 2 + NullTerminator,
         flagsOffset |-> fieldCount * 3 + NullTerminator,
         fullPackageNameSize |-> metaCharDataSize(m),
         uint_size |-> fieldCount * 4 + 1,
         char_size |-> total,
         uint_data |-> Append(printUintData(m, LAMBDA f, index, offset : offset),
                              total - NullTerminator)
                       \o printUintData(m, LAMBDA f, index, offset : f.number)
                       \o printUintData(m, LAMBDA f, index, offset : index)
                       \o printUintData(m, LAMBDA f, index, offset : collectFieldFlags(f)),
         char_data |-> printCharData(m)]

(* Maps are registered once per type, enums always. *)
printRegisterBody(m) ==
    ForEach(iterateMessageFields(m), LAMBDA f : If(isMap(f), <<f.name>>)) \o <<EnumOf(m)>>

printClassDefinitions ==
    LET Definition(m, ns) ==
            [of |-> m, ns |-> ns, members |-> printClassMembers(m), copied |-> printDataClassCopy(m),
             compared |-> printComparisonOperators(m), initialized |-> printInitializationList(m),
             accessors |-> DefinedAccessors(m), ordering |-> printFieldsOrdering(m),
             registered |-> printRegisterBody(m)]
        Defined[m \in MessageNames] ==
            If(hasNestedMessages(m), ForEach(NestedIn(m), LAMBDA n : Defined[n]))
            \o <<Definition(m, NamespaceOf(m))>>
    IN  ForEach(NestedIn(NoMessage), LAMBDA m : Defined[m])

(* The registrars; that of a global enum is in the source file. *)
EnumRegistrations == <<Append(GlobalEnumGadget, "Enum")>>

printClassRegistrations ==
    LET Registered[m \in MessageNames] ==
            If(hasNestedMessages(m), ForEach(NestedIn(m), LAMBDA n : Registered[n]))
            \o <<Append(NamespaceOf(m), m)>>
    IN  ForEach(NestedIn(NoMessage), LAMBDA m : Registered[m])
-----------------------------------------------------------------------------
(* A run of the tool. *)

Nothing == <<>>

Init ==
    \E family \in Families :
        /\ file = [parent |-> family.parent, fields |-> [m \in MessageNames |-> <<>>],
                   variants |-> family.variants, at |-> family.at, left |-> family.fields]
        /\ options = Nothing
        /\ phase = "describe"
        /\ header = Nothing /\ source = Nothing /\ registration = Nothing

(* The author of the .proto file: the fields are numbered as they come.    *)
FieldCount == FoldSeq(LAMBDA m, sum : sum + Len(Fields(m)), 0, Messages)
FieldNames(n) == {<<Word(n)>>} \cup {<<"mut", Word(k)>> : k \in 1 .. n - 1}

AddField(m, v, name) ==
    LET n == FieldCount + 1
        f == [name |-> name, number |-> n, type |-> v.type, of |-> v.of, label |-> v.label,
              packed |-> v.packed]
    IN  /\ phase = "describe" /\ file.left > 0
        /\ \A o \in MessageNames, i \in 1 .. FieldCount :
              i \in DOMAIN Fields(o) => Fields(o)[i].name # name
        /\ file' = [file EXCEPT !.fields[m] = Append(@, f), !.left = @ - 1]
        /\ UNCHANGED <<options, phase, header, source, registration>>

(* GenerateAll(): the options are read, which may fail. *)
Options == [qml : BOOLEAN, mutableGetterConflicts : BOOLEAN, exportMacro : {"none", "valid", "invalid"}]

GenerateAll ==
    /\ phase = "describe"
    /\ options' \in Options
    /\ phase' = IF options'.exportMacro = "invalid" THEN "failed" ELSE "header"
    /\ UNCHANGED <<file, header, source, registration>>

GenerateHeader ==
    /\ phase = "header"
    /\ IF (\E m \in Examined : MutFieldsClash(m)) /\ ~options.mutableGetterConflicts
       THEN phase' = "failed" /\ UNCHANGED header
       ELSE /\ phase' = "sources"
            /\ header' = [includes |-> UNION {Includes(m) : m \in Examined}
                                       \cup {"export.h" : x \in {options.exportMacro} \ {"none"}},
                          lines |-> EnumDeclarations \o printClassForwardDeclarations \o printClassDeclarations,
                          properties |-> [m \in MessageNames |-> printProperties(m)],
                          accessors |-> [m \in MessageNames |-> DeclaredAccessors(m)],
                          types |-> [m \in MessageNames |-> printNested(m) \cup TypesUsed(m)]]
    /\ UNCHANGED <<file, options, source, registration>>

GenerateSources ==
    /\ phase = "sources"
    /\ phase' = "done"
    /\ source' = printClassDefinitions
    /\ registration' = EnumRegistrations \o printClassRegistrations
    /\ UNCHANGED <<file, options, header>>

Next ==
    \/ \E m \in file.at, v \in file.variants, name \in FieldNames(FieldCount + 1) :
          AddField(m, v, name)
    \/ GenerateAll \/ GenerateHeader \/ GenerateSources

Spec == Init /\ [][Next]_vars
-----------------------------------------------------------------------------
(* How the generated code is read. *)

(* QProtobufPropertyOrdering. *)
uint_dataForIndex(t, index, offset) == t.uint_data[offset + index + 1]
jsonName(t, index) ==
    LET from == uint_dataForIndex(t, index, 0)
    IN  SubSeq(t.char_data, from + 1, uint_dataForIndex(t, index + 1, 0) - NullTerminator)

(* An entry of a map has no class of its own: QProtobufMapEntryBase makes  *)
(* its properties and its table at run time, from the types of its key and *)
(* its value.                                                              *)
getFlagForType(kind) ==
    {"Optional"} \cup (IF kind = "message" THEN {"Message", "ExplicitPresence"} ELSE {})
                 \cup (IF kind = "enum" THEN {"Enum"} ELSE {})

buildMetaObject(key, value) ==
    LET Part(name, kind) == <<[name |-> name]>> \o If(kind = "message", <<PropertyHasField(name)>>)
    IN  Part(<<"key">>, key) \o Part(<<"value">>, value)

buildMapEntryOrdering(key, value) ==
    LET valueIndex == IF "ExplicitPresence" \in getFlagForType(key) THEN 2 ELSE 1
    IN  <<[name |-> <<"key">>, number |-> 1, index |-> 0, flags |-> getFlagForType(key)],
          [name |-> <<"value">>, number |-> 2, index |-> valueIndex, flags |-> getFlagForType(value)]>>

(* QProtobufPropertyOrderingBuilder::build() *)
build(packageName, fields) ==
    LET n == Len(fields)
        Offset[i \in 1 .. n + 1] ==
            IF i = 1 THEN Len(packageName) + NullTerminator
            ELSE Offset[i - 1] + Len(JsonName(fields[i - 1])) + NullTerminator
    IN  [numFields |-> n, fieldNumberOffset |-> n * 1 + 1, propertyIndexOffset |-> n * 2 + 1,
         flagsOffset |-> n * 3 + 1, fullPackageNameSize |-> Len(packageName),
         uint_size |-> n * 4 + 1, char_size |-> Offset[n + 1] + NullTerminator,
         uint_data |-> Offset \o [i \in 1 .. n |-> fields[i].number]
                       \o [i \in 1 .. n |-> fields[i].index] \o [i \in 1 .. n |-> fields[i].flags],
         char_data |-> Append(packageName, NUL)
                       \o ForEach(fields, LAMBDA f : Append(JsonName(f), NUL))]

(* The functions of a list of accessors, with how often each is there.     *)
FunctionsOf(accessors) ==
    ForEach(accessors, LAMBDA a : SetToSeq(Signatures(a.name, a.optional)[a.template]))
Overload(s) == <<s[1], s[2], s[4] = "const" \/ s[4] = "const &">>

(* Lookup of a qualified name from namespace ns with the first n lines     *)
(* seen: the innermost scope that has its first word.                      *)
Entities(n) ==
    LET seen == {header.lines[i] : i \in 1 .. n}
    IN  {Append(l.ns, l.name) : l \in seen}
        \cup UNION {{SubSeq(l.ns, 1, k) : k \in 1 .. Len(l.ns)} : l \in seen}
Resolve(path, ns, n) ==
    LET scopes == {k \in 0 .. Len(ns) : Append(SubSeq(ns, 1, k), path[1]) \in Entities(n)}
        found == SubSeq(ns, 1, Max(scopes)) \o path
    IN  IF scopes = {} \/ found \notin Entities(n) THEN Nothing ELSE found

Done == phase = "done"
-----------------------------------------------------------------------------
Describes(t, fullName, fields, properties) ==
    /\ Len(t.uint_data) = t.uint_size /\ Len(t.char_data) + 1 = t.char_size
    /\ SubSeq(t.char_data, 1, t.fullPackageNameSize) = fullName
    /\ t.flagsOffset + t.numFields = Len(t.uint_data)
    /\ t.numFields = Len(fields)
    /\ \A i \in DOMAIN fields :
          LET f == fields[i]
              index == uint_dataForIndex(t, i - 1, t.propertyIndexOffset)
              flags == uint_dataForIndex(t, i - 1, t.flagsOffset)
              p == properties[index + 1]
          IN  /\ jsonName(t, i - 1) = JsonName(f)
              /\ uint_dataForIndex(t, i - 1, t.fieldNumberOffset) = f.number
              /\ p.name \in {f.name, private(f.name)}
              /\ ("ExplicitPresence" \in flags) =
                    (index + 1 < Len(properties)
                        /\ properties[index + 2] = PropertyHasField(f.name))

(* The table that the runtime reads describes the class that moc sees:     *)
(* row i is about the i-th field that is not a group, its JSON name is cut *)
(* out of the characters exactly, its property index is that of a property *)
(* with the accessors of the field, and a field with explicit presence has *)
(* its hasX property right behind.  The table that is built at run time    *)
(* describes the properties of a map entry in the same way.                *)
TablesMatchClasses ==
    Done => \A k \in DOMAIN source :
        LET m == source[k].of
            maps == SelectSeq(Fields(m), isMap)
        IN  /\ Describes(source[k].ordering, FullName(m), iterateMessageFields(m), header.properties[m])
            /\ maps # <<>> => \A value \in {"plain", "enum", "message"} :
                  LET fields == buildMapEntryOrdering("plain", value)
                  IN  Describes(build(<<"MapEntry">>, fields), <<"MapEntry">>, fields,
                                buildMetaObject("plain", value))

(* A clash that the doc declares to be an error and the tool does not see: *)
(* with a field that has no mutable getter itself, or deep in the file.    *)
UndetectedClash(m) ==
    \E f, g \in ToSet(iterateMessageFields(m)) :
        /\ isPureMessage(f) /\ ~isOneofField(f) /\ g.name = mutableGetterName(f.name)
        /\ ~(isPureMessage(g) /\ m \in Examined)

(* Header and source agree: each class and each enum is defined once,      *)
(* where it is declared, but for the field enum of a message without       *)
(* fields, which is only declared; the same functions are declared and     *)
(* defined, each once, with the accessors of the properties; a definition  *)
(* finds the kind of member it works on; every member is copied and        *)
(* compared, and every number and enum is initialized.                     *)
ClassesComplete ==
    Done => \A k \in DOMAIN source :
        LET d == source[k]
            m == d.of
            declared == FunctionsOf(header.accessors[m])
            defined == FunctionsOf(d.accessors)
            names == {s[1] : s \in ToSet(declared)}
            members == ToSet(d.members)
            Named(s) == {x.name : x \in ToSet(s)}
            MembersFor(a) ==
                IF a.template \in OneofTemplates THEN {Member("MemberOneof", a.optional)}
                ELSE IF a.template \in OptionalTemplates THEN {Member("MemberOptional", a.optional)}
                ELSE IF a.template \in MessageTemplates THEN {Member("MemberMessage", a.name)}
                ELSE {Member("Member", a.name), Member("MemberRepeated", a.name)}
        IN  /\ \E i \in DOMAIN header.lines : header.lines[i] = Line("class", m, d.ns, m)
            /\ \A i \in DOMAIN source : source[i].of = m => i = k
            /\ ToSet(declared) = ToSet(defined)
            /\ (options.mutableGetterConflicts \/ UndetectedClash(m)) \/
                  /\ Cardinality({Overload(s) : s \in ToSet(declared)}) = Len(declared)
                  /\ Len(defined) = Len(declared)
            /\ \A p \in ToSet(header.properties[m]) :
                  p.read \in names /\ (p.write = <<>> \/ p.write \in names)
            /\ \A a \in ToSet(d.accessors) : MembersFor(a) \cap members # {}
            /\ Named(d.copied) = Named(d.members) /\ Len(d.copied) = Cardinality(members)
            /\ Named(d.compared) = Named(d.members)
            /\ \A f \in ToSet(iterateMessageFields(m)) :
                  /\ MemberOf(f).template = "Member" /\ ~isOneofField(f)
                        /\ f.type \in {"int64", "float", "enum"} => f.name \in ToSet(d.initialized)
                  /\ isMap(f) => f.name \in ToSet(d.registered)
            /\ Len(SelectSeq(registration, LAMBDA r : r = Append(d.ns, m))) = 1
            /\ IsInjective(registration)
            /\ \A l \in ToSet(header.lines) : l.what = "enum" =>
                  Cardinality({i \in DOMAIN header.lines : header.lines[i] = [l EXCEPT !.what = "enumClass"]})
                      = IF l.name = "QtProtobufFieldEnum" /\ Fields(l.of) = <<>> THEN 0 ELSE 1

(* Every type that a class names is found by C++ lookup at that place of   *)
(* the header, and is the one meant, however deep the types are nested and *)
(* wherever they are used; the headers of the members' types are included. *)
NamesResolve ==
    phase \in {"sources", "done"} => \A i \in DOMAIN header.lines :
        LET l == header.lines[i]
            m == l.of
            Meant(f) == IF f.type = "enum"
                        THEN IF f.of = NoMessage THEN GlobalEnumGadget \o <<"Enum">>
                             ELSE <<Pkg>> \o NestedNamespaces(f.of) \o <<EnumOf(f.of)>>
                        ELSE Append(NamespaceOf(f.of), f.of)
        IN  l.what = "class" =>
               /\ \A path \in header.types[m] : Resolve(path, l.ns, i) # Nothing
               /\ \A f \in ToSet(iterateMessageFields(m)) :
                     RefersToType(f) => Resolve(scopeType(f, m), l.ns, i) = Meant(f)
               /\ m \in Examined => Includes(m) \subseteq header.includes
=============================================================================
