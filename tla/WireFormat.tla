----------------------------- MODULE WireFormat -----------------------------
(***************************************************************************)
(* QProtobufSerializer: the binary format.  One serializer object is used  *)
(* for one call after another; a call parses bytes into a message or       *)
(* writes a message as bytes.  Both walk over the message with a stack     *)
(* that is kept beside the C++ recursion: the deserializer stacks the ends *)
(* of the messages it is in, the serializer the bytes it has written       *)
(* around the message it is in.  frames is the recursion.                  *)
(*                                                                         *)
(* What a field is comes from the packed property table of its type.       *)
(* Bytes are 0..255 and varints are those of the format.  The widths are   *)
(* scaled: WideBits stands for 64, NarrowBits for 32, and a fixed32 has    *)
(* Fixed32Size bytes.  Varints longer than WideBits and lengths beyond the *)
(* range of qsizetype are not considered.                                  *)
(***************************************************************************)
EXTENDS Integers, Sequences, SequencesExt, FiniteSets

CONSTANTS Types,            \* type |-> its fields, in the order of the table
          Inputs,           \* type |-> the byte strings to parse
          Messages,         \* type |-> messages the user has built
          Preserving,       \* the values of preserveUnknownFields
          MaximumInputSize, \* the limit set on the serializer object; {} if none
          EnvMaximumInputSize, \* that of the environment; {} if none or no integer
          SizeLimit,        \* the limit of the format
          WideBits, NarrowBits, Fixed32Size, Fixed64Size

VARIABLES format,     \* of the serializer object: "binary" or "json"
          op,         \* "Idle", "Parsing", "Serializing"; when deserializeMessage()
                      \* of the base class has returned true or false: "Parsed" or
                      \* "Refused"; "Serialized"
          type,       \* the type of the message of the call
          data, it,   \* the bytes to parse and the position of m_it
          state,      \* m_state of the deserializer or the serializer
          frames,     \* the recursion over messages, innermost last
          result,     \* m_result; the message after parsing
          lastError, preserveUnknownFields,
          given       \* history: the message that is serialized

vars == <<format, op, type, data, it, state, frames, result, lastError,
          preserveUnknownFields, given>>
-----------------------------------------------------------------------------
(* The property table: numFields + 1 offsets of names, the field numbers,  *)
(* the property indices and the flags, one after another.                  *)

(* A field with explicit presence has a second property behind its own, so *)
(* has a repeated message.                                                 *)
HasSecondProperty(field) ==
    "ExplicitPresence" \in field.flags \/ {"Message", "Repeated"} \subseteq field.flags

PropertyIndexOf(fields, i) ==
    i - 1 + Cardinality({k \in 1 .. i - 1 : HasSecondProperty(fields[k])})

Build(fields) ==
    LET n == Len(fields)
        names == [i \in 1 .. n + 1 |-> 1 + i]
        numbers == [i \in 1 .. n |-> fields[i].number]
        indices == [i \in 1 .. n |-> PropertyIndexOf(fields, i)]
        flags == [i \in 1 .. n |-> fields[i].flags]
    IN  [numFields |-> n, fieldNumberOffset |-> n + 1,
         propertyIndexOffset |-> 2 * n + 1, flagsOffset |-> 3 * n + 1,
         uint |-> names \o numbers \o indices \o flags]

Ordering == [t \in DOMAIN Types |-> Build(Types[t])]

uint_dataForIndex(t, index, offset) == Ordering[t].uint[offset + index + 1]
fieldNumber(t, index) == uint_dataForIndex(t, index, Ordering[t].fieldNumberOffset)
propertyIndex(t, index) == uint_dataForIndex(t, index, Ordering[t].propertyIndexOffset)
fieldFlags(t, index) == uint_dataForIndex(t, index, Ordering[t].flagsOffset)
fieldCount(t) == Ordering[t].numFields

None == -1
indexOfFieldNumber(t, number) ==
    LET found == {i \in 0 .. fieldCount(t) - 1 : fieldNumber(t, i) = number}
    IN  IF found = {} THEN None ELSE CHOOSE i \in found : \A k \in found : i <= k

Kind(t, index) == Types[t][index + 1].kind
TypeOf(t, index) == Types[t][index + 1].type
Flagged(t, index, flag) == flag \in fieldFlags(t, index)
-----------------------------------------------------------------------------
(* Messages: the properties by index, and the unknown fields.  A property  *)
(* with explicit presence is a set of at most one value; a map is a set of *)
(* entries.                                                                *)

DefaultOf(field) ==
    CASE "ExplicitPresence" \in field.flags -> {}
      [] field.kind = "map" -> {}
      [] field.kind \in {"bytes", "list", "enums", "messages"} -> <<>>
      [] field.kind = "bool" -> FALSE
      [] field.kind = "double" -> <<"integer", 0>>
      [] field.kind = "string" -> <<"text", 0>>
      [] OTHER -> 0

Default == [t \in DOMAIN Types |->
    [type |-> t, unknown |-> <<>>,
     props |-> [p \in {PropertyIndexOf(Types[t], i) : i \in DOMAIN Types[t]} |->
        LET i == CHOOSE k \in DOMAIN Types[t] : PropertyIndexOf(Types[t], k) = p
        IN  DefaultOf(Types[t][i])]]]

New(t) == Default[t]

TheOnly(s) == CHOOSE v \in s : TRUE

(* messageProperty() for writing: {} when there is no value.               *)
messageProperty(m, index) ==
    LET p == m.props[propertyIndex(m.type, index)]
    IN  IF Flagged(m.type, index, "ExplicitPresence") THEN p ELSE {p}

(* messageProperty() with allowInitialize: a value in any case, for a      *)
(* message that is absent a new one.                                       *)
InitialValue(m, index) ==
    LET p == messageProperty(m, index)
    IN  IF p # {} THEN TheOnly(p)
        ELSE IF Kind(m.type, index) \in {"message", "handled"}
        THEN New(TypeOf(m.type, index))
        ELSE DefaultOf([Types[m.type][index + 1] EXCEPT !.flags = {}])

setMessageProperty(m, index, v) ==
    [m EXCEPT !.props[propertyIndex(m.type, index)] =
        IF Flagged(m.type, index, "ExplicitPresence") THEN {v} ELSE v]

storeUnknownEntry(m, number, raw) ==
    [m EXCEPT !.unknown = Append(@, <<number, raw>>)]
-----------------------------------------------------------------------------
(* Scalars. *)

Varint == 0
Fixed64 == 1
LengthDelimited == 2
Fixed32 == 5
WireTypes == {Varint, Fixed64, LengthDelimited, Fixed32}

Signed(u, bits) == IF u >= 2 ^ (bits - 1) THEN u - 2 ^ bits ELSE u

serializeVarint[v \in Nat] ==
    IF v < 128 THEN <<v>> ELSE <<128 + (v % 128)>> \o serializeVarint[v \div 128]

prependLengthDelimitedSize(bytes) == serializeVarint[Len(bytes)] \o bytes

ZigZag(v) == IF v >= 0 THEN 2 * v ELSE -2 * v - 1
UnZigZag(u) == IF u % 2 = 0 THEN u \div 2 ELSE -((u + 1) \div 2)

serializeBasic(kind, v) ==
    CASE kind = "uint" -> serializeVarint[v]
      [] kind \in {"int", "enum"} -> serializeVarint[v % 2 ^ WideBits]
      [] kind = "sint" -> serializeVarint[ZigZag(v) % 2 ^ NarrowBits]
      [] kind = "fixed" -> [i \in 1 .. Fixed32Size |-> (v \div 256 ^ (i - 1)) % 256]
      [] kind = "bytes" -> prependLengthDelimitedSize(v)

WireTypeOf(kind) == CASE kind \in {"uint", "int", "sint", "enum"} -> Varint
                      [] kind = "fixed" -> Fixed32
                      [] OTHER -> LengthDelimited

encodeHeader(number, wireType) == serializeVarint[number * 8 + wireType]

(* Reading at an offset: whether it succeeds, where m_it is then, and the  *)
(* value.  A varint without an end is read to the end of the data.         *)
bytesLeft(o) == IF o <= Len(data) THEN Len(data) - o ELSE 0
Failed(o) == [ok |-> FALSE, it |-> o, value |-> 0]
Read(o, v) == [ok |-> TRUE, it |-> o, value |-> v]

VarintEnds(from, to) == {k \in from + 1 .. to : data[k] < 128}
Number(from, to) ==
    FoldRight(LAMBDA byte, rest : (byte % 128) + 128 * rest,
              SubSeq(data, from + 1, to), 0) % 2 ^ WideBits

deserializeVarintCommon(o) ==
    LET ends == VarintEnds(o, Len(data))
        end == CHOOSE k \in ends : \A l \in ends : k <= l
    IN  IF ends = {} THEN Failed(Len(data)) ELSE Read(end, Number(o, end))

deserializeLengthDelimited(o) ==
    LET length == deserializeVarintCommon(o)
    IN  IF ~length.ok THEN length
        ELSE IF bytesLeft(length.it) < length.value THEN Failed(length.it)
        ELSE Read(length.it + length.value,
                  SubSeq(data, length.it + 1, length.it + length.value))

Converted(kind, u) ==
    CASE kind = "uint" -> u
      [] kind = "int" -> Signed(u % 2 ^ NarrowBits, NarrowBits)
      [] kind = "enum" -> Signed(u, WideBits)
      [] kind = "sint" -> UnZigZag(u % 2 ^ NarrowBits)

deserializeFixed(o) ==
    IF bytesLeft(o) < Fixed32Size THEN Failed(o)
    ELSE Read(o + Fixed32Size,
              FoldRight(LAMBDA byte, rest : byte + 256 * rest,
                        SubSeq(data, o + 1, o + Fixed32Size), 0))

ConvertedResult(kind, r) == IF r.ok THEN [r EXCEPT !.value = Converted(kind, @)] ELSE r

deserializeBasic(kind, o) ==
    CASE kind = "fixed" -> deserializeFixed(o)
      [] kind = "bytes" -> deserializeLengthDelimited(o)
      [] OTHER -> ConvertedResult(kind, deserializeVarintCommon(o))

(* A packed list: elements are read until m_it is where the list ends; an  *)
(* element that goes beyond it is followed by others up to the end of the  *)
(* data.                                                                   *)
ElementKind(kind) == IF kind = "enums" THEN "enum" ELSE "uint"

Elements(kind, first, end) ==
    [i \in DOMAIN end |->
        Converted(ElementKind(kind), Number(IF i = 1 THEN first ELSE end[i - 1], end[i]))]

ListFrom(kind, count, last) ==
    IF ~count.ok THEN count
    ELSE IF last > Len(data) THEN Failed(count.it)
    ELSE IF count.value > 0 /\ last \notin VarintEnds(count.it, last) THEN Failed(Len(data))
    ELSE Read(last, Elements(kind, count.it, SetToSortSeq(VarintEnds(count.it, last), <)))

deserializeList(kind, o) ==
    LET count == deserializeVarintCommon(o) IN ListFrom(kind, count, count.it + count.value)

(* A list that is not packed: its element is appended to the value.        *)
deserializeNonPackedList(kind, o, previous) ==
    LET element == deserializeBasic(ElementKind(kind), o)
    IN  IF element.ok THEN Read(element.it, Append(previous, element.value)) ELSE element

(* deserializeScalarField() and deserializeEnum(): the wire type selects   *)
(* the form of a list, and has to fit a scalar; that of an enum is not     *)
(* looked at.                                                              *)
deserializeField(kind, wireType, o, previous) ==
    CASE kind = "enum" -> deserializeBasic(kind, o)
      [] kind \in {"list", "enums"} /\ wireType = LengthDelimited -> deserializeList(kind, o)
      [] kind \in {"list", "enums"} /\ wireType = Varint ->
             deserializeNonPackedList(kind, o, previous)
      [] kind \in {"uint", "int", "sint", "fixed", "bytes"} /\ wireType = WireTypeOf(kind) ->
             deserializeBasic(kind, o)
      [] OTHER -> Failed(o)

FieldError(kind, wireType) ==
    IF kind \in {"enum", "enums"} THEN "UnknownType"
    ELSE IF \/ kind = "list" /\ wireType \notin {LengthDelimited, Varint}
            \/ kind # "list" /\ wireType # WireTypeOf(kind)
    THEN "InvalidHeader"
    ELSE "UnexpectedEndOfStream"
-----------------------------------------------------------------------------
(* Parsing. *)

Frame(m) == [msg |-> m, cachedIndex |-> None, cached |-> 0, seen |-> {}]
Top == Last(frames)

(* storeCachedValue(). *)
Stored(f) == IF f.cachedIndex = None THEN f.msg
             ELSE setMessageProperty(f.msg, f.cachedIndex, f.cached)

(* The frame that is about to read a field: what is cached of another one  *)
(* is stored first.                                                        *)
At(f, index) ==
    IF f.cachedIndex = index THEN [f EXCEPT !.seen = @ \cup {index}]
    ELSE [msg |-> Stored(f), cachedIndex |-> index,
          cached |-> InitialValue(f.msg, index), seen |-> f.seen \cup {index}]

(* What the field gets when the message it holds has been parsed.          *)
Delivered(f, m) ==
    LET kind == Kind(f.msg.type, f.cachedIndex)
    IN  [f EXCEPT !.cached =
            CASE kind = "messages" -> Append(@, m)
              [] kind = "map" -> {e \in @ : e.props[0] # m.props[0]} \cup {m}
              [] OTHER -> m]

IsHandled(f) == f.cachedIndex # None /\ Kind(f.msg.type, f.cachedIndex) = "handled"

(* A message is done: it goes into the field of the frame around it.       *)
Return(rest, m) ==
    IF rest = <<>>
    THEN op' = "Parsed" /\ result' = m /\ frames' = <<>>
    ELSE /\ frames' = Front(rest) \o <<Delivered(Last(rest), m)>>
         /\ UNCHANGED <<op, result>>

(* Every deserializeMessage() on the stack returns false, up to a handler  *)
(* of a custom type, which ignores it.  Nobody looks at the message that   *)
(* is left partly filled; a new one stands for it.                         *)
Unwind(fs) ==
    LET handled == {k \in 1 .. Len(fs) - 1 : IsHandled(fs[k])}
        k == CHOOSE h \in handled : \A g \in handled : g <= h
    IN  IF handled = {} THEN op' = "Refused" /\ result' = New(type) /\ frames' = <<>>
        ELSE Return(SubSeq(fs, 1, k), Stored(fs[k + 1]))

Missing(f) ==
    {i \in 0 .. fieldCount(f.msg.type) - 1 :
        Flagged(f.msg.type, i, "Required") /\ i \notin f.seen}

(* The loop over the fields has ended: checkRequiredFields() looks only if *)
(* there is no error yet.                                                  *)
End(error) ==
    IF error = "None" /\ Missing(Top) # {}
    THEN lastError' = "InvalidFormat" /\ Unwind(frames)
    ELSE lastError' = error /\ Return(Front(frames), Stored(Top))

(* skipField(): Len(data) + 1 stands for every invalid position.           *)
Skipped(wireType, o) ==
    LET v == deserializeVarintCommon(o)
        to == CASE wireType = Varint -> IF v.ok THEN v.it ELSE Len(data) + 1
                [] wireType = Fixed32 -> o + Fixed32Size
                [] wireType = Fixed64 -> o + Fixed64Size
                [] wireType = LengthDelimited ->
                       IF v.ok THEN v.it + v.value ELSE Len(data) + 1
    IN  IF to > Len(data) THEN Len(data) + 1 ELSE to

Unchanged == UNCHANGED <<format, type, data, preserveUnknownFields, given>>

(* nextFieldIndex() finds the end of the message. *)
SlipAtEnd == it >= Last(state)
AtEnd == it = Last(state)

EndOfMessage ==
    /\ format = "binary" /\ op = "Parsing"
    /\ it > Len(data) \/ AtEnd
    /\ state' = Front(state)
    /\ End(IF it > Len(data) THEN "UnexpectedEndOfStream" ELSE lastError)
    /\ UNCHANGED it
    /\ Unchanged

Header(h) ==
    [ok |-> h.ok /\ h.value \div 8 > 0 /\ h.value % 8 \in WireTypes, it |-> h.it,
     number |-> h.value \div 8, wireType |-> h.value % 8]
decodeHeader(o) == Header(deserializeVarintCommon(o))

(* nextFieldIndex() fails: the end of the message stays on the stack.      *)
Fails(error, o) == it' = o /\ End(error) /\ UNCHANGED state

(* An unknown field is kept and re-emitted later. *)
KeepUnknown(number, raw) ==
    frames' = IF preserveUnknownFields
              THEN Front(frames) \o <<[Top EXCEPT !.msg = storeUnknownEntry(@, number, raw)]>>
              ELSE frames

UnknownField(h) ==
    LET to == Skipped(h.wireType, h.it)
    IN  IF to > Len(data) THEN Fails("UnexpectedEndOfStream", to)
        ELSE /\ it' = to
             /\ KeepUnknown(h.number, SubSeq(data, it + 1, to))
             /\ UNCHANGED <<op, state, result, lastError>>

(* A field with a message or a map entry, whatever its wire type: its end  *)
(* is pushed and its content is parsed next.  A message goes on where an   *)
(* earlier occurrence of the field ended; an element, a map entry and what *)
(* a handler of a custom type parses begin as new ones.                    *)
MessageField(f, index, length) ==
    LET inner == IF Kind(f.msg.type, index) = "message"
                 THEN f.cached ELSE New(TypeOf(f.msg.type, index))
    IN  IF ~length.ok \/ bytesLeft(length.it) < length.value
        THEN Fails("UnexpectedEndOfStream", length.it)
        ELSE /\ it' = length.it
             /\ state' = Append(state, length.it + length.value)
             /\ frames' = Front(frames) \o <<f, Frame(inner)>>
             /\ UNCHANGED <<op, result, lastError>>

ScalarField(f, kind, wireType, r) ==
    /\ it' = r.it
    /\ IF r.ok
       THEN /\ frames' = Front(frames) \o <<[f EXCEPT !.cached = r.value]>>
            /\ UNCHANGED <<op, result, lastError>>
       ELSE /\ lastError' = FieldError(kind, wireType)
            /\ Unwind(Front(frames) \o <<f>>)
    /\ UNCHANGED state

KnownField(f, index, h) ==
    LET kind == Kind(f.msg.type, index)
    IN  IF \E flag \in {"Message", "Map"} : Flagged(f.msg.type, index, flag)
        THEN MessageField(f, index, deserializeVarintCommon(h.it))
        ELSE ScalarField(f, kind, h.wireType, deserializeField(kind, h.wireType, h.it, f.cached))

FieldAfter(index, h) ==
    IF ~h.ok THEN Fails("InvalidHeader", h.it)
    ELSE IF index = None THEN UnknownField(h)
    ELSE KnownField(At(Top, index), index, h)

NextField ==
    /\ format = "binary" /\ op = "Parsing"
    /\ it <= Len(data) /\ ~AtEnd
    /\ LET h == decodeHeader(it)
       IN  FieldAfter(indexOfFieldNumber(Top.msg.type, h.number), h)
    /\ Unchanged
-----------------------------------------------------------------------------
(* Writing. *)

WritingFrame(m) == [msg |-> m, index |-> 0, done |-> 0, default |-> FALSE]

mustSerializeDefaultValue(flags) == flags \cap {"Oneof", "Optional", "Required"} # {}
isPresent(kind, v) == IF kind = "bytes" THEN v # <<>> ELSE v # 0

(* What a scalar, an enum or a list of them becomes. *)
NonPacked(kind, header, list) ==
    FlattenSeq([i \in DOMAIN list |-> header \o serializeBasic(ElementKind(kind), list[i])])

Packed(kind, list) ==
    prependLengthDelimitedSize(
        FlattenSeq([i \in DOMAIN list |-> serializeBasic(ElementKind(kind), list[i])]))

Written(t, index, v) ==
    LET kind == Kind(t, index)
        header == encodeHeader(fieldNumber(t, index), WireTypeOf(kind))
    IN  IF kind \in {"list", "enums"}
        THEN IF v = <<>> THEN <<>>
             ELSE IF Flagged(t, index, "NonPacked")
             THEN NonPacked(kind, encodeHeader(fieldNumber(t, index), Varint), v)
             ELSE header \o Packed(kind, v)
        ELSE IF isPresent(kind, v) \/ mustSerializeDefaultValue(fieldFlags(t, index))
        THEN header \o serializeBasic(kind, v) ELSE <<>>

(* serializeUnknownFields(): all entries of one number after another; the  *)
(* order of the numbers is that of a hash, here the one of their arrival.  *)
Unknown(m) ==
    IF preserveUnknownFields
    THEN FlattenSeq([i \in DOMAIN m.unknown |-> m.unknown[i][2]])
    ELSE <<>>

Advance(f) == [f EXCEPT !.index = @ + 1, !.done = 0]

(* The messages of the field that are written one after another: none for  *)
(* a scalar.  A required message that is absent is written as a new one,   *)
(* unless the required fields form a cycle.                                *)
SlipDefaultTypes == {}
DefaultTypes == {frames[k].msg.type : k \in {j \in DOMAIN frames : frames[j].default}}

Nested(m, index) ==
    LET kind == Kind(m.type, index)
        v == messageProperty(m, index)
    IN  CASE kind \in {"message", "handled"} /\ v # {} -> <<WritingFrame(TheOnly(v))>>
          [] /\ kind = "message" /\ v = {} /\ Flagged(m.type, index, "Required")
             /\ TypeOf(m.type, index) \notin DefaultTypes ->
                 <<[WritingFrame(New(TypeOf(m.type, index))) EXCEPT !.default = TRUE]>>
          [] kind \in {"messages"} ->
                 [i \in DOMAIN TheOnly(v) |-> WritingFrame(TheOnly(v)[i])]
          [] kind = "map" ->
                 LET entries == SetToSeq(TheOnly(v))
                 IN  [i \in DOMAIN entries |-> WritingFrame(entries[i])]
          [] OTHER -> <<>>

IsMessageKind(kind) == kind \in {"message", "handled", "messages", "map"}

\* serializeMessageFieldBegin()
BeginNested(inner) ==
    /\ frames' = Front(frames) \o <<[Top EXCEPT !.done = @ + 1], inner>>
    /\ state' = Append(state, result)
    /\ result' = <<>>

WriteProperty(t, index, v) ==
    /\ frames' = Front(frames) \o <<Advance(Top)>>
    /\ result' = IF IsMessageKind(Kind(t, index)) \/ v = {} THEN result
                 ELSE result \o Written(t, index, TheOnly(v))
    /\ UNCHANGED state

WriteNext(m, index, nested) ==
    IF Top.done < Len(nested) THEN BeginNested(nested[Top.done + 1])
    ELSE WriteProperty(m.type, index, messageProperty(m, index))

WriteField ==
    /\ format = "binary" /\ op = "Serializing"
    /\ Top.index < fieldCount(Top.msg.type)
    /\ WriteNext(Top.msg, Top.index, Nested(Top.msg, Top.index))
    /\ UNCHANGED <<op, it, lastError>>
    /\ Unchanged

(* serializeMessageFieldEnd(), and the end of serializeMessage(): the      *)
(* stacks are reset.                                                       *)
EndOfWriting ==
    LET bytes == result \o Unknown(Top.msg)
        parent == frames[Len(frames) - 1]
        number == fieldNumber(parent.msg.type, parent.index)
    IN  /\ format = "binary" /\ op = "Serializing"
        /\ Top.index = fieldCount(Top.msg.type)
        /\ frames' = Front(frames)
        /\ IF Len(frames) = 1
           THEN op' = "Serialized" /\ result' = bytes /\ state' = <<>>
           ELSE /\ result' = Last(state) \o encodeHeader(number, LengthDelimited)
                                         \o prependLengthDelimitedSize(bytes)
                /\ state' = Front(state)
                /\ UNCHANGED op
        /\ UNCHANGED <<it, lastError>>
        /\ Unchanged
-----------------------------------------------------------------------------
(* The calls. *)

Init == /\ format = "binary"
        /\ op = "Idle"
        /\ type \in DOMAIN Inputs
        /\ data = <<>> /\ it = 0
        /\ state = <<>> /\ frames = <<>> /\ result = <<>>
        /\ lastError = "UnknownType"
        /\ preserveUnknownFields \in Preserving
        /\ given = <<>>

(* The limit on the input: the object's own, or that of the environment    *)
(* unless it is nonsense, or that of the format.                           *)
clampMaximumInputSize(size) == IF size > SizeLimit THEN SizeLimit ELSE size

readEnvMaximumInputSize ==
    {clampMaximumInputSize(size) : size \in {n \in EnvMaximumInputSize : n >= 0}}

effectiveMaximumInputSize ==
    CASE MaximumInputSize # {} -> clampMaximumInputSize(TheOnly(MaximumInputSize))
      [] MaximumInputSize = {} /\ readEnvMaximumInputSize # {} -> TheOnly(readEnvMaximumInputSize)
      [] OTHER -> SizeLimit

(* deserialize(): the message is made new, and is not touched if there is  *)
(* too much input.                                                         *)
Deserialize(bytes) ==
    /\ op = "Idle"
    /\ data' = bytes
    /\ IF Len(bytes) > effectiveMaximumInputSize
       THEN /\ op' = "Refused" /\ result' = New(type) /\ lastError' = "MessageTooLarge"
            /\ UNCHANGED <<state, frames>>
       ELSE /\ op' = "Parsing" /\ lastError' = "None"
            /\ state' = <<Len(bytes)>>
            /\ frames' = <<Frame(New(type))>>
            /\ result' = <<>>
    /\ UNCHANGED <<format, type, it, preserveUnknownFields, given>>

(* serialize(), of a message that was parsed or that the user has built.   *)
Serialize(m) ==
    /\ op' = "Serializing"
    /\ lastError' = "None"
    /\ state' = <<>>
    /\ frames' = <<WritingFrame(m)>>
    /\ result' = <<>>
    /\ given' = m
    /\ UNCHANGED <<format, type, it, data, preserveUnknownFields>>

(* The call has returned: reset() at its end.  The user is done with what  *)
(* it returned and uses the serializer again.                              *)
Reuse ==
    /\ op \in {"Parsed", "Refused", "Serialized"}
    /\ op' = "Idle"
    /\ data' = <<>> /\ it' = 0
    /\ state' = <<>> /\ result' = <<>> /\ given' = <<>>
    /\ UNCHANGED <<format, type, frames, lastError, preserveUnknownFields>>

(* The user writes a message built by hand, or the one just parsed.        *)
Write ==
    \/ op = "Idle" /\ \E m \in Messages[type] : Serialize(m)
    \/ op = "Parsed" /\ lastError = "None" /\ Serialize(result)

Next ==
    \/ format = "binary" /\ op = "Idle" /\ \E bytes \in Inputs[type] : Deserialize(bytes)
    \/ Write
    \/ NextField
    \/ EndOfMessage
    \/ WriteField
    \/ EndOfWriting
    \/ Reuse

Spec == Init /\ [][Next]_vars
-----------------------------------------------------------------------------
(* The properties; those that need the format's definition are in          *)
(* WireMeaning.                                                            *)

(* The stacks beside the recursion: m_state.last() and pop_back() always   *)
(* find something, also after errors that leave ends on the stack; when a  *)
(* call succeeds every end has been reached, and every partial result has  *)
(* been taken back.  The recursion into required messages that are absent  *)
(* ends even if they require each other (m_defaultMessageTypes).           *)
StacksBalanced ==
    /\ op = "Parsing" => frames # <<>> /\ Len(state) >= Len(frames)
    /\ op = "Serializing" =>
        /\ Len(state) = Len(frames) - 1
        /\ \A j, k \in DOMAIN frames :
              j # k /\ frames[j].default /\ frames[k].default =>
                  frames[j].msg.type # frames[k].msg.type
    /\ op = "Parsed" /\ lastError = "None" => state = <<>>
=============================================================================
