----------------------------- MODULE JsonFormat -----------------------------
(***************************************************************************)
(* QProtobufJsonSerializer: the JSON format, on the base classes it shares *)
(* with the binary one.  The stack beside the recursion holds the JSON     *)
(* objects that are being taken apart, or put together; entries are taken  *)
(* out of an object when they are parsed.                                  *)
(*                                                                         *)
(* A JSON value is a pair of its form and its content.  There are several  *)
(* forms of strings, by what they can be converted to; the text of QJson   *)
(* and the conversions of QVariant, QDateTime and QMetaEnum are external.  *)
(* The name of a field is its number, as it is or with underscores.  A     *)
(* second has 10 ^ MilliDigits milliseconds and 10 ^ NanoDigits            *)
(* nanoseconds.                                                            *)
(***************************************************************************)
EXTENDS WireFormat

CONSTANTS JsonInputs,        \* type |-> the documents to parse
          Enumerators,       \* the values of the enum that have a name
          CustomSerializers, \* the types with a custom JSON serializer
          Wrappers,          \* the types of wrappers.proto, which have a
                             \* custom deserializer only
          NanoDigits, MilliDigits, MaxSeconds
-----------------------------------------------------------------------------
(* Values. *)

Undefined == <<"undefined", 0>>
JsonNull == <<"null", 0>>
EmptyString == <<"text", 0>>
EmptyObject == <<>>
Object(f) == <<"object", f>>

Is(v, form) == v[1] = form
StringForms == {"digits", "name", "snake", "enum", "base64", "boolean", "special",
                "duration", "timestamp", "text"}
IsString(v) == v[1] \in StringForms

EnumName(n) == IF n \in Enumerators THEN <<"enum", n>> ELSE EmptyString

(* QJsonObject::insert(): inserting an undefined value removes the key.    *)
Insert(obj, key, v) ==
    IF v = Undefined THEN [k \in DOMAIN obj \ {key} |-> obj[k]] ELSE (key :> v) @@ obj
ValueOf(obj, key) == IF key \in DOMAIN obj THEN obj[key] ELSE Undefined
-----------------------------------------------------------------------------
(* Scalars. *)

serialize(kind, v) ==
    CASE kind \in {"int", "sint", "fixed"} -> <<"integer", v>>
      [] kind = "uint" -> <<"digits", v>>
      [] kind = "double" -> v
      [] kind = "bool" -> <<"bool", v>>
      [] kind = "string" -> v
      [] kind = "bytes" -> <<"base64", v>>
      [] kind = "enum" -> EnumName(v)

serializeJsonList(kind, list) == <<"array", [i \in DOMAIN list |-> serialize(ElementKind(kind), list[i])]>>

(* serializeScalarField() and serializeEnum(): nothing for what is not     *)
(* present.  The name of an enumerator is present, whatever its value.     *)
JsonIsPresent(kind, v) ==
    CASE kind \in {"list", "enums"} -> v # <<>>
      [] kind = "enum" -> EnumName(v) # EmptyString
      [] OTHER -> v # DefaultOf([kind |-> kind, flags |-> {}])

JsonWritten(t, index, v) ==
    LET kind == Kind(t, index)
    IN  IF kind \in {"list", "enums"}
        THEN IF JsonIsPresent(kind, v) THEN serializeJsonList(kind, v) ELSE Undefined
        ELSE IF JsonIsPresent(kind, v) \/ mustSerializeDefaultValue(fieldFlags(t, index))
        THEN serialize(kind, v) ELSE Undefined

(* Reading: whether it succeeds, and the value, a default one if not.      *)
Good(v) == [ok |-> TRUE, value |-> v]
Bad(v) == [ok |-> FALSE, value |-> v]

Limits(kind) == CASE kind \in {"int", "sint"} -> -(2 ^ (NarrowBits - 1)) .. 2 ^ (NarrowBits - 1) - 1
                  [] kind = "fixed" -> 0 .. 256 ^ Fixed32Size - 1
                  [] kind = "enum" -> -(2 ^ (WideBits - 1)) .. 2 ^ (WideBits - 1) - 1
                  [] kind = "uint" -> 0 .. 2 ^ WideBits - 1

(* "real" is a number written as a floating point one that is an integer,  *)
(* "fraction" any other; digits are an optional minus sign and digits.     *)
deserializeInt(kind, v) ==
    IF v[1] \in {"digits", "integer", "real"} /\ v[2] \in Limits(kind)
    THEN Good(v[2]) ELSE Bad(0)

(* An unsigned integer of 64 bits: QVariant turns a negative one around.   *)
deserializeUInt64(v) ==
    CASE Is(v, "integer") -> Good(v[2] % 2 ^ WideBits)
      [] v[1] \in {"digits", "real"} /\ v[2] \in Limits("uint") -> Good(v[2])
      [] OTHER -> Bad(0)

deserializeFloat(v) ==
    CASE v[1] \in {"digits", "integer", "real"} -> Good(<<"integer", v[2]>>)
      [] v[1] \in {"fraction", "special"} -> Good(v)
      [] OTHER -> Bad(<<"integer", 0>>)

deserializeJson(kind, v) ==
    CASE kind \in {"int", "sint", "fixed"} -> deserializeInt(kind, v)
      [] kind = "uint" -> deserializeUInt64(v)
      [] kind = "double" -> deserializeFloat(v)
      [] kind = "bool" -> IF v[1] \in {"bool", "boolean"} THEN Good(v[2]) ELSE Bad(FALSE)
      [] kind = "string" -> IF IsString(v) THEN Good(v) ELSE Bad(EmptyString)
      [] kind = "bytes" -> IF Is(v, "base64") THEN Good(v[2]) ELSE Bad(<<>>)

(* deserializeList(): up to the first element that cannot be read; ok is   *)
(* only set by the elements.                                               *)
deserializeJsonList(kind, v) ==
    LET n == Len(v[2])
        elements == [i \in 1 .. n |-> deserializeJson(kind, v[2][i])]
        bad == {i \in 1 .. n : ~elements[i].ok}
        end == IF bad = {} THEN n ELSE (CHOOSE i \in bad : \A k \in bad : i <= k) - 1
    IN  IF ~Is(v, "array") THEN Bad(<<>>)
        ELSE [ok |-> n > 0 /\ bad = {}, value |-> [i \in 1 .. end |-> elements[i].value]]

(* deserializeEnum(): a name is converted when it is stored.               *)
deserializeJsonEnum(kind, v) ==
    CASE kind = "enums" -> deserializeJsonList("string", v)
      [] kind = "enum" /\ IsString(v) -> Good(v)
      [] OTHER -> LET n == deserializeInt("enum", v) IN [n EXCEPT !.value = <<"integer", @>>]

IsNamed(v) == v[1] \in {"integer", "enum"}

(* storeCachedValue(): the conversions of the property system. *)
HasEnum(f, kind) == f.cachedIndex # None /\ Kind(f.msg.type, f.cachedIndex) = kind

StoreFails(f) ==
    \/ HasEnum(f, "enum") /\ ~IsNamed(f.cached)
    \/ HasEnum(f, "enums") /\ \E i \in DOMAIN f.cached : ~IsNamed(f.cached[i])

Resolved(f) ==
    CASE HasEnum(f, "enum") -> [f EXCEPT !.cached = @[2]]
      [] HasEnum(f, "enums") -> [f EXCEPT !.cached = [i \in DOMAIN @ |-> @[i][2]]]
      [] OTHER -> f
-----------------------------------------------------------------------------
(* The custom handlers of the well-known types. *)

Quotient(a, b) == IF a >= 0 THEN a \div b ELSE -((-a) \div b)
Remainder(a, b) == a - b * Quotient(a, b)
Abs(a) == IF a < 0 THEN -a ELSE a

Seconds(m) == m.props[0]
Nanos(m) == m.props[1]
WithTime(m, seconds, nanos) == [m EXCEPT !.props = [@ EXCEPT ![0] = seconds, ![1] = nanos]]

(* A timestamp is written with milliseconds, and read from a date and time *)
(* with an offset.                                                         *)
serializeTimestamp(m) ==
    <<"timestamp", Seconds(m) * 10 ^ MilliDigits
                   + Quotient(Nanos(m), 10 ^ (NanoDigits - MilliDigits))>>

deserializeTimestamp(m, v) ==
    IF ~Is(v, "timestamp") THEN Bad(m)
    ELSE Good(WithTime(m, Quotient(v[2], 10 ^ MilliDigits),
                          Remainder(v[2], 10 ^ MilliDigits) * 10 ^ (NanoDigits - MilliDigits)))

(* Duration::isValid(): checkDurationRange() and checkSignMatch().         *)
isValid(seconds, nanos) ==
    /\ Abs(seconds) <= MaxSeconds
    /\ Abs(nanos) < 10 ^ NanoDigits
    /\ ~(seconds < 0 /\ nanos > 0) /\ ~(seconds > 0 /\ nanos < 0)

DigitsOf[n \in Nat] == IF n < 10 THEN <<n>> ELSE Append(DigitsOf[n \div 10], n % 10)

(* The digits behind the point: zeros as long as the multiplier is larger  *)
(* than the value, and the value without the zeros at its end.             *)
SlipFraction(nanos) ==
    LET exact == {k \in 0 .. NanoDigits - 1 : nanos % 10 ^ k = 0}
        stop == CHOOSE k \in exact : \A l \in exact : l <= k
    IN  IF nanos = 0 THEN <<>> ELSE DigitsOf[nanos \div 10 ^ stop]

Fraction(nanos) ==
    LET exact == {k \in 0 .. NanoDigits - 1 : nanos % 10 ^ k = 0}
        stop == CHOOSE k \in exact : \A l \in exact : l <= k
        zeros == {k \in stop + 1 .. NanoDigits - 1 : nanos < 10 ^ k}
    IN  IF nanos = 0 THEN <<>>
        ELSE [i \in 1 .. Cardinality(zeros) |-> 0] \o DigitsOf[nanos \div 10 ^ stop]

serializeDuration(m) ==
    IF ~isValid(Seconds(m), Nanos(m)) THEN Undefined
    ELSE <<"duration", <<Seconds(m) < 0 \/ (Seconds(m) = 0 /\ Nanos(m) < 0),
                         Abs(Seconds(m)), Fraction(Abs(Nanos(m)))>> >>

deserializeDuration(m, v) ==
    LET sign == IF v[2][1] THEN -1 ELSE 1
        seconds == v[2][2]
        fraction == v[2][3]
        nanos == FoldLeft(LAMBDA n, digit : 10 * n + digit, 0, fraction)
    IN  IF ~Is(v, "duration") THEN Bad(m)
        ELSE IF Len(fraction) > NanoDigits \/ ~isValid(seconds, nanos) THEN Bad(m)
        ELSE Good(WithTime(m, sign * seconds, sign * nanos * 10 ^ (NanoDigits - Len(fraction))))

(* A wrapper is its value; it is changed even if the value is not valid.   *)
deserializeWrapper(m, v) ==
    LET r == deserializeJson(Kind(m.type, 0), v)
    IN  [ok |-> r.ok, value |-> setMessageProperty(m, 0, r.value)]

HasCustomDeserializer(t) == t \in CustomSerializers \cup Wrappers

CustomSerialized(m) ==
    IF m.type = "Duration" THEN serializeDuration(m) ELSE serializeTimestamp(m)

CustomDeserialized(m, v) ==
    CASE m.type = "Duration" -> deserializeDuration(m, v)
      [] m.type = "Timestamp" -> deserializeTimestamp(m, v)
      [] OTHER -> deserializeWrapper(m, v)
-----------------------------------------------------------------------------
(* Parsing. *)

JsonState(obj) == [obj |-> obj, index |-> 0]

JsonName(t, index) == <<"name", fieldNumber(t, index)>>
convertJsonKeyToJsonName(key) == IF Is(key, "snake") THEN <<"name", key[2]>> ELSE key

(* The key of the field; of two, the one equal to the name is the first.   *)
KeysOf(obj, t, index) ==
    {key \in DOMAIN obj : convertJsonKeyToJsonName(key) = JsonName(t, index)}
KeyOf(obj, t, index) ==
    IF JsonName(t, index) \in DOMAIN obj THEN JsonName(t, index)
    ELSE CHOOSE key \in KeysOf(obj, t, index) : TRUE

IsRepeatedMessage(t, index) == {"Message", "Repeated"} \subseteq fieldFlags(t, index)

(* nextFieldIndex() passes a field that has no value (any more).           *)
HasValue(obj, t, index) ==
    /\ KeysOf(obj, t, index) # {}
    /\ LET v == obj[KeyOf(obj, t, index)]
       IN  /\ v # JsonNull
           /\ ~(IsRepeatedMessage(t, index) /\ v = <<"array", <<>> >>)
           /\ ~(Flagged(t, index, "Map") /\ v = Object(EmptyObject))

FieldsLeft(t) ==
    {i \in Last(state).index .. fieldCount(t) - 1 : HasValue(Last(state).obj, t, i)}
FirstLeft(t) == CHOOSE i \in FieldsLeft(t) : \A k \in FieldsLeft(t) : i <= k

HasInvalidFormat(t, index, v) ==
    CASE IsRepeatedMessage(t, index) -> ~Is(v, "array") \/ Head(v[2]) = JsonNull
      [] Flagged(t, index, "Map") -> ~Is(v, "object")
      [] Flagged(t, index, "Message") -> Is(v, "array")
      [] OTHER -> FALSE

(* What is parsed next of a field, and what is left in the object for      *)
(* later.  The index stays at a field that may have more elements.         *)
SomeKey(obj) == CHOOSE key \in DOMAIN obj : TRUE
Element1(obj, key) == (<<"name", 1>> :> key) @@ (<<"name", 2>> :> obj[key])

NextValue(t, index, v) ==
    CASE IsRepeatedMessage(t, index) -> Head(v[2])
      [] Flagged(t, index, "Map") -> Object(Element1(v[2], SomeKey(v[2])))
      [] OTHER -> v

SlipAfterTaking(s, t, index, key, v) ==
    CASE IsRepeatedMessage(t, index) ->
             [s EXCEPT !.index = index + 1, !.obj = Insert(@, key, <<"array", Tail(v[2])>>)]
      [] Flagged(t, index, "Map") ->
             [s EXCEPT !.index = index,
                       !.obj = Insert(@, key, Object(Insert(v[2], SomeKey(v[2]), Undefined)))]
      [] OTHER -> [s EXCEPT !.index = index + 1]

AfterTaking(s, t, index, key, v) ==
    CASE IsRepeatedMessage(t, index) ->
             [s EXCEPT !.index = index, !.obj = Insert(@, key, <<"array", Tail(v[2])>>)]
      [] Flagged(t, index, "Map") ->
             [s EXCEPT !.index = index,
                       !.obj = Insert(@, key, Object(Insert(v[2], SomeKey(v[2]), Undefined)))]
      [] OTHER -> [s EXCEPT !.index = index + 1]

(* The loop over the fields has ended, with an error or without.           *)
JsonEnd(error) ==
    IF StoreFails(Top)
    THEN lastError' = "InvalidFormat" /\ Unwind(frames)
    ELSE lastError' = error /\ Return(Front(frames), Stored(Resolved(Top)))

(* A type without fields leaves the object of its message on the stack.    *)
JsonEndOfMessage ==
    /\ format = "json" /\ op = "Parsing"
    /\ FieldsLeft(Top.msg.type) = {}
    /\ state' = IF fieldCount(Top.msg.type) = 0 THEN state ELSE Front(state)
    /\ JsonEnd(lastError)
    /\ UNCHANGED it
    /\ Unchanged

(* deserializeMessageField(): an object is parsed next, anything else is   *)
(* for the custom deserializer of the type, whose failure is not reported  *)
(* as an error.                                                            *)
JsonMessageField(f, t, v, s) ==
    LET inner == IF Kind(f.msg.type, f.cachedIndex) \in {"messages", "map"} THEN New(t)
                 ELSE f.cached
        r == CustomDeserialized(inner, v)
    IN  IF Is(v, "object")
        THEN /\ state' = Append(s, JsonState(v[2]))
             /\ frames' = Front(frames) \o <<f, Frame(inner)>>
             /\ UNCHANGED <<op, result, lastError>>
        ELSE /\ state' = s
             /\ IF ~HasCustomDeserializer(t)
                THEN lastError' = "InvalidFormat" /\ Unwind(Front(frames) \o <<f, Frame(inner)>>)
                ELSE IF r.ok
                THEN /\ frames' = Front(frames) \o <<Delivered(f, r.value)>>
                     /\ UNCHANGED <<op, result, lastError>>
                ELSE /\ Unwind(Front(frames) \o <<f, Frame(inner)>>)
                     /\ UNCHANGED lastError

(* deserializeScalarField(): a value that cannot be read is an error, but  *)
(* the parser goes on, unless a list is no array.                          *)
JsonScalarField(f, v, s) ==
    LET kind == Kind(f.msg.type, f.cachedIndex)
        r == CASE kind \in {"enum", "enums"} -> deserializeJsonEnum(kind, v)
               [] kind = "list" -> deserializeJsonList("uint", v)
               [] OTHER -> deserializeJson(kind, v)
        fatal == ~r.ok /\ (kind \in {"enum", "enums"} \/ (kind = "list" /\ ~Is(v, "array")))
    IN  /\ state' = s
        /\ lastError' = IF r.ok THEN lastError
                        ELSE IF kind \in {"enum", "enums"} THEN "UnknownType" ELSE "InvalidFormat"
        /\ IF fatal THEN Unwind(Front(frames) \o <<f>>)
           ELSE /\ frames' = Front(frames) \o <<[f EXCEPT !.cached = r.value]>>
                /\ UNCHANGED <<op, result>>

JsonField(f, t, index, v, next, left) ==
    IF IsMessageKind(Kind(t, index))
    THEN JsonMessageField(f, TypeOf(t, index), next, left) ELSE JsonScalarField(f, v, left)

JsonTake(s, t, index, v, next, left) ==
    LET same == Top.cachedIndex = index
    IN  IF HasInvalidFormat(t, index, v)
        THEN /\ state' = Append(Front(state), [s EXCEPT !.index = index])
             /\ JsonEnd("InvalidFormat")
        ELSE IF ~same /\ StoreFails(Top)
        THEN /\ state' = IF IsMessageKind(Kind(t, index)) /\ Is(next, "object")
                         THEN Append(left, JsonState(next[2])) ELSE left
             /\ lastError' = "InvalidFormat" /\ Unwind(frames)
        ELSE JsonField(At(IF same THEN Top ELSE Resolved(Top), index), t, index, v, next, left)

JsonTakeKey(s, t, index, key) ==
    JsonTake(s, t, index, s.obj[key], NextValue(t, index, s.obj[key]),
             Append(Front(state), AfterTaking(s, t, index, key, s.obj[key])))

JsonNextField ==
    /\ format = "json" /\ op = "Parsing"
    /\ FieldsLeft(Top.msg.type) # {}
    /\ LET t == Top.msg.type
           index == FirstLeft(t)
       IN  JsonTakeKey(Last(state), t, index, KeyOf(Last(state).obj, t, index))
    /\ UNCHANGED it
    /\ Unchanged
-----------------------------------------------------------------------------
(* Writing. *)

(* A message that has been written goes into the object around it.         *)
Appended(obj, name, v) ==
    LET array == ValueOf(obj, name)
    IN  Insert(obj, name, <<"array", IF Is(array, "array") THEN Append(array[2], v) ELSE <<v>> >>)

IntoParent(obj, t, index, m, written) ==
    LET name == JsonName(t, index)
        map == ValueOf(obj, name)
        entries == IF Is(map, "object") THEN map[2] ELSE EmptyObject
    IN  CASE Flagged(t, index, "Repeated") -> Appended(obj, name, Object(written))
          [] Flagged(t, index, "Map") ->
                 Insert(obj, name, Object(Insert(entries, <<"digits", m.props[0]>>,
                                                 ValueOf(written, <<"name", 2>>))))
          [] OTHER -> Insert(obj, name, Object(written))

CustomIntoParent(obj, t, index, v) ==
    IF v = Undefined THEN obj
    ELSE IF Flagged(t, index, "Repeated") THEN Appended(obj, JsonName(t, index), v)
    ELSE Insert(obj, JsonName(t, index), v)

JsonBeginNested(inner) ==
    IF inner.msg.type \in CustomSerializers
    THEN /\ frames' = Front(frames) \o <<[Top EXCEPT !.done = @ + 1]>>
         /\ result' = CustomIntoParent(result, Top.msg.type, Top.index,
                                       CustomSerialized(inner.msg))
         /\ UNCHANGED state
    ELSE /\ frames' = Front(frames) \o <<[Top EXCEPT !.done = @ + 1], inner>>
         /\ state' = Append(state, result)
         /\ result' = EmptyObject

JsonWriteValue(name, w) ==
    /\ frames' = Front(frames) \o <<Advance(Top)>>
    /\ result' = IF w = Undefined THEN result ELSE Insert(result, name, w)
    /\ UNCHANGED state

JsonWriteProperty(t, index, v) ==
    JsonWriteValue(JsonName(t, index),
                   IF IsMessageKind(Kind(t, index)) \/ v = {} THEN Undefined
                   ELSE JsonWritten(t, index, TheOnly(v)))

JsonWriteNext(m, index, nested) ==
    IF Top.done < Len(nested) THEN JsonBeginNested(nested[Top.done + 1])
    ELSE JsonWriteProperty(m.type, index, messageProperty(m, index))

JsonWriteField ==
    /\ format = "json" /\ op = "Serializing"
    /\ Top.index < fieldCount(Top.msg.type)
    /\ JsonWriteNext(Top.msg, Top.index, Nested(Top.msg, Top.index))
    /\ UNCHANGED <<op, it, lastError>>
    /\ Unchanged

JsonEndOfWriting ==
    LET parent == frames[Len(frames) - 1]
    IN  /\ format = "json" /\ op = "Serializing"
        /\ Top.index = fieldCount(Top.msg.type)
        /\ frames' = Front(frames)
        /\ IF Len(frames) = 1
           THEN op' = "Serialized" /\ result' = Object(result) /\ state' = <<>>
           ELSE /\ result' = IntoParent(Last(state), parent.msg.type, parent.index,
                                        Top.msg, result)
                /\ state' = Front(state)
                /\ UNCHANGED op
        /\ UNCHANGED <<it, lastError>>
        /\ Unchanged
-----------------------------------------------------------------------------
(* The calls. *)

JsonInit == /\ format = "json"
            /\ op = "Idle"
            /\ type \in DOMAIN JsonInputs
            /\ data = <<>> /\ it = 0
            /\ state = <<>> /\ frames = <<>> /\ result = <<>>
            /\ lastError = "None"
            /\ preserveUnknownFields = FALSE
            /\ given = <<>>

(* deserializeMessage(): "unparsable" is a text that is no JSON.  An empty *)
(* object does not reach the parser.                                       *)
JsonDeserialize(doc) ==
    /\ data' = doc
    /\ LET error == CASE Is(doc, "unparsable") -> "UnexpectedEndOfStream"
                      [] Is(doc, "object") -> "None"
                      [] OTHER -> "InvalidFormat"
           done == error # "None" \/ doc = Object(EmptyObject)
       IN  /\ lastError' = error
           /\ op' = IF ~done THEN "Parsing" ELSE IF error = "None" THEN "Parsed" ELSE "Refused"
           /\ state' = IF done THEN <<>> ELSE <<JsonState(doc[2])>>
           /\ frames' = IF done THEN <<>> ELSE <<Frame(New(type))>>
           /\ result' = IF done THEN New(type) ELSE <<>>
    /\ UNCHANGED <<format, type, it, preserveUnknownFields, given>>

(* A document from elsewhere is parsed, or the one just written.           *)
ReadJson ==
    /\ format = "json"
    /\ \/ op = "Idle" /\ \E doc \in JsonInputs[type] : JsonDeserialize(doc)
       \/ op = "Serialized" /\ JsonDeserialize(result)

JsonNext == Next \/ ReadJson \/ JsonNextField \/ JsonEndOfMessage
            \/ JsonWriteField \/ JsonEndOfWriting

(* A serializer of either format. *)
SerializerSpec == (Init \/ JsonInit) /\ [][JsonNext]_vars
=============================================================================
