---------------------------- MODULE JsonMeaning ----------------------------
(***************************************************************************)
(* What a JSON document means as a message, independently of how it is     *)
(* taken apart: every field has the value of its key, at any nesting, and  *)
(* a document is accepted as a whole or not at all.                        *)
(*                                                                         *)
(* As in the code, a negative number for an unsigned field of 64 bits is   *)
(* turned around, and an empty array is no list of scalars.                *)
(***************************************************************************)
EXTENDS JsonFormat, WireMeaning

(* The value a scalar stands for, as a set; {} if it stands for none.      *)
IntegerForms == {"digits", "integer", "real"}
ScalarReading(kind, v) ==
    LET form == v[1]
    IN  CASE kind \in {"int", "sint", "fixed"} /\ form \in IntegerForms ->
                 {v[2]} \cap Limits(kind)
          [] kind = "uint" /\ form = "integer" -> {v[2] % 2 ^ WideBits}
          [] kind = "uint" /\ form \in {"digits", "real"} -> {v[2]} \cap Limits(kind)
          [] kind = "double" /\ form \in IntegerForms -> {<<"integer", v[2]>>}
          [] kind = "double" /\ form \in {"fraction", "special"} -> {v}
          [] kind = "bool" /\ form \in {"bool", "boolean"} -> {v[2]}
          [] kind = "string" /\ form \in StringForms -> {v}
          [] kind = "bytes" /\ form = "base64" -> {v[2]}
          [] kind = "enum" /\ form \in {"enum", "integer", "real"} -> {v[2]}
          [] OTHER -> {}

(* What all of several readings stand for, if each stands for something.   *)
AllOf(readings) ==
    IF \E k \in DOMAIN readings : readings[k] = {} THEN {}
    ELSE {[k \in DOMAIN readings |-> TheOnly(readings[k])]}

ElementReading(kind, v) ==
    IF kind = "list" THEN ScalarReading("uint", v)
    ELSE IF Is(v, "enum") THEN {v[2]} ELSE {}

ArrayReading(kind, v) ==
    IF ~Is(v, "array") \/ v[2] = <<>> THEN {}
    ELSE AllOf([i \in DOMAIN v[2] |-> ElementReading(kind, v[2][i])])

(* The time in nanoseconds.  A timestamp has no more than milliseconds.    *)
TimeOf(m) == m.props[0] * 10 ^ NanoDigits + m.props[1]

(* A timestamp or a duration: its seconds and nanoseconds have one sign.   *)
Time(t, n) == WithTime(New(t), Quotient(n, 10 ^ NanoDigits), Remainder(n, 10 ^ NanoDigits))

TimeReading(t, v) ==
    LET digits == v[2][3]
        ns == [i \in DOMAIN digits |-> digits[i] * 10 ^ (NanoDigits - i)]
        size == v[2][2] * 10 ^ NanoDigits + FoldLeft(LAMBDA a, b : a + b, 0, ns)
    IN  CASE t = "Timestamp" /\ Is(v, "timestamp") -> {Time(t, v[2] * 10 ^ (NanoDigits - MilliDigits))}
          [] t = "Duration" /\ Is(v, "duration") ->
                 IF v[2][2] > MaxSeconds \/ Len(digits) > NanoDigits THEN {}
                 ELSE {Time(t, IF v[2][1] THEN -size ELSE size)}
          [] OTHER -> {}

(* The value of a field, in an object with these members.                  *)
Given(members, number) ==
    IF <<"name", number>> \in DOMAIN members THEN members[<<"name", number>>]
    ELSE IF <<"snake", number>> \in DOMAIN members THEN members[<<"snake", number>>]
    ELSE JsonNull

(* A member of the object of a map is an entry.                            *)
EntryObject(key, v) == Object(<<"name", 1>> :> key @@ <<"name", 2>> :> v)

RECURSIVE JsonReading(_, _)
JsonReadings(t, vs) == AllOf([k \in DOMAIN vs |-> JsonReading(t, vs[k])])

ValueReading(field, g) ==
    CASE field.kind = "message" -> JsonReading(field.type, g)
      [] field.kind = "messages" ->
             IF Is(g, "array") THEN JsonReadings(field.type, g[2]) ELSE {}
      [] field.kind = "map" ->
             IF Is(g, "object")
             THEN {{entries[k] : k \in DOMAIN entries} : entries \in
                      JsonReadings(field.type, [k \in DOMAIN g[2] |-> EntryObject(k, g[2][k])])}
             ELSE {}
      [] field.kind \in {"list", "enums"} -> ArrayReading(field.kind, g)
      [] OTHER -> ScalarReading(field.kind, g)

PropertyReading(field, g) ==
    IF g = JsonNull THEN {DefaultOf(field)}
    ELSE {IF "ExplicitPresence" \in field.flags THEN {x} ELSE x : x \in ValueReading(field, g)}

ObjectReading(t, slot, properties) ==
    {[type |-> t, unknown |-> <<>>,
      props |-> [p \in {slot[i] : i \in DOMAIN slot} |->
                    values[CHOOSE i \in DOMAIN slot : slot[i] = p]]] : values \in AllOf(properties)}

StringReading(t, v) ==
    CASE t \in CustomSerializers -> TimeReading(t, v)
      [] t \in Wrappers ->
             {setMessageProperty(New(t), 0, w) : w \in ScalarReading(Types[t][1].kind, v)}
      [] OTHER -> {}

(* The message a document stands for, as a set; {} if it stands for none.  *)
JsonReading(t, v) ==
    IF Is(v, "object")
    THEN ObjectReading(t, Slots(t),
                       [i \in DOMAIN Types[t] |->
                           PropertyReading(Types[t][i], Given(v[2], Types[t][i].number))])
    ELSE StringReading(t, v)

(* A message with its timestamps as points in time; a value of an enum     *)
(* that has no name is not written.                                        *)
RECURSIVE Normal(_)
Normal(m) ==
    LET InField(i, v) ==
            CASE Types[m.type][i].kind = "message" -> {Normal(x) : x \in v}
              [] Types[m.type][i].kind = "messages" -> [k \in DOMAIN v |-> Normal(v[k])]
              [] Types[m.type][i].kind = "map" -> {Normal(x) : x \in v}
              [] Types[m.type][i].kind = "enum" -> IF v \in Enumerators THEN v ELSE 0
              [] OTHER -> v
    IN  IF m.type \in CustomSerializers THEN <<m.type, TimeOf(m)>>
        ELSE <<m.type, [i \in DOMAIN Types[m.type] |->
                           InField(i, m.props[PropertyIndexOf(Types[m.type], i)])]>>

(* Exactly the documents that make sense are accepted without an error,    *)
(* whatever was parsed before with the same object, and no entry is lost,  *)
(* taken twice or attributed to another message, although elements are     *)
(* taken out of objects that are on a stack beside the recursion and an    *)
(* error leaves objects on it.                                             *)
JsonMeaningExact ==
    format = "json" /\ op \in {"Parsed", "Refused"} =>
        LET accepted == op = "Parsed" /\ lastError = "None"
        IN  accepted \/ Is(data, "object") =>
                JsonReading(type, data) = IF accepted THEN {result} ELSE {}

(* In either format exactly the well-formed inputs are accepted, and the   *)
(* message that deserializeMessage() fills means what the input means: no  *)
(* field is lost, read twice or given to another message.  The bytes that  *)
(* serializeMessage() writes mean the message that was written.            *)
MeaningExact == WireMeaningExact /\ JsonMeaningExact

(* A message that is written as JSON and parsed again is the same.         *)
RoundTrips ==
    format = "json" /\ op \in {"Parsed", "Refused"} /\ given # <<>> =>
        op = "Parsed" /\ lastError = "None" /\ Normal(result) = Normal(given)
=============================================================================
