------------------------------ MODULE QtTypes ------------------------------
(***************************************************************************)
(* Fields of Qt's own value types.  A handler converts a value to a        *)
(* generated message when it is written and back when it is read.  The     *)
(* value of a type is a tuple of small numbers, or one of the values that  *)
(* Qt calls null, invalid or empty; arguments of equal names are those of  *)
(* the generated messages, in the order of their fields.                   *)
(***************************************************************************)
EXTENDS TypeRegistry

VARIABLE field   \* a field of a Qt type, the message on its way and the field it is read into

NoField == [phase |-> "none"]

CoreTypes == {"QUrl", "QChar", "QUuid", "QTime", "QDate", "QTimeZone", "QDateTime", "QSize", "QSizeF",
              "QPoint", "QPointF", "QRect", "QRectF", "QVersionNumber"}
GuiTypes == {"QRgba64", "QColor", "QMatrix4x4", "QVector2D", "QVector3D", "QVector4D", "QTransform",
             "QQuaternion", "QImage"}
-----------------------------------------------------------------------------
(* The values.  Times are scaled: a day has DayLength milliseconds, QDate  *)
(* takes days 1 to 3, a QUuid has UuidLength bytes, an offset from UTC is  *)
(* at most MaxOffset.                                                      *)
DayLength == 4
UuidLength == 2
MaxOffset == 1
Invalid == <<>>
Coordinates(n) == [1 .. n -> {-1, 0, 1}]
Dimensions(type) == CASE type \in {"QSize", "QSizeF", "QPoint", "QPointF", "QVector2D"} -> 2
                      [] type = "QVector3D" -> 3
                      [] OTHER -> 4

Zones == {<<"TimeZone", "known">>, <<"LocalTime">>, <<"UTC">>}
         \cup {<<"OffsetFromUTC", s>> : s \in {-MaxOffset, MaxOffset}}
(* Entry r, c of a matrix is different from all others. *)
Matrix(n) == [r \in 1 .. n |-> [c \in 1 .. n |-> n * (r - 1) + c]]

Values(type) ==
    CASE type = "QUrl" -> {Invalid, <<"">>, <<"url">>}
      [] type \in {"QChar", "QRgba64"} -> {<<n>> : n \in 0 .. 2}
      [] type = "QUuid" -> [1 .. UuidLength -> {0, 1}]
      [] type = "QTime" -> {Invalid} \cup {<<n>> : n \in 0 .. DayLength - 1}
      [] type = "QDate" -> {Invalid} \cup {<<n>> : n \in 1 .. 3}
      [] type = "QTimeZone" -> {Invalid} \cup Zones
      [] type = "QDateTime" -> {Invalid} \cup {<<n, z>> : n \in -1 .. 1, z \in Zones}
      [] type = "QVersionNumber" -> UNION {[1 .. k -> {0, 1}] : k \in 0 .. 2}
      [] type = "QColor" -> {Invalid} \cup {<<spec, n>> : spec \in {"Rgb", "Hsv"}, n \in 0 .. 1}
      [] type = "QMatrix4x4" -> {Matrix(4)}
      [] type = "QTransform" -> {Matrix(3)}
      [] type = "QImage" -> {Invalid, <<"whole", FALSE>>, <<"whole", TRUE>>, <<"fractions", TRUE>>}
      [] OTHER -> Coordinates(Dimensions(type))

(* What a new message has in a field of the type. *)
Default(type) ==
    CASE type \in {"QSize", "QSizeF"} -> <<-1, -1>>
      [] type = "QQuaternion" -> <<1, 0, 0, 0>>
      [] type \in {"QChar", "QRgba64"} -> <<0>>
      [] type = "QUuid" -> [i \in 1 .. UuidLength |-> 0]
      [] type \in {"QMatrix4x4", "QTransform"} -> <<"identity">>
      [] type = "QUrl" -> <<"">>
      [] type = "QVersionNumber" -> <<>>
      [] type \in {"QTime", "QDate", "QTimeZone", "QDateTime", "QColor", "QImage"} -> Invalid
      [] OTHER -> [i \in 1 .. Dimensions(type) |-> 0]
-----------------------------------------------------------------------------
(* The functions convert(), in both directions; the empty set stands for   *)
(* std::nullopt.                                                           *)

Unless(refused, object) == IF refused THEN {} ELSE {object}

ValueToMessage(v) == Unless(v = Invalid, v)
ValueFromMessage(type, m) ==
    CASE type = "QUrl" -> Unless(m = Invalid, m)
      [] type = "QChar" -> {<<m[1] % 3>>}
      [] type = "QUuid" -> Unless(Len(m) # UuidLength, m)
      [] type = "QTime" -> Unless(m[1] \notin 0 .. DayLength - 1, m)
      [] type = "QDate" -> Unless(m[1] \notin 1 .. 3, m)

isNull(v) == \A i \in DOMAIN v : v[i] = 0
isEmpty(width, height) == width <= 0 \/ height <= 0
GeometryToMessage(type, v) ==
    CASE type \in {"QSize", "QSizeF"} -> Unless(isEmpty(v[1], v[2]), v)
      [] type \in {"QRect", "QRectF"} -> Unless(isEmpty(v[3], v[4]), v)
      [] type \in {"QPoint", "QPointF"} -> Unless(isNull(v), v)
VectorToMessage(v) == Unless(isNull(v), v)
QuaternionToMessage(v) == Unless(isNull(v), v)

(* The segments, of QVersionNumber and of its message. *)
ConvertedVersion(segments) == Unless(segments = <<>>, segments)

TimeZoneToMessage(v) ==
    Unless(v = Invalid,
           CASE v[1] = "TimeZone" -> <<"ianaId", v[2]>>
             [] v[1] \in {"LocalTime", "UTC"} -> <<"timeSpec", v[1]>>
             [] v[1] = "OffsetFromUTC" -> <<"offsetSeconds", v[2]>>)
TimeZoneFromMessage(m) ==
    CASE m[1] = "ianaId" -> Unless(m[2] = "unknown", <<"TimeZone", m[2]>>)
      [] m[1] = "timeSpec" -> {IF m[2] = "LocalTime" THEN <<"LocalTime">> ELSE <<"UTC">>}
      [] m[1] = "offsetSeconds" ->
             Unless(m[2] \notin -MaxOffset .. MaxOffset,
                    IF m[2] = 0 THEN <<"UTC">> ELSE <<"OffsetFromUTC", m[2]>>)
      [] OTHER -> {}

DateTimeToMessage(v) == IF v = Invalid THEN {} ELSE {<<v[1], z>> : z \in TimeZoneToMessage(v[2])}
DateTimeFromMessage(m) ==
    LET zone == TimeZoneFromMessage(m[2])
    IN  IF zone = {} THEN {<<m[1], <<"LocalTime">> >>} ELSE {<<m[1], z>> : z \in zone}

(* QMatrix4x4::data() has the columns one after the other; the constructor *)
(* takes the rows.                                                         *)
SlipMatrixToMessage(v) == [k \in 1 .. 16 |-> v[((k - 1) % 4) + 1][((k - 1) \div 4) + 1]]
MatrixToMessage(v) ==
    LET data == [k \in 0 .. 15 |-> v[(k % 4) + 1][(k \div 4) + 1]]
    IN  [k \in 1 .. 16 |-> data[4 * ((k - 1) % 4) + ((k - 1) \div 4)]]
FromRows(m, n) ==
    Unless(Len(m) # n * n, [r \in 1 .. n |-> [c \in 1 .. n |-> m[n * (r - 1) + c]]])
TransformToMessage(v) == [k \in 1 .. 9 |-> v[((k - 1) \div 3) + 1][((k - 1) % 3) + 1]]

(* Saving may fail; what PNG cannot hold is lost. *)
ImageToMessage(v, tiffSupported, saved) ==
    LET format == IF v[2] /\ tiffSupported THEN "tiff" ELSE "png"
    IN  Unless(v = Invalid \/ ~saved,
               <<IF format = "png" THEN "whole" ELSE v[1], v[2] /\ format = "tiff", format>>)
ImageFromMessage(m) == {IF m[1] = "garbage" THEN Invalid ELSE <<m[1], m[2]>>}

ColorToMessage(v) == Unless(v = Invalid, <<"rgba64", v[2]>>)
ColorFromMessage(m) ==
    CASE m[1] = "rgba64" -> {<<"Rgb", m[2]>>} [] m[1] = "rgba" -> {<<"Rgb", m[2]>>} [] OTHER -> {}

ToMessage(type, v) ==
    CASE type \in {"QUrl", "QTime", "QDate", "QUuid", "QChar"} -> ValueToMessage(v)
      [] type = "QTimeZone" -> TimeZoneToMessage(v)
      [] type = "QDateTime" -> DateTimeToMessage(v)
      [] type \in {"QSize", "QSizeF", "QRect", "QRectF", "QPoint", "QPointF"} -> GeometryToMessage(type, v)
      [] type = "QVersionNumber" -> ConvertedVersion(v)
      [] type = "QRgba64" -> {v}
      [] type = "QColor" -> ColorToMessage(v)
      [] type = "QMatrix4x4" -> {MatrixToMessage(v)}
      [] type = "QTransform" -> {TransformToMessage(v)}
      [] type \in {"QVector2D", "QVector3D", "QVector4D"} -> VectorToMessage(v)
      [] type = "QQuaternion" -> QuaternionToMessage(v)

FromMessage(type, m) ==
    CASE type \in {"QUrl", "QTime", "QDate", "QUuid", "QChar"} -> ValueFromMessage(type, m)
      [] type = "QTimeZone" -> TimeZoneFromMessage(m)
      [] type = "QDateTime" -> DateTimeFromMessage(m)
      [] type = "QVersionNumber" -> ConvertedVersion(m)
      [] type = "QColor" -> ColorFromMessage(m)
      [] type = "QMatrix4x4" -> FromRows(m, 4)
      [] type = "QTransform" -> FromRows(m, 3)
      [] type = "QImage" -> ImageFromMessage(m)
      [] OTHER -> {m}
-----------------------------------------------------------------------------
(* The handlers, in the registry of handlers, and the code that uses them. *)

NewField(handlers) == [phase |-> "new", handlers |-> handlers, type |-> "none", able |-> FALSE,
                       sent |-> {}, object |-> {}, read |-> {}]

InPhase(p) == field.phase = p

registerHandlers(types) ==
    /\ field.phase \in {"new", "written"}
    /\ field' = [field EXCEPT !.handlers = @ \cup types]
findHandler(type) == type \in field.handlers

registerProtobufQtCoreTypes == registerHandlers(CoreTypes)
registerProtobufQtGuiTypes == registerHandlers(GuiTypes)

(* The two functions of registerQtTypeHandler().  A value that is refused  *)
(* is not written; a message that is refused leaves the value of the field.*)
Serializer(type, v, tiffSupported, saved) ==
    IF type = "QImage" THEN ImageToMessage(v, tiffSupported, saved) ELSE ToMessage(type, v)
Deserializer(type, m, old) ==
    LET v == FromMessage(type, m) IN IF v = {} THEN old ELSE v

SerializeField(type, v) ==
    /\ InPhase("new")
    /\ \E tiffSupported, saved \in BOOLEAN :
          field' = [field EXCEPT !.phase = "written", !.type = type, !.sent = {v},
                        !.able = findHandler(type) /\ (type = "QImage" => saved),
                        !.object = IF findHandler(type) THEN Serializer(type, v, tiffSupported, saved) ELSE {},
                        !.read = {Default(type)}]

(* A peer may send what no Qt value gives. *)
Foreign(type) ==
    CASE type = "QUrl" -> {Invalid}
      [] type = "QUuid" -> {<<>>, <<1>>}
      [] type \in {"QTime", "QDate"} -> {<<-1>>, <<DayLength>>}
      [] type = "QTimeZone" -> {<<"none">>, <<"ianaId", "unknown">>, <<"offsetSeconds", 0>>,
                                <<"offsetSeconds", MaxOffset + 1>>, <<"timeSpec", "other">>}
      [] type = "QDateTime" -> {<<1, <<"none">> >>}
      [] type = "QColor" -> {<<"none">>, <<"rgba", 1>>}
      [] type \in {"QMatrix4x4", "QTransform"} -> {<<1, 2, 3>>}
      [] type = "QVersionNumber" -> {<<>>}
      [] type = "QImage" -> {<<"garbage">>}
      [] OTHER -> {}

PeerSends(type) ==
    /\ InPhase("new")
    /\ \E m \in Foreign(type) :
          field' = [field EXCEPT !.phase = "written", !.type = type, !.object = {m}, !.read = {Default(type)}]

(* Without a handler the parser stops with UnknownType. *)
DeserializeField ==
    /\ InPhase("written")
    /\ field' =
          IF field.object = {} THEN [field EXCEPT !.phase = "read"]
          ELSE IF ~findHandler(field.type) THEN [field EXCEPT !.phase = "UnknownType"]
          ELSE [field EXCEPT !.phase = "read",
                    !.read = Deserializer(field.type, CHOOSE m \in field.object : TRUE, @)]

QtNext ==
    \/ registerProtobufQtCoreTypes \/ registerProtobufQtGuiTypes \/ DeserializeField
    \/ \E type \in CoreTypes \cup GuiTypes :
          PeerSends(type) \/ \E v \in Values(type) : SerializeField(type, v)
    \/ field.phase \in {"read", "UnknownType"} /\ field' = NewField(field.handlers)

QtMessagesInit ==
    /\ MessagesInit
    /\ \/ field = NoField
       \/ field = NewField({}) /\ thread = <<>> /\ shape = CHOOSE s \in Shapes : TRUE
QtMessagesNext ==
    \/ field = NoField /\ MessagesNext /\ UNCHANGED field
    \/ field # NoField /\ QtNext /\ UNCHANGED <<vars, registryVars>>

QtMessagesSpec == QtMessagesInit /\ [][QtMessagesNext]_<<vars, registryVars, field>>
-----------------------------------------------------------------------------
(* The values that are given up: those without a meaning, and rectangles   *)
(* and points where there is nothing to see.                               *)
GivenUp(type, v) ==
    \/ v = Invalid
    \/ type \in {"QSize", "QSizeF", "QRect", "QRectF"} /\ \E i \in Len(v) - 1 .. Len(v) : v[i] < 1
    \/ type \in {"QPoint", "QPointF", "QVector2D", "QVector3D", "QVector4D", "QQuaternion"}
       /\ \A i \in DOMAIN v : v[i] = 0

(* A color comes back as RGB, and an image as far as its format holds it.  *)
Kept(type, v) ==
    IF type = "QColor" THEN <<"Rgb", v[2]>>
    ELSE IF type = "QImage" /\ \A m \in field.object : m[3] = "png" THEN <<"whole", FALSE>>
    ELSE v

(* A value of a Qt type that is written is read back, through two          *)
(* conversions that are written down apart from each other; one that was   *)
(* given up or had no handler leaves the field of the reader as it was.    *)
(* What is read from another implementation can be written, and reads the  *)
(* same.                                                                   *)
QtValuesKept ==
    InPhase("read") =>
        LET type == field.type
            read == CHOOSE v \in field.read : TRUE
        IN  /\ \A v \in field.sent :
                  field.read = {IF field.able /\ ~GivenUp(type, v) THEN Kept(type, v) ELSE Default(type)}
            /\ field.sent = {} /\ field.read # {Default(type)} /\ type # "QImage" =>
                  \E m \in ToMessage(type, read) : FromMessage(type, m) = field.read
=============================================================================
