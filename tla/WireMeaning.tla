----------------------------- MODULE WireMeaning -----------------------------
(***************************************************************************)
(* What a byte string means in the protobuf format, independently of how   *)
(* it is parsed: a message is a sequence of fields, each within the bytes  *)
(* of the message; a scalar has the value of its last field, a message     *)
(* that of all its fields taken together, a value that a handler converts  *)
(* from a message that of the last one alone.                              *)
(*                                                                         *)
(* As in the code, the wire type of a message or an enum does not matter,  *)
(* and a packed list replaces what came before it.                         *)
(***************************************************************************)
EXTENDS WireFormat

(* The varint a string begins with: its length and value; length 0 if none.*)
Leading(s) ==
    LET ends == {k \in DOMAIN s : s[k] < 128}
        n == CHOOSE k \in ends : \A l \in ends : k <= l
        value == FoldRight(LAMBDA b, rest : (b % 128) + 128 * rest, SubSeq(s, 1, n), 0)
    IN  IF ends = {} THEN [length |-> 0, value |-> 0]
        ELSE [length |-> n, value |-> value % 2 ^ WideBits]

(* How many bytes the content of a field takes of the n bytes left, which  *)
(* begin with varint v; n + 1 if it does not fit.                          *)
Extent(kind, wireType, v, n) ==
    LET delimited == v.length + v.value
    IN  CASE v.length = 0 /\ ~(kind = "fixed" \/ wireType \in {Fixed32, Fixed64}) -> n + 1
          [] kind \in {"uint", "int", "sint"} -> IF wireType = Varint THEN v.length ELSE n + 1
          [] kind = "enum" -> IF v.length = 0 THEN n + 1 ELSE v.length
          [] kind = "fixed" -> IF wireType = Fixed32 THEN Fixed32Size ELSE n + 1
          [] kind = "bytes" -> IF wireType = LengthDelimited THEN delimited ELSE n + 1
          [] kind \in {"list", "enums"} ->
                 IF wireType = LengthDelimited THEN delimited
                 ELSE IF wireType = Varint THEN v.length ELSE n + 1
          [] kind \in {"message", "handled", "messages", "map"} ->
                 IF v.length = 0 THEN n + 1 ELSE delimited
          [] OTHER -> CASE wireType = Varint -> v.length
                        [] wireType = Fixed32 -> Fixed32Size
                        [] wireType = Fixed64 -> Fixed64Size
                        [] OTHER -> delimited

(* The fields of a message, each with its content, the varint the content  *)
(* begins with and what follows that.  What is not a field is Malformed,   *)
(* and ends the sequence.                                                  *)
Malformed == [kind |-> "malformed"]

KindOf(t, number) ==
    LET i == {k \in DOMAIN Types[t] : Types[t][k].number = number}
    IN  IF i = {} THEN "unknown" ELSE Types[t][TheOnly(i)].kind

(* The first field of s, of tag h, if it ends after the first n bytes.     *)
FieldOf(s, h, kind, v, n) ==
    IF h.length = 0 \/ h.value \div 8 = 0 \/ h.value % 8 \notin WireTypes \/ n > Len(s)
    THEN Malformed
    ELSE [number |-> h.value \div 8, wireType |-> h.value % 8, kind |-> kind,
          content |-> SubSeq(s, h.length + 1, n), value |-> v.value,
          payload |-> SubSeq(s, h.length + v.length + 1, n), raw |-> SubSeq(s, 1, n)]

(* The same, when varint v follows the tag.                                *)
FieldAt(s, h, kind, v) ==
    FieldOf(s, h, kind, v, h.length + Extent(kind, h.value % 8, v, Len(s) - h.length))

FirstField(t, s, h) ==
    FieldAt(s, h, KindOf(t, h.value \div 8), Leading(SubSeq(s, h.length + 1, Len(s))))

RECURSIVE Split(_, _)
Split(t, s) ==
    LET first == FirstField(t, s, Leading(s))
    IN  IF s = <<>> THEN <<>>
        ELSE IF first = Malformed THEN <<Malformed>>
        ELSE <<first>> \o Split(t, SubSeq(s, Len(first.raw) + 1, Len(s)))

RECURSIVE Numbers(_)
Numbers(s) == LET v == Leading(s)
              IN  IF s = <<>> THEN <<>>
                  ELSE <<v.value>> \o Numbers(SubSeq(s, v.length + 1, Len(s)))

ScalarMeaning(f) ==
    LET n == f.value % 2 ^ NarrowBits
    IN  CASE f.kind = "uint" -> f.value
          [] f.kind = "int" -> Signed(n, NarrowBits)
          [] f.kind = "enum" -> Signed(f.value, WideBits)
          [] f.kind = "sint" -> IF n % 2 = 0 THEN n \div 2 ELSE -(n \div 2) - 1
          [] f.kind = "fixed" -> f.content[1] + 256 * f.content[2]
          [] f.kind = "bytes" -> f.payload

IsPacked(f) == f.kind \in {"list", "enums"} /\ f.wireType = LengthDelimited

ListMeaning(fs) ==
    LET packed == {k \in DOMAIN fs : IsPacked(fs[k])}
        last == CHOOSE k \in packed : \A l \in packed : l <= k
        base == IF packed = {} THEN <<>> ELSE Numbers(fs[last].payload)
        more == IF packed = {} THEN fs ELSE SubSeq(fs, last + 1, Len(fs))
        all == base \o [k \in DOMAIN more |-> more[k].value]
    IN  [k \in DOMAIN all |-> IF fs[1].kind = "enums" THEN Signed(all[k], WideBits) ELSE all[k]]

WellPacked(f) == IsPacked(f) => (f.payload = <<>> \/ Last(f.payload) < 128)

(* The value of a field, given its occurrences and the messages they stand *)
(* for, which end with the one that all of them together stand for.        *)
EntriesOf(entries) ==
    {entries[k] : k \in {j \in DOMAIN entries :
        \A l \in j + 1 .. Len(entries) : entries[l].props[0] # entries[j].props[0]}}

ValueMeaning(kind, of, messages) ==
    CASE kind = "message" -> TheOnly(Last(messages))
      [] kind = "handled" -> TheOnly(messages[Len(of)])
      [] kind = "messages" -> [k \in DOMAIN of |-> TheOnly(messages[k])]
      [] kind = "map" -> EntriesOf([k \in DOMAIN of |-> TheOnly(messages[k])])
      [] kind \in {"list", "enums"} -> ListMeaning(of)
      [] OTHER -> ScalarMeaning(Last(of))

PropertyMeaning(field, of, messages) ==
    LET value == ValueMeaning(field.kind, of, messages)
    IN  IF of = <<>> THEN DefaultOf(field)
        ELSE IF "ExplicitPresence" \in field.flags THEN {value} ELSE value

(* A field is acceptable if it is there when it must be, and its messages  *)
(* stand for something.                                                    *)
Acceptable(field, of, messages) ==
    /\ "Required" \in field.flags => of # <<>>
    /\ IsMessageKind(field.kind) => \A k \in DOMAIN of : messages[k] # {}

UnknownOf(fields) ==
    LET unknown == SelectSeq(fields, LAMBDA f : f.kind = "unknown")
    IN  [k \in DOMAIN unknown |-> <<unknown[k].number, unknown[k].raw>>]

(* The message of type t, given its fields, those of each number, and for  *)
(* each the messages they stand for; as a set, {} if there is none.        *)
MessageMeaning(t, slot, fields, of, messages) ==
    IF \/ \E k \in DOMAIN fields : fields[k] = Malformed \/ ~WellPacked(fields[k])
       \/ \E i \in DOMAIN of : ~Acceptable(Types[t][i], of[i], messages[i])
    THEN {}
    ELSE {[type |-> t,
           unknown |-> IF preserveUnknownFields THEN UnknownOf(fields) ELSE <<>>,
           props |-> [p \in {slot[i] : i \in DOMAIN of} |->
               LET i == CHOOSE k \in DOMAIN of : slot[k] = p
               IN  PropertyMeaning(Types[t][i], of[i], messages[i])]]}

Occurrences(t, fields) ==
    [i \in DOMAIN Types[t] |-> SelectSeq(fields, LAMBDA f : f.number = Types[t][i].number)]

(* The payloads of a field, and after them all of them taken together.     *)
Parts(of) ==
    LET payloads == [k \in DOMAIN of |-> of[k].payload]
    IN  Append(payloads, FlattenSeq(payloads))

Slots(t) == [i \in DOMAIN Types[t] |-> PropertyIndexOf(Types[t], i)]

(* The message s stands for, as a set; {} if it stands for none.           *)
RECURSIVE Meaning(_, _)
Meanings(t, parts) == [k \in DOMAIN parts |-> Meaning(t, parts[k])]

Meaning(t, s) ==
    LET fields == Split(t, s)
        of == Occurrences(t, fields)
        messages == [i \in DOMAIN Types[t] |-> Meanings(Types[t][i].type, Parts(of[i]))]
    IN  MessageMeaning(t, Slots(t), fields, of, messages)

(* A message with new ones for the required messages that are absent.      *)
RECURSIVE Completed(_)
Completed(m) ==
    LET slot == [i \in DOMAIN Types[m.type] |-> PropertyIndexOf(Types[m.type], i)]
        absent == {i \in DOMAIN slot : /\ "Required" \in Types[m.type][i].flags
                                       /\ Types[m.type][i].kind = "message"
                                       /\ m.props[slot[i]] = {}}
        missing == [p \in {slot[i] : i \in absent} |->
                       {Completed(New(Types[m.type][CHOOSE i \in absent : slot[i] = p].type))}]
    IN  [m EXCEPT !.props = missing @@ @]

Cyclic(t) == \E i \in DOMAIN Types[t] :
                 Types[t][i].kind = "message" /\ "Required" \in Types[t][i].flags
                 /\ Types[t][i].type = t

(* Exactly the well-formed inputs are accepted, whatever was parsed        *)
(* before with the same object, and the message has the meaning of the     *)
(* bytes: no field is lost or read beyond the message it belongs to,       *)
(* although ends are only compared for equality and lengths only with the  *)
(* bytes left in the whole input.  What is written means the message it is *)
(* written from, unknown fields included; a required message that is       *)
(* absent is written as a new one.                                         *)
WireMeaningExact ==
    format = "binary" /\ op \in {"Parsed", "Refused", "Serialized"}
    /\ lastError # "MessageTooLarge" /\ (op = "Serialized" => ~Cyclic(type)) =>
        Meaning(type, IF op = "Serialized" THEN result ELSE data) =
            CASE op = "Serialized" -> {Completed(given)}
              [] op # "Serialized" /\ lastError = "None" -> {result}
              [] OTHER -> {}
=============================================================================
