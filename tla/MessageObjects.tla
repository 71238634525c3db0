--------------------------- MODULE MessageObjects ---------------------------
(***************************************************************************)
(* The classes that qtprotobufgen writes for messages, as objects in       *)
(* memory.  A message object is a pair of pointers: dptr to the fields,    *)
(* d_ptr of QProtobufMessage to the unknown entries.  Both are explicitly  *)
(* shared: a copy points to the same payload, and each accessor has to     *)
(* detach by itself before it writes.  A nested message is an object of    *)
(* its own with its own shared payload: behind a pointer that is filled on *)
(* first use, or in the QVariant of a QProtobufOneof.                      *)
(*                                                                         *)
(* A payload has a floating point field, a string, an optional field, a    *)
(* message and a oneof of a number and a message; shape says which of them *)
(* are in use.  A nested message has one number.  A payload that nothing   *)
(* points to is gone; its pointer's number is used again.                  *)
(***************************************************************************)
EXTENDS Integers, FiniteSets, FiniteSetsExt

CONSTANTS Objs,     \* the message objects of the user
          Shapes    \* the sets of fields to consider

VARIABLES shape,
          heap,     \* the objects and what they point to
          reading,  \* the object deserialize() runs on, or NoObj
          val,      \* history: the value each object should have
          argVal    \* history: that of the nested message in the user's hands

vars == <<shape, heap, reading, val, argVal>>

NoObj == "none"
Null == 0        \* a pointer that is null: not constructed, or moved from
Absent == -1
Numbers == {0, 1}
Floats == {<<0, 0>>, <<1, 0>>}    \* sign bit and magnitude: 0.0 and -0.0
Same(x, y) == x[2] = y[2] /\ (x[2] = 0 \/ x[1] = y[1])
signbit(x) == x[1]

(* QProtobufOneof: the number of the field it holds and a value with its   *)
(* type; a value of type "message" is the pointer of a message object.     *)
InvalidFieldNumber == 0
NumberField == 1
MessageField == 2
TypeOfField(n) == IF n = NumberField THEN "number" ELSE "message"
EmptyOneof == [fieldNumber |-> InvalidFieldNumber, type |-> "none", value |-> 0]
holdsField(one, n) == one.fieldNumber = n /\ one.type # "none"

NewData == [num |-> <<0, 0>>, text |-> 0, opt |-> Absent, msg |-> Null, one |-> EmptyOneof]
-----------------------------------------------------------------------------
(* Pointers.  h.dptr and h.base are the pointers of the objects, h.arg     *)
(* that of the user's nested message; h.data, h.unknown and h.inner are    *)
(* the payloads by number.                                                 *)

PointsTo(h, c) == {o \in Objs : h.dptr[o] = c}

InnerPlaces(h, i) ==
    {<<c, "msg">> : c \in {d \in DOMAIN h.data : h.data[d].msg = i}}
    \cup {<<c, "one">> : c \in {d \in DOMAIN h.data :
                                   h.data[d].one.type = "message" /\ h.data[d].one.value = i}}
    \cup {<<0, "arg">> : a \in {h.arg} \cap {i}}

NewNumber(used) == Min((1 .. Cardinality(used) + 1) \ used)

(* A payload comes into being, or is written to. *)
Placed(f, c, v) == [x \in DOMAIN f \cup {c} |-> IF x = c THEN v ELSE f[x]]

Restricted(f, s) == [c \in DOMAIN f \cap s |-> f[c]]

(* The payloads that are still pointed to. *)
Collected(h) ==
    LET g == [h EXCEPT !.data = Restricted(@, {h.dptr[o] : o \in Objs}),
                       !.unknown = Restricted(@, {h.base[o] : o \in Objs})]
    IN  [g EXCEPT !.inner = Restricted(@, {i \in DOMAIN @ : InnerPlaces(g, i) # {}})]

(* QExplicitlySharedDataPointer::detach(): the copy constructor of the     *)
(* data class copies nested messages as objects, which share payloads.     *)
Detached(h, o) ==
    LET c == NewNumber(DOMAIN h.data)
    IN  IF PointsTo(h, h.dptr[o]) = {o} THEN h
        ELSE [h EXCEPT !.dptr[o] = c, !.data = Placed(@, c, h.data[h.dptr[o]])]

(* A nested message object: made new, and given a number by its setter.    *)
NewInner(h) == NewNumber(DOMAIN h.inner)
WithInner(h, i) == [h EXCEPT !.inner = Placed(@, i, 0)]
-----------------------------------------------------------------------------
(* Reading and writing a member of the payload of an object. *)

Member(h, o, name) == h.data[h.dptr[o]][name]
Put(h, o, name, v) == [h EXCEPT !.data[h.dptr[o]][name] = v]

(* A setter: it detaches if the value differs, then writes. *)
Set(h, o, name, v, differs) == IF differs THEN Put(Detached(h, o), o, name, v) ELSE h

SetFloatingPoint(h, o, v) ==
    LET old == Member(h, o, "num")
    IN  Set(h, o, "num", v, ~Same(old, v) \/ signbit(old) # signbit(v))
SetComplex(h, o, v) == Set(h, o, "text", v, Member(h, o, "text") # v)
SetOptional(h, o, v) ==
    Set(h, o, "opt", v, Member(h, o, "opt") = Absent \/ Member(h, o, "opt") # v)
ClearOptional(h, o) == Set(h, o, "opt", Absent, Member(h, o, "opt") # Absent)

(* QProtobufLazyMessagePointer::get(): const, and yet it fills the pointer *)
(* of a payload that may be shared.                                        *)
get(h, o) ==
    IF Member(h, o, "msg") # Null THEN h
    ELSE LET i == NewInner(h) IN Put(WithInner(h, i), o, "msg", i)

(* The setter of the nested message at a place of the payload of o: it has *)
(* a payload of its own to detach.                                         *)
InnerSet(h, o, name, i, v) ==
    LET j == IF Cardinality(InnerPlaces(h, i)) > 1 THEN NewInner(h) ELSE i
        g == [h EXCEPT !.inner = Placed(@, j, v)]
    IN  IF h.inner[i] = v THEN h
        ELSE Put(g, o, name, IF name = "msg" THEN j ELSE [Member(h, o, name) EXCEPT !.value = j])

hasMessage(h, o) == Member(h, o, "msg") # Null

ClearMessage(h, o) == Set(h, o, "msg", Null, hasMessage(h, o))

SlipMutable(h, o, v) ==
    LET g == get(h, o) IN InnerSet(g, o, "msg", Member(g, o, "msg"), v)
Mutable(h, o, v) ==
    LET g == get(Detached(h, o), o) IN InnerSet(g, o, "msg", Member(g, o, "msg"), v)

(* setMessage(const T &) and setMessage(T &&) with the user's object: the  *)
(* comparison fills the pointer before anything is detached.               *)
SetMessage(h, o, moved) ==
    LET g == get(h, o)
        d == Detached(g, o)
        old == Member(d, o, "msg")
    IN  IF g.inner[Member(g, o, "msg")] = g.inner[g.arg] THEN g
        ELSE [Put(d, o, "msg", g.arg) EXCEPT !.arg = IF moved THEN old ELSE @]

(* The oneof. *)
IsEqual(h, one, v, n) ==
    /\ one.fieldNumber = n
    /\ one.type = TypeOfField(n)
    /\ IF n = NumberField THEN one.value = v ELSE h.inner[one.value] = h.inner[v]

SetOneof(h, o, v, n) ==
    Set(h, o, "one", [fieldNumber |-> n, type |-> TypeOfField(n), value |-> v],
        ~IsEqual(h, Member(h, o, "one"), v, n))

(* setValue(T &&) moves the message into the QVariant. *)
SetOneofMessage(h, o, moved) ==
    LET g == SetOneof(h, o, h.arg, MessageField)
    IN  IF moved /\ g # h THEN [g EXCEPT !.arg = Null] ELSE g

ClearOneof(h, o) ==
    Set(h, o, "one", EmptyOneof, Member(h, o, "one").fieldNumber # InvalidFieldNumber)

ensureRawValue(h, o) ==
    IF Member(h, o, "one").type = "message" THEN h
    ELSE LET i == NewInner(h)
         IN  Put(WithInner(h, i), o, "one",
                 [Member(h, o, "one") EXCEPT !.type = "message", !.value = i])

(* What deserialization does to a message: name_p() gives it the nested    *)
(* object to fill in place, setName_p() takes it back.                     *)
PrivateGetterMessage(h, o) == get(IF hasMessage(h, o) THEN h ELSE Detached(h, o), o)

FilledMessage(h, o, v) ==
    LET g == PrivateGetterMessage(h, o) IN InnerSet(g, o, "msg", Member(g, o, "msg"), v)

PrivateGetterOneofMessage(h, o) ==
    ensureRawValue(IF holdsField(Member(h, o, "one"), MessageField) THEN h
                   ELSE Detached(h, o), o)

FilledOneof(h, o, v) ==
    LET g == PrivateGetterOneofMessage(h, o)
    IN  InnerSet(g, o, "one", Member(g, o, "one").value, v)

PrivateSetterOneofMessage(h, o) ==
    SetOneof(h, o, Member(h, o, "one").value, MessageField)

storeUnknownEntry(h, o) ==
    LET shared == \E p \in Objs \ {o} : h.base[p] = h.base[o]
        b == IF shared THEN NewNumber(DOMAIN h.unknown) ELSE h.base[o]
    IN  [h EXCEPT !.base[o] = b, !.unknown = Placed(@, b, 1)]

(* Construction, copying and moving of objects. *)
New(h, o) ==
    LET c == NewNumber(DOMAIN h.data)
        b == NewNumber(DOMAIN h.unknown)
    IN  [h EXCEPT !.dptr[o] = c, !.data = Placed(@, c, NewData),
                  !.base[o] = b, !.unknown = Placed(@, b, 0)]

Copied(h, o, p) == [h EXCEPT !.dptr[o] = h.dptr[p], !.base[o] = h.base[p]]

Swapped(h, o, p) ==
    [h EXCEPT !.dptr[o] = h.dptr[p], !.dptr[p] = h.dptr[o],
              !.base[o] = h.base[p], !.base[p] = h.base[o]]

(* comparesEqual(): two absent messages are equal; otherwise both are      *)
(* fetched, which fills the pointer that is null.                          *)
NumberAt(h, i) == IF i = Null THEN 0 ELSE h.inner[i]
SlipMessagesEqual(h, i, j) == (i = Null <=> j = Null) /\ NumberAt(h, i) = NumberAt(h, j)
MessagesEqual(h, i, j) == (i = Null /\ j = Null) \/ NumberAt(h, i) = NumberAt(h, j)

OneofsEqual(h, x, y) ==
    /\ x.fieldNumber = y.fieldNumber
    /\ x.type = y.type
    /\ IF x.type = "message" THEN h.inner[x.value] = h.inner[y.value] ELSE x.value = y.value

comparesEqual(h, o, p) ==
    LET x == h.data[h.dptr[o]]
        y == h.data[h.dptr[p]]
    IN  /\ h.base[o] = h.base[p] \/ h.unknown[h.base[o]] = h.unknown[h.base[p]]
        /\ Same(x.num, y.num) /\ x.text = y.text /\ x.opt = y.opt
        /\ MessagesEqual(h, x.msg, y.msg)
        /\ OneofsEqual(h, x.one, y.one)

Fetched(h, o, p) ==
    IF hasMessage(h, o) = hasMessage(h, p) THEN h ELSE get(get(h, o), p)
-----------------------------------------------------------------------------
(* The steps.  val is what the user of a value type expects. *)

DefaultValue == [num |-> <<0, 0>>, text |-> 0, opt |-> Absent, msg |-> Absent,
                 one |-> <<InvalidFieldNumber, 0>>, unknown |-> 0]
Unspecified == [DefaultValue EXCEPT !.unknown = Absent]

Init ==
    /\ shape \in Shapes
    /\ heap = [dptr |-> [o \in Objs |-> Null], base |-> [o \in Objs |-> Null],
               data |-> <<>>, unknown |-> <<>>, inner |-> <<0>>, arg |-> 1]
    /\ reading = NoObj
    /\ val = [o \in Objs |-> DefaultValue]
    /\ argVal = 0

Exists(o) == heap.dptr[o] # Null
Becomes(h) == heap' = Collected(h) /\ UNCHANGED shape
Changes(o, name, v) == val' = [val EXCEPT ![o][name] = v] /\ UNCHANGED <<reading, argVal>>
Idle == reading = NoObj
(* An accessor of an object whose value is known. *)
Accessed(o, name) == Idle /\ Exists(o) /\ val[o] # Unspecified /\ name \in shape

Construct(o) ==
    /\ Idle /\ ~Exists(o)
    /\ Becomes(New(heap, o))
    /\ val' = [val EXCEPT ![o] = DefaultValue]
    /\ UNCHANGED <<reading, argVal>>

Destroy(o) ==
    /\ Idle /\ Exists(o)
    /\ Becomes([heap EXCEPT !.dptr[o] = Null, !.base[o] = Null])
    /\ val' = [val EXCEPT ![o] = DefaultValue]
    /\ UNCHANGED <<reading, argVal>>

(* The copy constructor and the assignment operator: a temporary copy is   *)
(* swapped in.                                                             *)
Copy(o, p) ==
    /\ Idle /\ o # p /\ Exists(p)
    /\ Becomes(Copied(heap, o, p))
    /\ val' = [val EXCEPT ![o] = val[p]]
    /\ UNCHANGED <<reading, argVal>>

(* swap(), the move assignment, which is a swap, and the move constructor. *)
Swap(o, p) ==
    /\ Idle /\ o # p /\ Exists(p)
    /\ Becomes(Swapped(heap, o, p))
    /\ val' = [val EXCEPT ![o] = val[p], ![p] = val[o]]
    /\ UNCHANGED <<reading, argVal>>

UserSets(o) ==
    \/ Accessed(o, "num") /\ \E v \in Floats :
           Becomes(SetFloatingPoint(heap, o, v)) /\ Changes(o, "num", v)
    \/ Accessed(o, "text") /\ \E v \in Numbers :
           Becomes(SetComplex(heap, o, v)) /\ Changes(o, "text", v)
    \/ Accessed(o, "opt") /\ \E v \in Numbers :
           Becomes(SetOptional(heap, o, v)) /\ Changes(o, "opt", v)
    \/ Accessed(o, "one") /\ \E v \in Numbers :
           /\ Becomes(SetOneof(heap, o, v, NumberField))
           /\ Changes(o, "one", <<NumberField, v>>)
    \/ Accessed(o, "msg") /\ \E v \in Numbers :
           Becomes(Mutable(heap, o, v)) /\ Changes(o, "msg", v)

UserClears(o) ==
    \/ Accessed(o, "opt") /\ Becomes(ClearOptional(heap, o)) /\ Changes(o, "opt", Absent)
    \/ Accessed(o, "msg") /\ Becomes(ClearMessage(heap, o)) /\ Changes(o, "msg", Absent)
    \/ /\ Accessed(o, "one")
       /\ Becomes(ClearOneof(heap, o))
       /\ Changes(o, "one", DefaultValue.one)

(* The const getter of a message, read or copied from. *)
ReadMessage(o) ==
    /\ Accessed(o, "msg")
    /\ Becomes(get(heap, o))
    /\ UNCHANGED <<val, reading, argVal>>

CopyOut(o) ==
    LET h == get(heap, o)
    IN  /\ Accessed(o, "msg")
        /\ Becomes([h EXCEPT !.arg = Member(h, o, "msg")])
        /\ argVal' = IF val[o].msg = Absent THEN 0 ELSE val[o].msg
        /\ UNCHANGED <<val, reading>>

Compare(o, p) ==
    /\ Accessed(o, "msg") /\ Accessed(p, "msg")
    /\ Becomes(Fetched(heap, o, p))
    /\ UNCHANGED <<val, reading, argVal>>

(* The user's own nested message: its setter. *)
SetArg(v) ==
    LET i == IF heap.arg # Null /\ Cardinality(InnerPlaces(heap, heap.arg)) = 1
             THEN heap.arg ELSE NewInner(heap)
    IN  /\ Idle /\ v # argVal
        /\ Becomes([heap EXCEPT !.arg = i, !.inner = Placed(@, i, v)])
        /\ argVal' = v
        /\ UNCHANGED <<val, reading>>

PassMessage(o, moved) ==
    /\ Accessed(o, "msg") /\ heap.arg # Null
    /\ Becomes(SetMessage(heap, o, moved))
    /\ val' = [val EXCEPT ![o].msg = argVal]
    /\ argVal' = IF moved /\ val[o].msg \notin {Absent, argVal} THEN val[o].msg
                 ELSE IF moved /\ val[o].msg = Absent THEN 0
                 ELSE argVal
    /\ UNCHANGED reading

PassOneofMessage(o, moved) ==
    /\ Accessed(o, "one") /\ heap.arg # Null
    /\ Becomes(SetOneofMessage(heap, o, moved))
    /\ val' = [val EXCEPT ![o].one = <<MessageField, argVal>>]
    /\ argVal' = IF moved /\ val[o].one # <<MessageField, argVal>> THEN Absent ELSE argVal
    /\ UNCHANGED reading

(* deserialize() destroys the message and constructs it again in place.    *)
Deserialize(o) ==
    /\ Idle /\ Exists(o)
    /\ Becomes(New(heap, o))
    /\ reading' = o
    /\ val' = [val EXCEPT ![o] = DefaultValue]
    /\ UNCHANGED argVal

(* The fields of the input, in any order and as often as it has them. *)
Field(name) == ~Idle /\ name \in shape

ParseField ==
    LET o == reading
    IN  \/ Field("num") /\ \E v \in Floats :
               Becomes(SetFloatingPoint(heap, o, v)) /\ Changes(o, "num", v)
        \/ Field("opt") /\ \E v \in Numbers :
               Becomes(SetOptional(heap, o, v)) /\ Changes(o, "opt", v)
        \/ Field("msg") /\ \E v \in Numbers :
               Becomes(FilledMessage(heap, o, v)) /\ Changes(o, "msg", v)
        \/ Field("one") /\ \E v \in Numbers :
               /\ Becomes(SetOneof(heap, o, v, NumberField))
               /\ Changes(o, "one", <<NumberField, v>>)
        \/ Field("one") /\ \E v \in Numbers :
               /\ Becomes(PrivateSetterOneofMessage(FilledOneof(heap, o, v), o))
               /\ Changes(o, "one", <<MessageField, v>>)
        \/ Field("unknown") /\ Becomes(storeUnknownEntry(heap, o)) /\ Changes(o, "unknown", 1)

(* The input is malformed, also inside the message of the oneof, which is  *)
(* not stored then.                                                        *)
ParseFails ==
    /\ ~Idle
    /\ \/ heap' = heap
       \/ "one" \in shape /\ \E v \in Numbers : heap' = Collected(FilledOneof(heap, reading, v))
    /\ reading' = NoObj
    /\ val' = [val EXCEPT ![reading] = Unspecified]
    /\ UNCHANGED <<shape, argVal>>

ParseEnds == ~Idle /\ reading' = NoObj /\ UNCHANGED <<shape, heap, val, argVal>>

Next ==
    \/ \E o \in Objs : Construct(o) \/ Destroy(o) \/ UserSets(o) \/ UserClears(o)
                       \/ ReadMessage(o) \/ CopyOut(o) \/ Deserialize(o)
    \/ \E o, p \in Objs : Copy(o, p) \/ Swap(o, p) \/ Compare(o, p)
    \/ \E v \in Numbers : SetArg(v)
    \/ \E o \in Objs, moved \in BOOLEAN : PassMessage(o, moved) \/ PassOneofMessage(o, moved)
    \/ ParseField \/ ParseFails \/ ParseEnds

Spec == Init /\ [][Next]_vars
-----------------------------------------------------------------------------
(* The value of an object, read through its pointers. *)
Meaning(o) ==
    LET d == heap.data[heap.dptr[o]]
    IN  [num |-> d.num, text |-> d.text, opt |-> d.opt,
         msg |-> IF d.msg = Null THEN Absent ELSE heap.inner[d.msg],
         one |-> <<d.one.fieldNumber, IF d.one.type = "message" THEN heap.inner[d.one.value]
                                      ELSE d.one.value>>,
         unknown |-> heap.unknown[heap.base[o]]]

Specified(o) == Exists(o) /\ val[o] # Unspecified

(* operator== is equality of the values, an absent message being equal to  *)
(* an empty one and 0.0 to -0.0, however the payloads are shared.          *)
EqualityByValue ==
    LET Norm(v) == [v EXCEPT !.msg = IF @ = Absent THEN 0 ELSE @, !.num = @[2]]
    IN  \A o, p \in Objs : Specified(o) /\ Specified(p) =>
            (comparesEqual(heap, o, p) <=> Norm(val[o]) = Norm(val[p]))

(* Message objects are values although their payloads are shared: an       *)
(* object has what was last written through it, whatever is done to its    *)
(* copies, to the nested message that was passed in or out, or by parsing  *)
(* into one of them, and operator== compares these values.  The one thing  *)
(* that passes between copies is that a message that is absent turns into  *)
(* an empty one when somebody reads it.                                    *)
ObjectsAreValues ==
    /\ \A o \in Objs : Specified(o) =>
          \/ Meaning(o) = val[o]
          \/ val[o].msg = Absent /\ Meaning(o) = [val[o] EXCEPT !.msg = 0]
    /\ heap.arg # Null => heap.inner[heap.arg] = argVal
    /\ EqualityByValue
=============================================================================
