----------------------------- MODULE AnyMessage -----------------------------
(***************************************************************************)
(* QtProtobuf::Any, the class for fields of type google.protobuf.Any.  Its *)
(* type URL and its value are in the AnyPrivate behind the d_ptr of        *)
(* QProtobufMessage, which copies of the object share.                     *)
(*                                                                         *)
(* A message is a type and a content; the bytes of its serialization are   *)
(* the content, tagged by the type they can be parsed as.                  *)
(***************************************************************************)
EXTENDS Integers, FiniteSets, FiniteSetsExt, TLC

CONSTANTS Objs,       \* the Any objects of the user
          MsgTypes,   \* the full names of message types
          Contents

VARIABLES d_ptr,      \* object |-> the number of its payload, or Null
          data,       \* the payloads
          val,        \* history: the value each object should have
          unpacked    \* what the last unpack() returned

vars == <<d_ptr, data, val, unpacked>>

Null == 0
Nothing == <<>>
EmptyAny == [typeUrl |-> Nothing, value |-> Nothing]

(* message->serialize(): bytes that only parse as their own type. *)
Serialized(type, content) == <<type, content>>
TypeUrl(prefix, type) == <<prefix, type>>
Prefixes == {"type.googleapis.com", "other"}

Exists(o) == d_ptr[o] # Null
NewNumber == Min((1 .. Cardinality(DOMAIN data) + 1) \ DOMAIN data)
Payload(o) == data[d_ptr[o]]
Live(ptrs, payloads) == [c \in DOMAIN payloads \cap {ptrs[o] : o \in Objs} |-> payloads[c]]

Init ==
    /\ d_ptr = [o \in Objs |-> Null]
    /\ data = <<>>
    /\ val = [o \in Objs |-> EmptyAny]
    /\ unpacked = Nothing

Becomes(ptrs, payloads) == d_ptr' = ptrs /\ data' = Live(ptrs, payloads)
Expect(o, v) == val' = [val EXCEPT ![o] = v] /\ UNCHANGED unpacked

(* A new object with a payload of its own. *)
Make(o, any) ==
    /\ ~Exists(o)
    /\ Becomes([d_ptr EXCEPT ![o] = NewNumber], (NewNumber :> any) @@ data)
    /\ Expect(o, any)

Construct(o) == Make(o, EmptyAny)

(* fromMessage(), and what the deserializer proxies make of the            *)
(* google::protobuf::Any that has been parsed.                             *)
FromMessage(o, type, content, prefix) ==
    Make(o, [typeUrl |-> TypeUrl(prefix, type), value |-> Serialized(type, content)])

Destroy(o) ==
    /\ Exists(o)
    /\ Becomes([d_ptr EXCEPT ![o] = Null], data)
    /\ Expect(o, EmptyAny)

(* The copy constructor and the assignment: defaulted, the pointer is      *)
(* copied.                                                                 *)
Copy(o, p) ==
    /\ o # p /\ Exists(p)
    /\ Becomes([d_ptr EXCEPT ![o] = d_ptr[p]], data)
    /\ Expect(o, val[p])

Swap(o, p) ==
    /\ o # p /\ Exists(p)
    /\ Becomes([d_ptr EXCEPT ![o] = d_ptr[p], ![p] = d_ptr[o]], data)
    /\ val' = [val EXCEPT ![o] = val[p], ![p] = val[o]]
    /\ UNCHANGED unpacked

(* The setters write to the payload without detaching it. *)
setTypeUrl(o, typeUrl) ==
    /\ Exists(o)
    /\ Becomes(d_ptr, [data EXCEPT ![d_ptr[o]].typeUrl = typeUrl])
    /\ Expect(o, [val[o] EXCEPT !.typeUrl = typeUrl])

setValue(o, value) ==
    /\ Exists(o)
    /\ Becomes(d_ptr, [data EXCEPT ![d_ptr[o]].value = value])
    /\ Expect(o, [val[o] EXCEPT !.value = value])

(* unpack(): only the last segment of the URL counts; no bytes are the     *)
(* serialization of a message with its defaults.                           *)
unpackImpl(any, type) ==
    IF any.typeUrl = Nothing THEN Nothing
    ELSE IF any.typeUrl[2] # type THEN Nothing
    ELSE IF any.value = Nothing THEN Serialized(type, "defaults")
    ELSE IF any.value[1] # type THEN Nothing
    ELSE any.value

Unpack(o, type) ==
    /\ Exists(o)
    /\ unpacked' = unpackImpl(Payload(o), type)
    /\ UNCHANGED <<d_ptr, data, val>>

Next ==
    \/ \E o \in Objs : Construct(o) \/ Destroy(o)
    \/ \E o \in Objs, type \in MsgTypes :
          \/ Unpack(o, type)
          \/ \E prefix \in Prefixes : setTypeUrl(o, TypeUrl(prefix, type))
          \/ \E content \in Contents : setValue(o, Serialized(type, content))
          \/ \E content \in Contents, prefix \in Prefixes :
                FromMessage(o, type, content, prefix)
    \/ \E o, p \in Objs : Copy(o, p) \/ Swap(o, p)

Spec == Init /\ [][Next]_vars
-----------------------------------------------------------------------------
(* "Constructs a copy" and "Copies the data" say the comments of the copy  *)
(* constructor and of the assignment: an Any has what was last written     *)
(* through it, whatever is done to its copies.  It does not: the setters   *)
(* of a copy change the original.                                          *)
AnysAreValues == \A o \in Objs : Exists(o) => Payload(o) = val[o]
=============================================================================
