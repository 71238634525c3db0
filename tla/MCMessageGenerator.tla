------------------------ MODULE MCMessageGenerator ------------------------
(* Three kinds of files: one message with every kind of field, messages    *)
(* nested in every way that name each other's types, and services.         *)
EXTENDS ServiceGenerator

MCMessages == <<"A", "B", "C">>

Variant(types, ofs, labels) ==
    {[type |-> t, of |-> o, label |-> l, packed |-> p] :
        t \in types, o \in ofs, l \in labels, p \in {TRUE}}
Unpacked(variants) == {[v EXCEPT !.packed = FALSE] : v \in {w \in variants : w.label = "repeated"}}

Plain == Variant({"int64", "string"}, {"none"}, {"singular", "optional", "required", "repeated", "oneof"})
         \cup Variant({"float"}, {"none"}, {"singular", "oneof"})
         \cup Variant({"enum"}, {"none"}, {"singular", "optional", "repeated", "oneof"})
         \cup Variant({"group"}, {"none"}, {"optional", "repeated", "oneof"})
OfMessages == Variant({"message"}, {"A", "Qt", "Any"}, {"singular", "required", "repeated", "oneof"})
              \cup Variant({"message"}, {"A"}, {"map"})
References == Variant({"message"}, MessageNames, {"singular", "repeated"})
              \cup Variant({"enum"}, MessageNames \cup {"none"}, {"optional"})
              \cup Variant({"int64"}, {"none"}, {"oneof"})

Trees == {p \in [MessageNames -> {"none", "A", "B"}] :
             p["A"] = "none" /\ p["B"] \in {"none", "A"}}

(* The kinds that differ in the number of properties and of rows. *)
Kinds == Variant({"int64"}, {"none"}, {"singular", "optional"})
         \cup Variant({"message"}, {"A"}, {"singular", "repeated"})
         \cup Variant({"group"}, {"none"}, {"optional"})

AllInA == [m \in MessageNames |-> IF m = "A" THEN "none" ELSE "A"]

MCFamilies ==
    {[parent |-> AllInA, at |-> {"A"}, fields |-> 2,
      variants |-> Plain \cup Unpacked(Plain) \cup OfMessages],
     [parent |-> AllInA, at |-> {"A"}, fields |-> 3, variants |-> Kinds]}
    \cup {[parent |-> p, at |-> MessageNames, fields |-> 2, variants |-> References] : p \in Trees}

MCTypes == {[name |-> "M", file |-> "own"], [name |-> "N", file |-> "other"]}
=============================================================================
