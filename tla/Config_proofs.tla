--------------------------- MODULE Config_proofs ---------------------------
(***************************************************************************)
(* Options and what a channel makes of them, for any options, metadata,    *)
(* URIs and environments and any number of edits, made with the C++        *)
(* classes or with the elements of QtGrpcQuick.                            *)
(***************************************************************************)
EXTENDS QmlOptions, FiniteSetTheorems, SequenceTheorems, TLAPS

Ids == 1 .. 4

\* The payload an object of a store points to.
Val(s, o) == s.payload[s.d[o]]

\* There are as many payloads as objects, so that a copy finds a free one.
StoreOK(s) ==
    /\ s = [d |-> s.d, payload |-> s.payload, value |-> s.value]
    /\ s.d \in [Objects -> Ids]
    /\ s.payload = [id \in Ids |-> s.payload[id]]
    /\ s.value = [o \in Objects |-> s.value[o]]

\* r is s but for object o, which has payload q and value v.
After(s, o, q, v, r) ==
    /\ StoreOK(r)
    /\ Val(r, o) = q /\ r.value[o] = v
    /\ \A p \in Objects \ {o} : Val(r, p) = Val(s, p) /\ r.value[p] = s.value[p]
-----------------------------------------------------------------------------
\* The number of objects that share a payload, as a statement about objects.
LEMMA RefCounts ==
    ASSUME NEW s, NEW id
    PROVE  /\ Ref(s, id) = 0 <=> \A o \in Objects : s.d[o] # id
           /\ \A o \in Objects : s.d[o] = id => (Ref(s, id) = 1 <=> \A p \in Objects : s.d[p] = id => p = o)
<1>1. PICK S : S = {o \in Objects : s.d[o] = id}
  OBVIOUS
<1>2. IsFiniteSet(Objects)
  <2>1. IsFiniteSet({Mine}) /\ IsFiniteSet({Mine} \cup {Other})
    BY FS_Singleton, FS_AddElement
  <2>2. IsFiniteSet(({Mine} \cup {Other}) \cup {Calls})
    BY <2>1, FS_AddElement
  <2>3. IsFiniteSet((({Mine} \cup {Other}) \cup {Calls}) \cup {Channels})
    BY <2>2, FS_AddElement
  <2>4. Objects = (({Mine} \cup {Other}) \cup {Calls}) \cup {Channels}
    BY DEF Objects
  <2> QED BY <2>3, <2>4
<1>3. IsFiniteSet(S)
  BY <1>1, <1>2, FS_Subset
<1>4. Ref(s, id) = Cardinality(S)
  BY <1>1 DEF Ref
<1>5. Cardinality(S) = 0 <=> S = {}
  BY <1>3, FS_EmptySet
<1>6. Cardinality(S) = 1 <=> \E x : S = {x}
  BY <1>3, FS_Singleton
<1>7. ASSUME NEW o \in Objects, s.d[o] = id
      PROVE  (\E x : S = {x}) <=> \A p \in Objects : s.d[p] = id => p = o
  BY <1>1, <1>7
<1> QED BY <1>1, <1>4, <1>5, <1>6, <1>7

\* A payload that is shared leaves one that nobody points to.
LEMMA SomeFree ==
    ASSUME NEW s, StoreOK(s), NEW o \in Objects, Ref(s, s.d[o]) # 1
    PROVE  Free(s) \in Ids /\ \A p \in Objects : s.d[p] # Free(s)
<1>1. PICK p \in Objects : p # o /\ s.d[p] = s.d[o]
  BY RefCounts
<1>2. \E id \in Ids : \A x \in Objects : s.d[x] # id
  <2>1. /\ s.d[Mine] \in Ids /\ s.d[Other] \in Ids /\ s.d[Calls] \in Ids /\ s.d[Channels] \in Ids
    BY DEF StoreOK, Objects
  <2>2. \/ s.d[Mine] = s.d[Other] \/ s.d[Mine] = s.d[Calls] \/ s.d[Mine] = s.d[Channels]
        \/ s.d[Other] = s.d[Calls] \/ s.d[Other] = s.d[Channels] \/ s.d[Calls] = s.d[Channels]
    BY <1>1 DEF Objects
  <2>3. PICK a, b, c, e : a = s.d[Mine] /\ b = s.d[Other] /\ c = s.d[Calls] /\ e = s.d[Channels]
    OBVIOUS
  <2>4. \E id \in Ids : a # id /\ b # id /\ c # id /\ e # id
    BY <2>1, <2>2, <2>3 DEF Ids
  <2> QED BY <2>3, <2>4 DEF Objects
<1>3. DOMAIN s.payload = Ids
  BY DEF StoreOK
<1>4. \E id \in DOMAIN s.payload : Ref(s, id) = 0
  BY <1>2, <1>3, RefCounts
<1>5. Free(s) \in DOMAIN s.payload /\ Ref(s, Free(s)) = 0
  BY <1>4 DEF Free
<1> QED BY <1>3, <1>5, RefCounts

\* An edit gives the object its new payload and leaves all others theirs.
LEMMA EditSound ==
    ASSUME NEW s, StoreOK(s), NEW o \in Objects, NEW q
    PROVE  After(s, o, q, s.value[o], Edit(s, o, q))
<1>1. PICK id \in Ids : id = s.d[o]
  BY DEF StoreOK
<1>2. CASE q = Val(s, o)
  BY <1>2 DEF Edit, Val, After
<1>3. CASE q # Val(s, o) /\ Ref(s, s.d[o]) = 1
  <2>1. PICK r : r = [s EXCEPT !.payload[id] = q]
    OBVIOUS
  <2>2. r = [d |-> s.d, payload |-> [s.payload EXCEPT ![id] = q], value |-> s.value]
    BY <2>1 DEF StoreOK
  <2>3. \A p \in Objects \ {o} : s.d[p] # id /\ s.d[p] \in Ids
    BY <1>1, <1>3, RefCounts DEF StoreOK
  <2>4. After(s, o, q, s.value[o], r)
    BY <1>1, <2>2, <2>3 DEF After, StoreOK, Val
  <2> QED BY <1>1, <1>3, <2>1, <2>4 DEF Edit, Val
<1>4. CASE q # Val(s, o) /\ Ref(s, s.d[o]) # 1
  <2>1. PICK new \in Ids : new = Free(s) /\ \A p \in Objects : s.d[p] # new
    BY <1>4, SomeFree
  <2>2. PICK r : r = [s EXCEPT !.d[o] = new, !.payload[new] = q]
    OBVIOUS
  <2>3. r = [d |-> [s.d EXCEPT ![o] = new], payload |-> [s.payload EXCEPT ![new] = q], value |-> s.value]
    <3>1. PICK x : x = [s EXCEPT !.d[o] = new]
      OBVIOUS
    <3>2. x = [d |-> [s.d EXCEPT ![o] = new], payload |-> s.payload, value |-> s.value]
      BY <3>1 DEF StoreOK
    <3>3. [x EXCEPT !.payload[new] = q]
            = [d |-> [s.d EXCEPT ![o] = new], payload |-> [s.payload EXCEPT ![new] = q], value |-> s.value]
      BY <3>2
    <3> QED BY <2>2, <3>1, <3>3
  <2>4. After(s, o, q, s.value[o], r)
    BY <2>1, <2>3 DEF After, StoreOK, Val
  <2> QED BY <1>4, <2>1, <2>2, <2>4 DEF Edit, Val
<1> QED BY <1>2, <1>3, <1>4

\* An assignment makes two objects share a payload.
LEMMA AssignSound ==
    ASSUME NEW s, StoreOK(s), NEW from \in Objects, NEW to \in Objects
    PROVE  After(s, to, Val(s, from), s.value[from], Assign(s, from, to))
<1>1. PICK id, v : id \in Ids /\ id = s.d[from] /\ v = s.value[from]
  BY DEF StoreOK
<1>2. PICK x : x = [s EXCEPT !.d[to] = id]
  OBVIOUS
<1>3. x = [d |-> [s.d EXCEPT ![to] = id], payload |-> s.payload, value |-> s.value]
  BY <1>2 DEF StoreOK
<1>4. PICK r : r = [x EXCEPT !.value[to] = v]
  OBVIOUS
<1>5. r = [d |-> [s.d EXCEPT ![to] = id], payload |-> s.payload, value |-> [s.value EXCEPT ![to] = v]]
  BY <1>3, <1>4
<1>6. Assign(s, from, to) = r
  BY <1>1, <1>2, <1>4 DEF Assign
<1>7. After(s, to, Val(s, from), s.value[from], r)
  BY <1>1, <1>5 DEF After, StoreOK, Val
<1> QED BY <1>6, <1>7
-----------------------------------------------------------------------------
PayloadFields == {"format", "ssl", "initial", "maximum", "connectTimeout", "metadataSize",
                  "receive", "filter", "deadline", "multi", "hash"}
Numeric == Durations \cup {"metadataSize", "receive"}

IsPayload(p) == p = [f \in PayloadFields |-> p[f]]

\* What the channel relies on: durations are not negative.
PayloadOK(p) ==
    /\ IsPayload(p)
    /\ p.ssl \in BOOLEAN
    /\ \A f \in Durations : p[f] \subseteq Nat
    /\ p.metadataSize \subseteq Int /\ p.receive \subseteq Int

\* The two views of the metadata agree; the one with all values is a sequence.
HashOK(p) == p.hash = toHash(p.multi)
IsSequence(multi) == multi \in Seq(ToSet(multi))

\* The payload p with member f replaced.
Put(p, f, v) == [p EXCEPT ![f] = v]

\* A member is written, the others stay.
LEMMA MemberPut ==
    ASSUME NEW p, IsPayload(p), NEW f \in PayloadFields, NEW v
    PROVE  /\ IsPayload(Put(p, f, v)) /\ Put(p, f, v)[f] = v
           /\ \A g \in PayloadFields \ {f} : Put(p, f, v)[g] = p[g]
BY DEF IsPayload, Put

\* A payload with one member replaced by one that the channel can rely on.
LEMMA MemberOK ==
    ASSUME NEW p, PayloadOK(p), NEW f \in PayloadFields, NEW v,
           f = "ssl" => v \in BOOLEAN, f \in Durations => v \subseteq Nat,
           f \in {"metadataSize", "receive"} => v \subseteq Int
    PROVE  /\ PayloadOK(Put(p, f, v)) /\ Put(p, f, v)[f] = v
           /\ \A g \in PayloadFields \ {f} : Put(p, f, v)[g] = p[g]
<1>0. PICK q : q = Put(p, f, v)
  OBVIOUS
<1>1. IsPayload(q) /\ q[f] = v /\ \A g \in PayloadFields \ {f} : q[g] = p[g]
  <2>1. IsPayload(p)
    BY DEF PayloadOK
  <2> QED BY <1>0, <2>1, MemberPut
<1>2. q["ssl"] \in BOOLEAN
  BY <1>1 DEF PayloadOK, PayloadFields
<1>3. \A g \in Durations : q[g] \subseteq Nat
  BY <1>1 DEF PayloadOK, PayloadFields, Durations
<1>4. q["metadataSize"] \subseteq Int /\ q["receive"] \subseteq Int
  BY <1>1 DEF PayloadOK, PayloadFields
<1> QED BY <1>0, <1>1, <1>2, <1>3, <1>4 DEF PayloadOK

\* The setters of single options leave the metadata alone.
LEMMA AssignedOK ==
    ASSUME NEW p, PayloadOK(p), NEW field \in PayloadFields \ {"multi", "hash"}, NEW v,
           field \in Numeric => v \in Int, field = "ssl" => v \in BOOLEAN
    PROVE  LET q == Assigned(p, field, v)
           IN  PayloadOK(q) /\ q.multi = p.multi /\ q.hash = p.hash
<1>1. \E w : /\ Assigned(p, field, v) = Put(p, field, w)
             /\ field = "ssl" => w \in BOOLEAN
             /\ field \in Durations => w \subseteq Nat
             /\ field \in {"metadataSize", "receive"} => w \subseteq Int
  <2>1. CASE field \in Durations
    <3>1. Assigned(p, field, v) = Put(p, field, {clampNonNegative(v)})
      BY <2>1 DEF Assigned, AssignedDuration, Durations, Plain, Put
    <3>2. clampNonNegative(v) \in Nat
      BY <2>1 DEF clampNonNegative, Numeric
    <3> QED BY <2>1, <3>1, <3>2 DEF Durations
  <2>2. CASE field = "metadataSize"
    <3>1. Assigned(p, field, v) = Put(p, field, {RaisedToMinimum(v)})
      BY <2>2 DEF Assigned, AssignedMetadataSize, Durations, Plain, Put
    <3>2. RaisedToMinimum(v) \in Int
      BY <2>2, LimitsAssumption DEF RaisedToMinimum, Numeric
    <3> QED BY <2>2, <3>1, <3>2 DEF Durations
  <2>3. CASE field \in Plain
    <3>1. Assigned(p, field, v) = Put(p, field, v)
      BY <2>3 DEF Assigned, AssignedPlain, Durations, Plain, Put
    <3> QED BY <2>3, <3>1 DEF Durations, Plain
  <2>4. CASE field \notin Durations \cup Plain \cup {"metadataSize"}
    <3>1. Assigned(p, field, v) = Put(p, field, {v})
      BY <2>4 DEF Assigned, AssignedCommon, Durations, Plain, Put
    <3> QED BY <2>4, <3>1 DEF Numeric, Plain
  <2> QED BY <2>1, <2>2, <2>3, <2>4
<1>2. PICK w : /\ Assigned(p, field, v) = Put(p, field, w)
               /\ field = "ssl" => w \in BOOLEAN
               /\ field \in Durations => w \subseteq Nat
               /\ field \in {"metadataSize", "receive"} => w \subseteq Int
  BY <1>1
<1>3. /\ PayloadOK(Put(p, field, w))
      /\ \A g \in PayloadFields \ {field} : Put(p, field, w)[g] = p[g]
  BY <1>2, MemberOK
<1> QED BY <1>2, <1>3 DEF PayloadFields

\* The payload p with both views of the metadata replaced.
PutBoth(p, multi, hash) == [p EXCEPT !.multi = multi, !.hash = hash]

\* Both views of the metadata are written.
LEMMA MetadataPut ==
    ASSUME NEW p, PayloadOK(p), NEW multi, NEW hash
    PROVE  /\ PayloadOK(PutBoth(p, multi, hash))
           /\ PutBoth(p, multi, hash).multi = multi /\ PutBoth(p, multi, hash).hash = hash
<1>1. PICK x : x = Put(p, "multi", multi)
  OBVIOUS
<1>2. PayloadOK(x) /\ x["multi"] = multi
  BY <1>1, MemberOK DEF PayloadFields, Durations
<1>3. PICK q : q = Put(x, "hash", hash)
  OBVIOUS
<1>4. PayloadOK(q) /\ q["hash"] = hash /\ q["multi"] = multi
  BY <1>2, <1>3, MemberOK DEF PayloadFields, Durations
<1>5. PutBoth(p, multi, hash) = q
  BY <1>1, <1>3 DEF Put, PutBoth
<1> QED BY <1>4, <1>5

\* setMetadata() with all values of each key.
LEMMA WithMultiOK ==
    ASSUME NEW p, PayloadOK(p), NEW multi
    PROVE  LET q == WithMulti(p, multi)
           IN  /\ PayloadOK(q) /\ ToSet(q.multi) = ToSet(multi) /\ q.multi \in {p.multi, multi}
               /\ HashOK(p) => HashOK(q)
<1>1. CASE ToSet(p.multi) = ToSet(multi)
  BY <1>1 DEF WithMulti
<1>2. CASE ToSet(p.multi) # ToSet(multi)
  <2>1. PICK q : q = PutBoth(p, multi, toHash(multi))
    OBVIOUS
  <2>2. PayloadOK(q) /\ q.hash = toHash(multi) /\ q.multi = multi
    BY <2>1, MetadataPut
  <2>3. WithMulti(p, multi) = q
    BY <1>2, <2>1 DEF WithMulti, PutBoth
  <2> QED BY <2>2, <2>3 DEF HashOK
<1> QED BY <1>1, <1>2

\* A hash as a sequence, in any order, is the hash again.
LEMMA HashOfSequence ==
    ASSUME NEW hash, IsFiniteSet(hash), \A e, f \in hash : e[1] = f[1] => e = f
    PROVE  IsSequence(SetToSeq(hash)) /\ toHash(SetToSeq(hash)) = hash
<1>1. PICK n, f : n = Cardinality(hash) /\ f = SetToSeq(hash)
  OBVIOUS
<1>2. n \in Nat /\ ExistsBijection(1 .. n, hash)
  BY <1>1, FS_CardinalityType
<1>3. \E g \in [1 .. n -> hash] : IsInjective(g)
  BY <1>2 DEF ExistsBijection, Bijection, Injection, IsInjective
<1>4. f \in [1 .. n -> hash] /\ IsInjective(f)
  BY <1>1, <1>3 DEF SetToSeq
<1>5. f \in Injection(1 .. n, hash)
  BY <1>4 DEF Injection, IsInjective
<1>6. IsFiniteSet(1 .. n) /\ Cardinality(1 .. n) = n
  BY <1>2, FS_Interval
<1>7. f \in Surjection(1 .. n, hash)
  BY <1>1, <1>5, <1>6, FS_Injection
<1>8. \A e \in hash : \E i \in 1 .. n : f[i] = e
  BY <1>7 DEF Surjection
<1>9. IsSequence(f)
  BY <1>2, <1>4 DEF IsSequence, ToSet
<1>10. \A i \in 1 .. n : IsFirst(f, i)
  <2>1. SUFFICES ASSUME NEW i \in 1 .. n, NEW k \in 1 .. i - 1 PROVE f[k][1] # f[i][1]
    BY DEF IsFirst
  <2>2. k \in 1 .. n /\ k # i /\ f[k] \in hash /\ f[i] \in hash
    BY <1>2, <1>4
  <2>3. f[k] # f[i]
    BY <1>4, <2>2 DEF IsInjective
  <2> QED BY <2>2, <2>3
<1>11. toHash(f) = hash
  <2>1. DOMAIN f = 1 .. n
    BY <1>4
  <2>2. toHash(f) = {f[i] : i \in 1 .. n}
    BY <1>10, <2>1 DEF toHash
  <2> QED BY <1>4, <1>8, <2>2
<1> QED BY <1>1, <1>9, <1>11

\* setMetadata() with one value of each key.
LEMMA WithHashOK ==
    ASSUME NEW p, PayloadOK(p), HashOK(p), IsSequence(p.multi),
           NEW hash, IsFiniteSet(hash), \A e, f \in hash : e[1] = f[1] => e = f
    PROVE  LET q == WithHash(p, hash)
           IN  PayloadOK(q) /\ HashOK(q) /\ IsSequence(q.multi)
<1>1. CASE p.hash = hash
  BY <1>1 DEF WithHash
<1>2. CASE p.hash # hash
  <2>1. PICK q : q = PutBoth(p, SetToSeq(hash), hash)
    OBVIOUS
  <2>2. PayloadOK(q) /\ q.hash = hash /\ q.multi = SetToSeq(hash)
    BY <2>1, MetadataPut
  <2>3. WithHash(p, hash) = q
    <3>1. [p EXCEPT !.hash = hash, !.multi = SetToSeq(hash)] = q
      BY <2>1 DEF PutBoth, PayloadOK, IsPayload
    <3> QED BY <1>2, <3>1 DEF WithHash
  <2> QED BY <2>2, <2>3, HashOfSequence DEF HashOK
<1> QED BY <1>1, <1>2

\* A new entry in front of a sequence takes the place of its key's value.
LEMMA HashOfPair ==
    ASSUME NEW m, IsSequence(m), NEW pair
    PROVE  /\ IsSequence(<<pair>> \o m)
           /\ toHash(<<pair>> \o m) = {e \in toHash(m) : e[1] # pair[1]} \cup {pair}
<1>1. PICK n : n = <<pair>> \o m
  OBVIOUS
<1>2. PICK len \in Nat : len = Len(m) /\ DOMAIN m = 1 .. len
  BY DEF IsSequence
<1>3. n \in Seq(ToSet(m) \cup {pair}) /\ Len(n) = len + 1
  BY <1>1, <1>2 DEF IsSequence
<1>4. DOMAIN n = 1 .. len + 1 /\ n[1] = pair /\ \A i \in 1 .. len : n[i + 1] = m[i]
  BY <1>1, <1>2 DEF IsSequence
<1>5. IsSequence(n)
  <2>1. ToSet(n) = ToSet(m) \cup {pair}
    <3>1. ASSUME NEW e \in ToSet(n) PROVE e \in ToSet(m) \cup {pair}
      BY <1>3, <1>4 DEF ToSet
    <3>2. ASSUME NEW e \in ToSet(m) PROVE e \in ToSet(n)
      <4>1. PICK i \in 1 .. len : e = m[i]
        BY <1>2 DEF ToSet
      <4>2. i + 1 \in DOMAIN n /\ n[i + 1] = e
        BY <1>4, <4>1
      <4> QED BY <4>2 DEF ToSet
    <3>3. pair \in ToSet(n)
      BY <1>4 DEF ToSet
    <3> QED BY <3>1, <3>2, <3>3
  <2> QED BY <1>3, <2>1 DEF IsSequence
<1>6. IsFirst(n, 1)
  BY DEF IsFirst
<1>7. \A i \in 1 .. len : IsFirst(n, i + 1) <=> pair[1] # m[i][1] /\ IsFirst(m, i)
  <2> SUFFICES ASSUME NEW i \in 1 .. len
               PROVE  IsFirst(n, i + 1) <=> pair[1] # m[i][1] /\ IsFirst(m, i)
    OBVIOUS
  <2>1. ASSUME IsFirst(n, i + 1) PROVE pair[1] # m[i][1]
    <3>1. 1 \in 1 .. (i + 1) - 1
      OBVIOUS
    <3> QED BY <1>4, <2>1, <3>1 DEF IsFirst
  <2>2. ASSUME IsFirst(n, i + 1), NEW k \in 1 .. i - 1 PROVE m[k][1] # m[i][1]
    <3>1. k + 1 \in 1 .. (i + 1) - 1 /\ k \in 1 .. len
      OBVIOUS
    <3>2. n[k + 1][1] # n[i + 1][1]
      BY <2>2, <3>1 DEF IsFirst
    <3> QED BY <1>4, <3>1, <3>2
  <2>3. ASSUME pair[1] # m[i][1], IsFirst(m, i), NEW k \in 1 .. (i + 1) - 1
        PROVE  n[k][1] # n[i + 1][1]
    <3>1. CASE k = 1
      BY <1>4, <2>3, <3>1
    <3>2. CASE k # 1
      <4>1. PICK j \in 1 .. i - 1 : k = j + 1
        BY <3>2
      <4>2. m[j][1] # m[i][1]
        BY <2>3 DEF IsFirst
      <4>3. j \in 1 .. len
        OBVIOUS
      <4> QED BY <1>4, <4>1, <4>2, <4>3
    <3> QED BY <3>1, <3>2
  <2> QED BY <2>1, <2>2, <2>3 DEF IsFirst
<1>8. toHash(n) = {e \in toHash(m) : e[1] # pair[1]} \cup {pair}
  <2>1. ASSUME NEW e \in toHash(n), e # pair PROVE e \in toHash(m) /\ e[1] # pair[1]
    <3>1. PICK k \in 1 .. len + 1 : e = n[k] /\ IsFirst(n, k)
      BY <1>4 DEF toHash
    <3>2. PICK i \in 1 .. len : k = i + 1
      BY <1>4, <2>1, <3>1
    <3>3. e = m[i] /\ pair[1] # m[i][1] /\ IsFirst(m, i)
      BY <1>4, <1>7, <3>1, <3>2
    <3> QED BY <1>2, <3>3 DEF toHash
  <2>2. ASSUME NEW e \in toHash(m), e[1] # pair[1] PROVE e \in toHash(n)
    <3>1. PICK i \in 1 .. len : e = m[i] /\ IsFirst(m, i)
      BY <1>2 DEF toHash
    <3>2. i + 1 \in DOMAIN n /\ IsFirst(n, i + 1) /\ n[i + 1] = e
      BY <1>4, <1>7, <2>2, <3>1
    <3> QED BY <3>2 DEF toHash
  <2>3. pair \in toHash(n)
    <3>1. 1 \in DOMAIN n
      BY <1>4
    <3> QED BY <1>4, <1>6, <3>1 DEF toHash
  <2> QED BY <2>1, <2>2, <2>3
<1> QED BY <1>1, <1>5, <1>8

\* addMetadata().
LEMMA WithPairOK ==
    ASSUME NEW p, PayloadOK(p), HashOK(p), IsSequence(p.multi), NEW pair
    PROVE  LET q == WithPair(p, pair)
           IN  PayloadOK(q) /\ HashOK(q) /\ IsSequence(q.multi)
<1>1. CASE pair \in ToSet(p.multi)
  BY <1>1 DEF WithPair
<1>2. CASE pair \notin ToSet(p.multi)
  <2>0. PICK multi, hash : /\ multi = <<pair>> \o p.multi
                           /\ hash = {e \in p.hash : e[1] # pair[1]} \cup {pair}
    OBVIOUS
  <2>1. PICK q : q = PutBoth(p, multi, hash)
    OBVIOUS
  <2>2. PayloadOK(q) /\ q.hash = hash /\ q.multi = multi
    BY <2>1, MetadataPut
  <2>3. WithPair(p, pair) = q
    <3>1. [p EXCEPT !.multi = <<pair>> \o @, !.hash = {e \in @ : e[1] # pair[1]} \cup {pair}] = q
      BY <2>0, <2>1 DEF PutBoth, PayloadOK, IsPayload
    <3> QED BY <1>2, <3>1 DEF WithPair
  <2>4. IsSequence(multi) /\ toHash(multi) = hash
    BY <2>0, HashOfPair DEF HashOK
  <2> QED BY <2>2, <2>3, <2>4 DEF HashOK
<1> QED BY <1>1, <1>2

\* The negotiation of the content-type only sets the format.
LEMMA NegotiatedOK ==
    ASSUME NEW p, PayloadOK(p)
    PROVE  LET q == Negotiated(p)
           IN  /\ PayloadOK(q) /\ q.multi = p.multi /\ q.hash = p.hash
<1>1. PICK found : found = {i \in DOMAIN p.multi : p.multi[i][1] = "content-type"}
  OBVIOUS
<1>2. PICK format : format = FormatOf(p.multi[CHOOSE i \in found : \A k \in found : i <= k][2])
  OBVIOUS
<1>3. Negotiated(p) \in {p, Put(p, "format", format)}
  BY <1>1, <1>2 DEF Negotiated, Put
<1>4. /\ PayloadOK(Put(p, "format", format))
      /\ \A g \in PayloadFields \ {"format"} : Put(p, "format", format)[g] = p[g]
  BY MemberOK DEF PayloadFields, Durations
<1> QED BY <1>3, <1>4 DEF PayloadFields
-----------------------------------------------------------------------------
(* Edits and copies of objects. *)

\* The store s after an edit of object o to payload q and value v.
Edits(s, o, q, v) == [Edit(s, o, q) EXCEPT !.value[o] = v]

\* An edit and its record in the object's own value.
LEMMA EditsSound ==
    ASSUME NEW s, StoreOK(s), NEW o \in Objects, NEW q, NEW v
    PROVE  Edit(s, o, q).value[o] = s.value[o] /\ After(s, o, q, v, Edits(s, o, q, v))
<1>1. PICK x : x = Edit(s, o, q)
  OBVIOUS
<1>2. After(s, o, q, s.value[o], x)
  BY <1>1, EditSound
<1>3. PICK r : r = [x EXCEPT !.value[o] = v]
  OBVIOUS
<1>4. r = [d |-> x.d, payload |-> x.payload, value |-> [x.value EXCEPT ![o] = v]]
  BY <1>2, <1>3 DEF After, StoreOK
<1>5. After(s, o, q, v, r)
  BY <1>2, <1>4 DEF After, StoreOK, Val
<1> QED BY <1>1, <1>2, <1>3, <1>5 DEF Edits, After

\* An object that has not been moved from has its own value, with which the
\* channel can work and in which the two views of the metadata agree.
ObjectOK(p, v) == p = v /\ PayloadOK(p) /\ HashOK(p)
ObjectsOK(s, gone) == StoreOK(s) /\ \A o \in Objects \ gone : ObjectOK(Val(s, o), s.value[o])

\* One object is written, the others stay.
LEMMA ObjectWritten ==
    ASSUME NEW s, NEW gone, ObjectsOK(s, gone), NEW o \in Objects, NEW q, NEW r,
           After(s, o, q, q, r), PayloadOK(q), HashOK(q)
    PROVE  ObjectsOK(r, gone \ {o})
BY DEF ObjectsOK, After, ObjectOK

\* The store of the next state.
LEMMA StoreBecomes ==
    ASSUME NEW r, StoreOK(r), Becomes(r)
    PROVE  Store' = r
BY DEF Becomes, Store, StoreOK

ChannelFields == {"exists", "ssl", "socketType", "hostUri", "authority", "scheme", "contentType",
                  "initial", "maximum", "current", "delay", "failures", "windows", "headerList",
                  "connectTimeout", "env", "rpc"}

\* A channel, if there is one, works, and its backoff counts in milliseconds.
Exists(c) ==
    /\ c = [f \in ChannelFields |-> c[f]]
    /\ c.exists = TRUE
    /\ c.initial \in Nat /\ c.maximum \in Nat /\ c.current \in Nat /\ c.delay \in Nat
    /\ c.failures \in Nat
    /\ c.env.receive \subseteq Int
    /\ Works(c) /\ BackoffGrows(c)

ChannelOK(c) == c = NoChannel \/ Exists(c)

\* Without elements: the metadata are sequences, and no element is bound.
ClassesInv(s, gone, md, op) ==
    /\ \A o \in Objects \ gone : IsSequence(Val(s, o).multi)
    /\ md = [e \in OptionElements |-> Null]
    /\ op = Null

\* The options have the metadata of their metadata element ...
Bound(s, dt, md) ==
    \A e \in OptionElements :
        md[e] # Null => ToSet(Val(s, e).multi) = ToSet(MetadataOf(dt[md[e]]))

\* ... and the channel has the options of its options element.
Taken(s, exists, op) ==
    exists /\ op # Null => Val(s, Channels) \in {Val(s, op), Negotiated(Val(s, op))}

\* With elements: nothing is moved from, and the elements are in effect.
ElementsInv(s, gone, dt, md, op, exists) ==
    /\ gone = {}
    /\ dt = [m \in Metadatas |-> dt[m]]
    /\ md \in [OptionElements -> Metadatas \cup {Null}]
    /\ op \in ChannelOptions \cup {Null}
    /\ Bound(s, dt, md)
    /\ Taken(s, exists, op)

ConfigInv ==
    /\ ObjectsOK(Store, moved)
    /\ moved \subseteq ChannelOptions
    /\ ChannelOK(channel)
    /\ ~qml => ClassesInv(Store, moved, metadata, options)
    /\ qml => ElementsInv(Store, moved, data, metadata, options, channel.exists)
-----------------------------------------------------------------------------
(* The steps of an application that uses the classes. *)

\* A setter gives its object a value that the channel can work with.
LEMMA SetStep ==
    ASSUME ConfigInv, ~qml, NEW o \in ChannelOptions, o \notin moved, NEW q,
           PayloadOK(q), HashOK(q), IsSequence(q.multi),
           Becomes(Edits(Store, o, q, q)), UNCHANGED <<moved, channel, elements>>
    PROVE  ConfigInv'
<1>1. PICK s, r : s = Store /\ r = Edits(s, o, q, q)
  OBVIOUS
<1>2. o \in Objects /\ StoreOK(s)
  BY <1>1 DEF ConfigInv, ObjectsOK, ChannelOptions, Objects
<1>3. After(s, o, q, q, r)
  BY <1>1, <1>2, EditsSound
<1>4. Store' = r
  BY <1>1, <1>3, StoreBecomes DEF After
<1>5. moved \ {o} = moved
  OBVIOUS
<1>6. ObjectsOK(r, moved)
  BY <1>1, <1>2, <1>3, <1>5, ObjectWritten DEF ConfigInv
<1>7. \A p \in Objects \ moved : IsSequence(Val(r, p).multi)
  BY <1>1, <1>3 DEF ConfigInv, ClassesInv, After
<1> QED BY <1>4, <1>6, <1>7 DEF ConfigInv, ClassesInv, elements

\* An object of the user that has not been moved from.
LEMMA ObjectAtHand ==
    ASSUME ConfigInv, ~qml, NEW o \in Objects, o \notin moved
    PROVE  /\ StoreOK(Store) /\ Store.value[o] = Val(Store, o)
           /\ PayloadOK(Val(Store, o)) /\ HashOK(Val(Store, o)) /\ IsSequence(Val(Store, o).multi)
BY DEF ConfigInv, ObjectsOK, ObjectOK, ClassesInv

\* The setters of the options classes.
LEMMA SettersStep ==
    ASSUME ConfigInv, ~qml, UNCHANGED elements, NEW o \in ChannelOptions,
           \/ \E field \in DOMAIN Fields : \E v \in Fields[field] : SetField(o, field, v)
           \/ \E multi \in Multis : SetMulti(o, multi)
           \/ \E hash \in Hashes : SetHash(o, hash)
           \/ \E pair \in Pairs : AddMetadata(o, pair)
    PROVE  ConfigInv'
<1>0. o \in Objects
  BY DEF ChannelOptions, Objects
<1>1. o \notin moved /\ UNCHANGED <<moved, channel, elements>>
  BY DEF SetField, SetMulti, SetHash, AddMetadata, Set
<1>2. PICK p : p = Val(Store, o)
  OBVIOUS
<1>3. StoreOK(Store) /\ Store.value[o] = p /\ PayloadOK(p) /\ HashOK(p) /\ IsSequence(p.multi)
  BY <1>0, <1>1, <1>2, ObjectAtHand
<1>4. SUFFICES \E q : /\ PayloadOK(q) /\ HashOK(q) /\ IsSequence(q.multi)
                      /\ Becomes(Edits(Store, o, q, q))
  BY <1>1, SetStep
<1>5. ASSUME NEW field \in DOMAIN Fields, NEW v \in Fields[field], SetField(o, field, v)
      PROVE  \E q : /\ PayloadOK(q) /\ HashOK(q) /\ IsSequence(q.multi)
                    /\ Becomes(Edits(Store, o, q, q))
  <2>1. PICK q : q = Assigned(p, field, v)
    OBVIOUS
  <2>2. DOMAIN Empty = PayloadFields
    BY DEF Empty, PayloadFields
  <2>3. field \in PayloadFields \ {"multi", "hash"}
    BY <1>5, <2>2, InputAssumption
  <2>4. (field \in Numeric => v \in Int) /\ (field = "ssl" => v \in BOOLEAN)
    BY <1>5, InputAssumption DEF Numeric
  <2>5. PayloadOK(q) /\ q.multi = p.multi /\ q.hash = p.hash
    BY <1>3, <2>1, <2>3, <2>4, AssignedOK
  <2>6. Becomes(Edits(Store, o, q, q))
    BY <1>0, <1>2, <1>3, <1>5, <2>1, EditsSound DEF SetField, Set, Edited, Edits, Val
  <2> QED BY <1>3, <2>5, <2>6 DEF HashOK
<1>6. ASSUME NEW multi \in Multis, SetMulti(o, multi)
      PROVE  \E q : /\ PayloadOK(q) /\ HashOK(q) /\ IsSequence(q.multi)
                    /\ Becomes(Edits(Store, o, q, q))
  <2>1. PICK q : q = WithMulti(p, multi)
    OBVIOUS
  <2>2. PayloadOK(q) /\ HashOK(q) /\ q.multi \in {p.multi, multi}
    BY <1>3, <2>1, WithMultiOK
  <2>3. IsSequence(multi)
    BY <1>6, InputAssumption DEF IsSequence
  <2>4. Becomes(Edits(Store, o, q, q))
    BY <1>0, <1>2, <1>3, <1>6, <2>1, EditsSound DEF SetMulti, Set, Edited, Edits, Val
  <2> QED BY <1>3, <2>2, <2>3, <2>4
<1>7. ASSUME NEW hash \in Hashes, SetHash(o, hash)
      PROVE  \E q : /\ PayloadOK(q) /\ HashOK(q) /\ IsSequence(q.multi)
                    /\ Becomes(Edits(Store, o, q, q))
  <2>1. PICK q : q = WithHash(p, hash)
    OBVIOUS
  <2>2. IsFiniteSet(hash) /\ \A e, f \in hash : e[1] = f[1] => e = f
    BY <1>7, InputAssumption
  <2>3. PayloadOK(q) /\ HashOK(q) /\ IsSequence(q.multi)
    BY <1>3, <2>1, <2>2, WithHashOK
  <2>4. Becomes(Edits(Store, o, q, q))
    BY <1>0, <1>2, <1>3, <1>7, <2>1, EditsSound DEF SetHash, Set, Edited, Edits, Val
  <2> QED BY <2>3, <2>4
<1>8. ASSUME NEW pair \in Pairs, AddMetadata(o, pair)
      PROVE  \E q : /\ PayloadOK(q) /\ HashOK(q) /\ IsSequence(q.multi)
                    /\ Becomes(Edits(Store, o, q, q))
  <2>1. PICK q : q = WithPair(p, pair)
    OBVIOUS
  <2>2. PayloadOK(q) /\ HashOK(q) /\ IsSequence(q.multi)
    BY <1>3, <2>1, WithPairOK
  <2>3. Becomes(Edits(Store, o, q, q))
    BY <1>0, <1>2, <1>3, <1>8, <2>1, EditsSound DEF AddMetadata, Set, Edited, Edits, Val
  <2> QED BY <2>2, <2>3
<1> QED BY <1>5, <1>6, <1>7, <1>8

\* Metadata is moved out of an object only if its payload is its own.
LEMMA TakeStep ==
    ASSUME ConfigInv, ~qml, UNCHANGED elements, NEW o \in ChannelOptions, TakeMetadata(o)
    PROVE  ConfigInv'
<1>0. o \in Objects /\ StoreOK(Store)
  BY DEF ConfigInv, ObjectsOK, ChannelOptions, Objects
<1>1. PICK p : Take(o, p)
  BY DEF TakeMetadata
<1>2. UNCHANGED <<d, value, channel, elements>>
  BY DEF TakeMetadata
<1>3. CASE Ref(Store, d[o]) # 1
  <2>1. UNCHANGED <<payload, moved>>
    BY <1>1, <1>3 DEF Take
  <2> QED BY <1>2, <2>1 DEF ConfigInv, Store, elements
<1>4. CASE Ref(Store, d[o]) = 1
  <2>1. payload' = [payload EXCEPT ![d[o]] = p] /\ moved' = moved \cup {o}
    BY <1>1, <1>4 DEF Take
  <2>2. PICK s, r : s = Store /\ r = Store'
    OBVIOUS
  <2>3. /\ s.d = d /\ s.payload = payload /\ s.value = value
        /\ r.d = d /\ r.payload = payload' /\ r.value = value
    BY <1>2, <2>2 DEF Store
  <2>4. \A x \in Objects \ {o} : d[x] # d[o]
    BY <1>0, <1>4, <2>2, <2>3, RefCounts
  <2>5. StoreOK(r)
    BY <1>0, <1>2, <2>1, <2>2 DEF StoreOK, Store
  <2>6. \A x \in Objects \ {o} : Val(r, x) = Val(s, x)
    BY <1>0, <2>1, <2>2, <2>3, <2>4 DEF StoreOK, Val
  <2>7. ObjectsOK(r, moved')
    BY <2>1, <2>2, <2>3, <2>5, <2>6 DEF ConfigInv, ObjectsOK
  <2>8. ClassesInv(r, moved', metadata, options)
    BY <2>1, <2>2, <2>6 DEF ConfigInv, ClassesInv
  <2>9. moved' \subseteq ChannelOptions
    BY <2>1 DEF ConfigInv
  <2> QED BY <1>2, <2>2, <2>7, <2>8, <2>9 DEF ConfigInv, elements
<1> QED BY <1>3, <1>4

\* A copy shares the payload of an object that has not been moved from.
LEMMA CopyStep ==
    ASSUME ConfigInv, ~qml, UNCHANGED elements,
           NEW from \in ChannelOptions, NEW to \in Objects, Copy(from, to)
    PROVE  ConfigInv'
<1>1. PICK s, r : s = Store /\ r = Assign(s, from, to)
  OBVIOUS
<1>2. /\ from \in Objects /\ from \notin moved
      /\ moved' = moved \ {to} /\ UNCHANGED channel /\ Becomes(r)
  BY <1>1 DEF Copy, ChannelOptions, Objects
<1>3. PICK p : p = Val(s, from)
  OBVIOUS
<1>4. StoreOK(s) /\ s.value[from] = p /\ PayloadOK(p) /\ HashOK(p) /\ IsSequence(p.multi)
  BY <1>1, <1>2, <1>3, ObjectAtHand
<1>5. After(s, to, p, p, r)
  BY <1>1, <1>2, <1>3, <1>4, AssignSound
<1>6. Store' = r
  BY <1>2, <1>5, StoreBecomes DEF After
<1>7. ObjectsOK(r, moved')
  BY <1>1, <1>2, <1>4, <1>5, ObjectWritten DEF ConfigInv
<1>8. ClassesInv(r, moved', metadata, options)
  BY <1>1, <1>2, <1>4, <1>5 DEF ConfigInv, ClassesInv, After
<1> QED BY <1>2, <1>6, <1>7, <1>8 DEF ConfigInv, elements
-----------------------------------------------------------------------------
(* What a channel computes. *)

\* An optional or its default.
LEMMA ValueOrIn ==
    ASSUME NEW S, NEW optional, optional \subseteq S, NEW default \in S
    PROVE  ValueOr(optional, default) \in S
BY DEF ValueOr, Unset

\* A number clamped to a range is in it.
LEMMA ClampIn ==
    ASSUME NEW n \in Int, NEW floor \in Nat, NEW cap \in Nat, floor <= cap
    PROVE  clampToRange(n, floor, cap) \in floor .. cap
BY DEF clampToRange

\* A variable of the environment that is negative is ignored.
LEMMA EnvironmentRead ==
    ASSUME NEW v, v \subseteq Int
    PROVE  readEnvUnsignedInt(v) \subseteq Nat /\ readEnvUnsignedInt(v) \subseteq Int
<1>1. ASSUME NEW n \in readEnvUnsignedInt(v) PROVE n \in Nat /\ n \in Int
  <2>1. n \in Int /\ n >= 0
    BY DEF readEnvUnsignedInt
  <2> QED BY <2>1
<1> QED BY <1>1

\* The backoff is not negative and does not start above its maximum.
LEMMA BackoffConstructed ==
    ASSUME NEW p, PayloadOK(p), NEW env \in Environments
    PROVE  LET b == constructReconnectBackoff(p, env)
           IN  b.initial \in Nat /\ b.maximum \in Nat /\ b.initial <= b.maximum
<1>1. PICK ini, max : /\ ini = resolveMs(p.initial, readEnvUnsignedInt(env.initial), DefaultInitialBackoff)
                      /\ max = resolveMs(p.maximum, readEnvUnsignedInt(env.maximum), DefaultMaximumBackoff)
  OBVIOUS
<1>2. p.initial \subseteq Nat /\ p.maximum \subseteq Nat
  BY DEF PayloadOK, Durations
<1>3. /\ readEnvUnsignedInt(env.initial) \subseteq Nat
      /\ readEnvUnsignedInt(env.maximum) \subseteq Nat
  BY InputAssumption, EnvironmentRead
<1>4. DefaultInitialBackoff \in Nat /\ DefaultMaximumBackoff \in Nat
  BY LimitsAssumption
<1>5. ini \in Nat
  BY <1>1, <1>2, <1>3, <1>4, ValueOrIn DEF resolveMs
<1>6. max \in Nat
  BY <1>1, <1>2, <1>3, <1>4, ValueOrIn DEF resolveMs
<1>7. constructReconnectBackoff(p, env) = [initial |-> IF ini > max THEN max ELSE ini, maximum |-> max]
  BY <1>1 DEF constructReconnectBackoff
<1> QED BY <1>5, <1>6, <1>7

\* The windows of a stream and of the connection.
LEMMA WindowsConstructed ==
    ASSUME NEW env \in Environments
    PROVE  LET w == constructReceiveWindowSizes(env)
           IN  /\ MinimumStreamWindow <= w.stream /\ w.stream <= w.connection
               /\ DefaultSessionWindow <= w.connection /\ w.connection <= MaxWindow
<1>1. PICK v : v = ValueOr(readEnvUnsignedInt(env.stream), DefaultStreamWindow)
  OBVIOUS
<1>2. PICK stream : stream = clampToRange(v, MinimumStreamWindow, MaxWindow)
  OBVIOUS
<1>3. PICK def : def = clampToRange(stream * 4, DefaultSessionWindow, MaxWindow)
  OBVIOUS
<1>4. PICK u : u = ValueOr(readEnvUnsignedInt(env.connection), def)
  OBVIOUS
<1>5. PICK connection : connection = clampToRange(u, DefaultSessionWindow, MaxWindow)
  OBVIOUS
<1>6. /\ readEnvUnsignedInt(env.stream) \subseteq Int
      /\ readEnvUnsignedInt(env.connection) \subseteq Int
  BY InputAssumption, EnvironmentRead
<1>7. /\ MinimumStreamWindow \in Nat /\ DefaultSessionWindow \in Nat /\ MaxWindow \in Nat
      /\ DefaultStreamWindow \in Int
      /\ MinimumStreamWindow <= DefaultSessionWindow /\ DefaultSessionWindow <= MaxWindow
      /\ MinimumStreamWindow <= MaxWindow
  BY LimitsAssumption
<1>8. v \in Int
  BY <1>1, <1>6, <1>7, ValueOrIn
<1>9. stream \in MinimumStreamWindow .. MaxWindow
  BY <1>2, <1>7, <1>8, ClampIn
<1>10. stream * 4 \in Int
  BY <1>7, <1>9
<1>11. def \in DefaultSessionWindow .. MaxWindow
  BY <1>3, <1>7, <1>10, ClampIn
<1>12. def \in Int
  BY <1>7, <1>11
<1>13. u \in Int
  BY <1>4, <1>6, <1>12, ValueOrIn
<1>14. connection \in DefaultSessionWindow .. MaxWindow
  BY <1>5, <1>7, <1>13, ClampIn
<1>15. constructReceiveWindowSizes(env)
         = [stream |-> IF connection < stream THEN connection ELSE stream, connection |-> connection]
  BY <1>1, <1>2, <1>3, <1>4, <1>5 DEF constructReceiveWindowSizes
<1> QED BY <1>7, <1>9, <1>14, <1>15

\* The limit of the metadata.
LEMMA HeaderListConstructed ==
    ASSUME NEW env, env.metadata \subseteq Int, NEW p, PayloadOK(p)
    PROVE  MaxHeaderListSize(p, env) \in MinimumMetadataSize .. MetadataCap
<1>1. PICK e : e = readEnvUnsignedInt(env.metadata)
  OBVIOUS
<1>2. e \subseteq Int /\ p.metadataSize \subseteq Int
  BY <1>1, EnvironmentRead DEF PayloadOK
<1>3. /\ MinimumMetadataSize \in Nat /\ MetadataCap \in Nat /\ MinimumMetadataSize <= MetadataCap
      /\ DefaultMetadataSize \in Int
  BY LimitsAssumption
<1>4. ValueOr(p.metadataSize, ValueOr(e, DefaultMetadataSize)) \in Int
  BY <1>2, <1>3, ValueOrIn
<1> QED BY <1>1, <1>3, <1>4, ClampIn DEF MaxHeaderListSize

\* The limit of a message.
LEMMA ReceiveConstructed ==
    ASSUME NEW env, env.receive \subseteq Int, NEW p, PayloadOK(p), NEW call, call \subseteq Int
    PROVE  constructMaximumReceiveSize(call, p.receive, env) \in 0 .. GrpcMaxPayloadSize
<1>1. PICK e : e = readEnvUnsignedInt(env.receive)
  OBVIOUS
<1>2. e \subseteq Int /\ p.receive \subseteq Int
  BY <1>1, EnvironmentRead DEF PayloadOK
<1>3. DefaultReceiveSize \in Int /\ GrpcMaxPayloadSize \in Nat /\ 0 \in Nat /\ 0 <= GrpcMaxPayloadSize
  BY LimitsAssumption
<1>4. ValueOr(e, DefaultReceiveSize) \in Int
  BY <1>2, <1>3, ValueOrIn
<1>5. ValueOr(p.receive, ValueOr(e, DefaultReceiveSize)) \in Int
  BY <1>2, <1>4, ValueOrIn
<1>6. ValueOr(call, ValueOr(p.receive, ValueOr(e, DefaultReceiveSize))) \in Int
  BY <1>5, ValueOrIn
<1> QED BY <1>1, <1>3, <1>6, ClampIn DEF constructMaximumReceiveSize

\* The URI of a channel has a port where one is needed, and selects the same
\* transport again.
LEMMA HostConstructed ==
    ASSUME NEW uri, uri.port \in Int, NEW ssl \in BOOLEAN
    PROVE  LET type == constructSocketType(uri, ssl)
               host == sanitizeHostUri(uri, ssl)
           IN  /\ type \in {"Tcp", "Tls"} => host.port >= 0
               /\ \A again \in {FALSE, ssl} :
                      constructSocketType(host, again) = type /\ sanitizeHostUri(host, again) = host
<1>1. PICK type, host : type = constructSocketType(uri, ssl) /\ host = sanitizeHostUri(uri, ssl)
  OBVIOUS
<1>2. CASE uri.scheme \in {"unix", "unix-abstract"}
  BY <1>1, <1>2 DEF constructSocketType, sanitizeHostUri
<1>3. CASE uri.scheme \notin {"unix", "unix-abstract"} /\ (uri.scheme = "https" \/ ssl)
  <2>1. PICK port : port = DefaultPort(uri, 443)
    OBVIOUS
  <2>2. port \in Int /\ port >= 0
    BY <2>1 DEF DefaultPort
  <2>3. type = "Tls" /\ host = [scheme |-> "https", port |-> port]
    BY <1>1, <1>3, <2>1 DEF constructSocketType, sanitizeHostUri
  <2> QED BY <1>1, <2>2, <2>3 DEF constructSocketType, sanitizeHostUri, DefaultPort
<1>4. CASE uri.scheme \notin {"unix", "unix-abstract"} /\ ~(uri.scheme = "https" \/ ssl)
  <2>1. PICK port : port = DefaultPort(uri, 80)
    OBVIOUS
  <2>2. port \in Int /\ port >= 0
    BY <2>1 DEF DefaultPort
  <2>3. type = "Tcp" /\ host = [scheme |-> "http", port |-> port]
    BY <1>1, <1>4, <2>1 DEF constructSocketType, sanitizeHostUri
  <2> QED BY <1>1, <1>4, <2>2, <2>3 DEF constructSocketType, sanitizeHostUri, DefaultPort
<1> QED BY <1>2, <1>3, <1>4

\* A channel that has just been constructed.
LEMMA ChannelConstructed ==
    ASSUME NEW uri \in Uris, NEW env \in Environments, NEW p, PayloadOK(p), NEW q, PayloadOK(q)
    PROVE  Exists(Constructed(uri, env, p, q))
<1>1. PICK c : c = Constructed(uri, env, p, q)
  OBVIOUS
<1>2. PICK type, host, b, w : /\ type = constructSocketType(uri, p.ssl)
                              /\ host = sanitizeHostUri(uri, p.ssl)
                              /\ b = constructReconnectBackoff(p, env)
                              /\ w = constructReceiveWindowSizes(env)
  OBVIOUS
<1>3. PICK list, time, auth, schm : /\ list = MaxHeaderListSize(q, env)
                        /\ time = resolveMs(p.connectTimeout, readEnvUnsignedInt(env.connectTimeout),
                                            DefaultConnectTimeout)
                        /\ auth = constructAuthorityHeader(host, type)
                        /\ schm = constructSchemeHeader(type)
  OBVIOUS
<1>4. c = [exists |-> TRUE, ssl |-> p.ssl, socketType |-> type, hostUri |-> host,
           authority |-> auth, scheme |-> schm, contentType |-> q.format,
           initial |-> b.initial, maximum |-> b.maximum,
           current |-> b.initial, delay |-> 0, failures |-> 0,
           windows |-> w, headerList |-> list, connectTimeout |-> time,
           env |-> env, rpc |-> NoRpc]
  BY <1>1, <1>2, <1>3 DEF Constructed
<1>5. c = [f \in ChannelFields |-> c[f]]
  BY <1>4 DEF ChannelFields
<1>6. /\ c.exists = TRUE /\ c.ssl = p.ssl /\ c.socketType = type /\ c.hostUri = host
      /\ c.initial = b.initial /\ c.maximum = b.maximum /\ c.current = b.initial
      /\ c.delay = 0 /\ c.failures = 0 /\ c.windows = w /\ c.headerList = list
      /\ c.connectTimeout = time /\ c.env = env /\ c.rpc.receive = 0
  BY <1>4 DEF NoRpc
<1>7. b.initial \in Nat /\ b.maximum \in Nat /\ b.initial <= b.maximum
  BY <1>2, BackoffConstructed
<1>8. BackoffGrows(c)
  BY <1>6, <1>7 DEF BackoffGrows
<1>9. env.metadata \subseteq Int /\ env.receive \subseteq Int /\ uri.port \in Int
  BY InputAssumption
<1>10. list \in MinimumMetadataSize .. MetadataCap
  BY <1>3, <1>9, HeaderListConstructed
<1>11. time \in Nat
  <2>1. readEnvUnsignedInt(env.connectTimeout) \subseteq Nat
    BY InputAssumption, EnvironmentRead
  <2>2. p.connectTimeout \subseteq Nat /\ DefaultConnectTimeout \in Nat
    BY LimitsAssumption DEF PayloadOK, Durations
  <2> QED BY <1>3, <2>1, <2>2, ValueOrIn DEF resolveMs
<1>12. /\ type \in {"Tcp", "Tls"} => host.port >= 0
       /\ \A again \in {FALSE, p.ssl} :
              constructSocketType(host, again) = type /\ sanitizeHostUri(host, again) = host
  BY <1>2, <1>9, HostConstructed DEF PayloadOK
<1>13. /\ MinimumStreamWindow <= w.stream /\ w.stream <= w.connection
       /\ DefaultSessionWindow <= w.connection /\ w.connection <= MaxWindow
  BY <1>2, WindowsConstructed
<1>14. 0 \in 0 .. GrpcMaxPayloadSize /\ time >= 0
  BY <1>11, LimitsAssumption
<1>15. Works(c)
  BY <1>6, <1>10, <1>12, <1>13, <1>14 DEF Works
<1> QED BY <1>1, <1>5, <1>6, <1>7, <1>8, <1>9, <1>15 DEF Exists

\* A channel with some of its members replaced that do not matter for Works.
LEMMA WorksStill ==
    ASSUME NEW c, Exists(c), NEW e,
           \A f \in {"windows", "headerList", "connectTimeout", "socketType", "hostUri", "ssl"} :
               e[f] = c[f],
           e["rpc"].receive \in 0 .. GrpcMaxPayloadSize
    PROVE  Works(e)
<1>1. /\ e.windows = c.windows /\ e.headerList = c.headerList /\ e.ssl = c.ssl
      /\ e.connectTimeout = c.connectTimeout /\ e.socketType = c.socketType
      /\ e.hostUri = c.hostUri
  OBVIOUS
<1> QED BY <1>1 DEF Exists, Works

\* A backoff that has grown from ini with every one of fails failures.
Growth(ini, max, cur, fails) ==
    /\ ini \in Nat /\ max \in Nat /\ cur \in Nat /\ fails \in Nat
    /\ ini <= max /\ cur <= max
    /\ IF ini = 0 THEN cur = 0 ELSE cur = max \/ cur >= ini + fails

Capped(x, max) == IF x >= max THEN max ELSE x

\* What a failure makes of the backoff.
LEMMA BackoffStep ==
    ASSUME NEW ini, NEW max, NEW cur, NEW fails, Growth(ini, max, cur, fails),
           NEW delay \in Jittered(cur)
    PROVE  /\ Growth(ini, max, Capped(Grown(cur), max), fails + 1)
           /\ delay \in Nat /\ 10 * delay <= 12 * max
<1>0. PICK next : next = Capped(Grown(cur), max)
  OBVIOUS
<1>a. /\ ini \in Nat /\ max \in Nat /\ cur \in Nat /\ fails \in Nat
       /\ ini <= max /\ cur <= max
       /\ IF ini = 0 THEN cur = 0 ELSE cur = max \/ cur >= ini + fails
  BY DEF Growth
<1>1. PICK g : g = (8 * cur + 4) \div 5
  OBVIOUS
<1>2. g \in Nat /\ 5 * g <= 8 * cur + 4 /\ 8 * cur + 4 < 5 * g + 5
  BY <1>a, <1>1
<1>3. next = IF g >= max THEN max ELSE g
  BY <1>0, <1>1 DEF Grown, Capped
<1>4. next \in Nat /\ next <= max
  BY <1>a, <1>2, <1>3
<1>5. ini = 0 => next = 0
  BY <1>a, <1>2, <1>3
<1>6. ini # 0 => next = max \/ next >= ini + (fails + 1)
  BY <1>a, <1>2, <1>3
<1>7. PICK lo, hi : lo = (cur * 8) \div 10 /\ hi = (cur * 12) \div 10
  OBVIOUS
<1>8. lo \in Nat /\ hi \in Nat /\ 10 * lo <= 12 * cur /\ 10 * hi <= 12 * cur
  BY <1>a, <1>7
<1>9. delay \in {lo, hi}
  BY <1>7 DEF Jittered
<1>10. Growth(ini, max, next, fails + 1)
  BY <1>a, <1>4, <1>5, <1>6 DEF Growth
<1> QED BY <1>0, <1>a, <1>8, <1>9, <1>10

\* A failed connection attempt.
LEMMA NextDelayOK ==
    ASSUME ChannelOK(channel), NextDelay
    PROVE  Exists(channel')
<1>1. Exists(channel)
  BY DEF NextDelay, ChannelOK, NoChannel
<1>2. PICK c : c = channel
  OBVIOUS
<1>3. PICK delay \in Jittered(c.current) :
        channel' = [c EXCEPT
               !.current = IF Grown(@) >= c.maximum THEN c.maximum ELSE Grown(@),
               !.delay = delay,
               !.failures = @ + 1]
  BY <1>2 DEF NextDelay
<1>4. PICK next : next = IF Grown(c.current) >= c.maximum THEN c.maximum ELSE Grown(c.current)
  OBVIOUS
<1>5. PICK e : e = [f \in ChannelFields |-> CASE f = "current" -> next
                                             [] f = "delay" -> delay
                                             [] f = "failures" -> c.failures + 1
                                             [] OTHER -> c[f]]
  OBVIOUS
<1>6. channel' = e
  BY <1>1, <1>2, <1>3, <1>4, <1>5 DEF Exists, ChannelFields
<1>7. /\ e = [f \in ChannelFields |-> e[f]] /\ e.exists = TRUE
      /\ e.current = next /\ e.delay = delay /\ e.failures = c.failures + 1
      /\ e.initial = c.initial /\ e.maximum = c.maximum /\ e.env = c.env
      /\ \A f \in {"windows", "headerList", "connectTimeout", "socketType", "hostUri", "ssl", "rpc"} :
             e[f] = c[f]
  BY <1>1, <1>2, <1>5 DEF Exists, ChannelFields
<1>8. Growth(c.initial, c.maximum, c.current, c.failures)
  BY <1>1, <1>2 DEF Exists, BackoffGrows, Growth
<1>9. Growth(c.initial, c.maximum, next, c.failures + 1) /\ delay \in Nat /\ 10 * delay <= 12 * c.maximum
  <2>1. next = Capped(Grown(c.current), c.maximum)
    BY <1>4 DEF Capped
  <2> QED BY <1>8, <2>1, BackoffStep
<1>10. BackoffGrows(e)
  BY <1>7, <1>8, <1>9 DEF BackoffGrows, Growth
<1>11. Works(e)
  <2>1. e["rpc"].receive \in 0 .. GrpcMaxPayloadSize
    BY <1>1, <1>2, <1>7 DEF Exists, Works
  <2> QED BY <1>1, <1>2, <1>7, <2>1, WorksStill
<1>12. Exists(e)
  BY <1>1, <1>2, <1>7, <1>8, <1>9, <1>10, <1>11 DEF Exists, Growth
<1> QED BY <1>6, <1>12

\* A successful one.
LEMMA SettingsOK ==
    ASSUME ChannelOK(channel), SettingsReceived
    PROVE  Exists(channel')
<1>1. Exists(channel)
  BY DEF SettingsReceived, ChannelOK, NoChannel
<1>2. PICK c : c = channel
  OBVIOUS
<1>3. PICK e : e = [f \in ChannelFields |-> CASE f = "current" -> c.initial
                                             [] f = "failures" -> 0
                                             [] OTHER -> c[f]]
  OBVIOUS
<1>4. channel' = e
  BY <1>1, <1>2, <1>3 DEF Exists, ChannelFields, SettingsReceived
<1>5. /\ e = [f \in ChannelFields |-> e[f]] /\ e.exists = TRUE
      /\ e.current = c.initial /\ e.delay = c.delay /\ e.failures = 0
      /\ e.initial = c.initial /\ e.maximum = c.maximum /\ e.env = c.env
      /\ \A f \in {"windows", "headerList", "connectTimeout", "socketType", "hostUri", "ssl", "rpc"} :
             e[f] = c[f]
  BY <1>1, <1>2, <1>3 DEF Exists, ChannelFields
<1>6. BackoffGrows(e)
  BY <1>1, <1>2, <1>5 DEF BackoffGrows, Exists
<1>7. Works(e)
  <2>1. e["rpc"].receive \in 0 .. GrpcMaxPayloadSize
    BY <1>1, <1>2, <1>5 DEF Exists, Works
  <2> QED BY <1>1, <1>2, <1>5, <2>1, WorksStill
<1>8. Exists(e)
  BY <1>1, <1>2, <1>5, <1>6, <1>7 DEF Exists
<1> QED BY <1>4, <1>8

\* An RPC whose limit stays within what a message can have.
LEMMA StartRpcOK ==
    ASSUME ChannelOK(channel), NEW call \in CallReceiveSizes, StartRpc(call),
           PayloadOK(payload[d[Channels]])
    PROVE  Exists(channel')
<1>1. Exists(channel)
  BY DEF StartRpc, ChannelOK, NoChannel
<1>2. PICK c, p : c = channel /\ p = payload[d[Channels]]
  OBVIOUS
<1>3. PICK rpc : rpc = [receive |-> constructMaximumReceiveSize(call, p.receive, c.env),
                        contentType |-> c.contentType, format |-> p.format]
  OBVIOUS
<1>4. PICK e : e = [f \in ChannelFields |-> IF f = "rpc" THEN rpc ELSE c[f]]
  OBVIOUS
<1>5. channel' = e
  <2>1. channel' = [c EXCEPT !.rpc = rpc]
    BY <1>2, <1>3 DEF StartRpc
  <2> QED BY <1>1, <1>2, <1>4, <2>1 DEF Exists, ChannelFields
<1>6. /\ e = [f \in ChannelFields |-> e[f]] /\ e.exists = TRUE
      /\ e.current = c.current /\ e.delay = c.delay /\ e.failures = c.failures
      /\ e.initial = c.initial /\ e.maximum = c.maximum /\ e.env = c.env
      /\ \A f \in {"windows", "headerList", "connectTimeout", "socketType", "hostUri", "ssl"} :
             e[f] = c[f]
      /\ e["rpc"] = rpc
  BY <1>1, <1>2, <1>4 DEF Exists, ChannelFields
<1>7. BackoffGrows(e)
  BY <1>1, <1>2, <1>6 DEF BackoffGrows, Exists
<1>8. rpc.receive \in 0 .. GrpcMaxPayloadSize
  <2>1. call \subseteq Int
    BY InputAssumption
  <2>2. c.env.receive \subseteq Int
    BY <1>1, <1>2 DEF Exists
  <2>3. rpc.receive = constructMaximumReceiveSize(call, p.receive, c.env)
    BY <1>3
  <2> QED BY <1>2, <2>1, <2>2, <2>3, ReceiveConstructed
<1>9. Works(e)
  BY <1>1, <1>2, <1>6, <1>8, WorksStill
<1>10. Exists(e)
  BY <1>1, <1>2, <1>6, <1>7, <1>9 DEF Exists
<1> QED BY <1>5, <1>10

\* The constructor takes a copy of options that have not been moved from and
\* negotiates the content-type in its own copy.
LEMMA CreateStep ==
    ASSUME ConfigInv, NEW from \in Objects, NEW uri \in Uris, NEW env \in Environments,
           CreateChannel(from, uri, env)
    PROVE  \E q : /\ q = Negotiated(Val(Store, from)) /\ PayloadOK(q) /\ HashOK(q)
                  /\ q.multi = Val(Store, from).multi
                  /\ After(Store, Channels, q, q, Store')
                  /\ Exists(channel') /\ ObjectsOK(Store', moved) /\ moved' = moved
<1>1. PICK s, x, p, q : /\ s = Store /\ x = Assign(s, from, Channels)
                        /\ p = Val(s, from) /\ q = Negotiated(p)
  OBVIOUS
<1>2. from \notin moved /\ moved' = moved /\ Channels \in Objects /\ Channels \notin moved
  BY DEF CreateChannel, ConfigInv, ChannelOptions, Objects, Channels, Mine, Other
<1>3. StoreOK(s) /\ s.value[from] = p /\ PayloadOK(p) /\ HashOK(p)
  BY <1>1, <1>2 DEF ConfigInv, ObjectsOK, ObjectOK
<1>4. PayloadOK(q) /\ q.multi = p.multi /\ q.hash = p.hash
  BY <1>1, <1>3, NegotiatedOK
<1>5. HashOK(q)
  BY <1>3, <1>4 DEF HashOK
<1>6. After(s, Channels, p, p, x)
  BY <1>1, <1>2, <1>3, AssignSound
<1>7. StoreOK(x) /\ Val(x, Channels) = p /\ x.value[Channels] = p
  BY <1>6 DEF After
<1>8. PICK r : r = Edits(x, Channels, q, q)
  OBVIOUS
<1>9. Edit(x, Channels, q).value[Channels] = p /\ After(x, Channels, q, q, r)
  BY <1>2, <1>7, <1>8, EditsSound
<1>10. Becomes(r)
  <2>1. Becomes(Edited(x, Channels, Negotiated))
    BY <1>1 DEF CreateChannel
  <2>2. Edited(x, Channels, Negotiated) = r
    <3>1. x.payload[x.d[Channels]] = p
      BY <1>7 DEF Val
    <3> QED BY <1>1, <1>8, <1>9, <3>1 DEF Edited, Edits
  <2> QED BY <2>1, <2>2
<1>11. Store' = r
  BY <1>9, <1>10, StoreBecomes DEF After
<1>12. After(s, Channels, q, q, r)
  BY <1>6, <1>9 DEF After
<1>13. ObjectsOK(r, moved)
  <2>1. moved \ {Channels} = moved
    BY <1>2
  <2> QED BY <1>1, <1>2, <1>4, <1>5, <1>12, <2>1, ObjectWritten DEF ConfigInv
<1>14. Exists(channel')
  <2>1. payload[d[from]] = p
    BY <1>1 DEF Val, Store
  <2>2. channel' = Constructed(uri, env, p, q)
    BY <1>1, <2>1 DEF CreateChannel
  <2> QED BY <1>3, <1>4, <2>2, ChannelConstructed
<1> QED BY <1>1, <1>2, <1>4, <1>5, <1>11, <1>12, <1>13, <1>14

\* The steps of an application that uses the classes.
LEMMA ClassesStep ==
    ASSUME ConfigInv, ~qml, Next, UNCHANGED elements
    PROVE  ConfigInv'
<1>1. CASE \E o \in ChannelOptions :
              \/ \E field \in DOMAIN Fields : \E v \in Fields[field] : SetField(o, field, v)
              \/ \E multi \in Multis : SetMulti(o, multi)
              \/ \E hash \in Hashes : SetHash(o, hash)
              \/ \E pair \in Pairs : AddMetadata(o, pair)
  BY <1>1, SettersStep
<1>2. CASE \E o \in ChannelOptions : TakeMetadata(o)
  BY <1>2, TakeStep
<1>3. CASE \E o \in ChannelOptions : SetChannelOptions(o)
  BY <1>3, CopyStep DEF SetChannelOptions, Objects
<1>4. CASE Copy(Mine, Other) \/ Copy(Other, Mine)
  BY <1>4, CopyStep DEF ChannelOptions, Objects
<1>5. CASE \E uri \in Uris, env \in Environments : CreateChannel(Mine, uri, env)
  <2>1. PICK uri \in Uris, env \in Environments : CreateChannel(Mine, uri, env)
    BY <1>5
  <2>2. Mine \in Objects /\ Mine \notin moved
    BY <2>1 DEF CreateChannel, Objects
  <2>3. PICK q : /\ q.multi = Val(Store, Mine).multi
                 /\ After(Store, Channels, q, q, Store')
                 /\ Exists(channel') /\ ObjectsOK(Store', moved) /\ moved' = moved
    BY <2>1, <2>2, CreateStep
  <2>4. IsSequence(q.multi)
    BY <2>2, <2>3 DEF ConfigInv, ClassesInv
  <2>5. ClassesInv(Store', moved, metadata, options)
    BY <2>3, <2>4 DEF ConfigInv, ClassesInv, After
  <2> QED BY <2>3, <2>5 DEF ConfigInv, ChannelOK, elements
<1>6. CASE (\E call \in CallReceiveSizes : StartRpc(call)) \/ NextDelay \/ SettingsReceived
  <2>1. UNCHANGED <<d, payload, moved, value>>
    BY <1>6 DEF StartRpc, NextDelay, SettingsReceived
  <2>2. PayloadOK(payload[d[Channels]])
    <3>1. Channels \in Objects \ moved
      BY DEF ConfigInv, ChannelOptions, Objects, Channels, Mine, Other
    <3> QED BY <3>1 DEF ConfigInv, ObjectsOK, ObjectOK, Val, Store
  <2>3. Exists(channel')
    BY <1>6, <2>2, StartRpcOK, NextDelayOK, SettingsOK DEF ConfigInv
  <2>4. Store' = Store
    BY <2>1 DEF Store
  <2> QED BY <2>1, <2>3, <2>4 DEF ConfigInv, ChannelOK, elements
<1> QED BY <1>1, <1>2, <1>3, <1>4, <1>5, <1>6 DEF Next, ChannelOptions
-----------------------------------------------------------------------------
(* The steps of an application that uses the elements. *)

\* r is s after a change of options element e to payload q, of which the
\* channel has been told if these are its options.
Updated(s, e, q, r) ==
    /\ ObjectsOK(r, {})
    /\ Val(r, e) = q
    /\ \A x \in OptionElements \ {e} : Val(r, x) = Val(s, x)
    /\ Taken(s, channel.exists, options) => Taken(r, channel.exists, options)

\* The slot of the channel keeps it at its options.
LEMMA UpdateSound ==
    ASSUME NEW s, ObjectsOK(s, {}), NEW e \in OptionElements, options \in ChannelOptions \cup {Null},
           NEW q, PayloadOK(q), HashOK(q)
    PROVE  Updated(s, e, q, ChannelOptionsUpdated(Edits(s, e, q, q), e))
<1>1. PICK x, r : x = Edits(s, e, q, q) /\ r = ChannelOptionsUpdated(x, e)
  OBVIOUS
<1>2. /\ OptionElements \subseteq Objects /\ Channels \in Objects /\ Channels \notin OptionElements
      /\ ChannelOptions \subseteq OptionElements
  BY DEF OptionElements, ChannelOptions, Objects, Channels, Mine, Other, Calls
<1>3. After(s, e, q, q, x)
  BY <1>1, <1>2, EditsSound DEF ObjectsOK
<1>4. ObjectsOK(x, {})
  <2>1. ObjectsOK(x, {} \ {e})
    BY <1>2, <1>3, ObjectWritten
  <2>2. {} \ {e} = {}
    OBVIOUS
  <2> QED BY <2>1, <2>2
<1>5. CASE channel.exists /\ options = e
  <2>1. r = Assign(x, e, Channels)
    BY <1>1, <1>5 DEF ChannelOptionsUpdated
  <2>2. StoreOK(x) /\ Val(x, e) = q /\ x.value[e] = q
    BY <1>3 DEF After
  <2>3. After(x, Channels, q, q, r)
    BY <1>2, <2>1, <2>2, AssignSound
  <2>4. ObjectsOK(r, {})
    <3>1. ObjectsOK(r, {} \ {Channels})
      BY <1>2, <1>4, <2>3, ObjectWritten
    <3>2. {} \ {Channels} = {}
      OBVIOUS
    <3> QED BY <3>1, <3>2
  <2>5. /\ Val(r, e) = q /\ Val(r, Channels) = q
        /\ \A y \in OptionElements \ {e} : Val(r, y) = Val(s, y)
    BY <1>2, <1>3, <2>3 DEF After
  <2>6. Taken(r, channel.exists, options)
    BY <1>5, <2>5 DEF Taken
  <2> QED BY <1>1, <2>4, <2>5, <2>6 DEF Updated
<1>6. CASE ~(channel.exists /\ options = e)
  <2>1. r = x
    BY <1>1, <1>6 DEF ChannelOptionsUpdated
  <2>2. /\ Val(x, e) = q /\ Val(x, Channels) = Val(s, Channels)
        /\ \A y \in OptionElements \ {e} : Val(x, y) = Val(s, y)
    BY <1>2, <1>3 DEF After
  <2>3. Taken(s, channel.exists, options) => Taken(x, channel.exists, options)
    BY <1>2, <1>6, <2>2 DEF Taken
  <2> QED BY <1>1, <1>4, <2>1, <2>2, <2>3 DEF Updated
<1> QED BY <1>5, <1>6

\* An options element hears of its metadata.
LEMMA MetadataSound ==
    ASSUME NEW s, ObjectsOK(s, {}), NEW e \in OptionElements, options \in ChannelOptions \cup {Null},
           NEW map
    PROVE  \E q : /\ Updated(s, e, q, MetadataUpdated(s, e, map))
                  /\ ToSet(q.multi) = ToSet(MetadataOf(map))
<1>1. PICK p, q : p = Val(s, e) /\ q = WithMulti(p, MetadataOf(map))
  OBVIOUS
<1>2. e \in Objects
  BY DEF OptionElements, ChannelOptions, Objects
<1>3. StoreOK(s) /\ s.value[e] = p /\ PayloadOK(p) /\ HashOK(p)
  BY <1>1, <1>2 DEF ObjectsOK, ObjectOK
<1>4. PayloadOK(q) /\ HashOK(q) /\ ToSet(q.multi) = ToSet(MetadataOf(map))
  BY <1>1, <1>3, WithMultiOK
<1>5. Edit(s, e, q).value[e] = p
  BY <1>2, <1>3, EditsSound
<1>6. MetadataUpdated(s, e, map) = ChannelOptionsUpdated(Edits(s, e, q, q), e)
  BY <1>1, <1>3, <1>5 DEF MetadataUpdated, Edited, Edits, Val
<1> QED BY <1>4, <1>6, UpdateSound

\* What an application with elements can rely on, before and after a step
\* that leaves the channel's existence and its options element alone.
LEMMA ElementsAtHand ==
    ASSUME ConfigInv, qml
    PROVE  /\ moved = {} /\ ObjectsOK(Store, {})
           /\ data = [m \in Metadatas |-> data[m]]
           /\ metadata \in [OptionElements -> Metadatas \cup {Null}]
           /\ options \in ChannelOptions \cup {Null}
           /\ Bound(Store, data, metadata) /\ Taken(Store, channel.exists, options)
BY DEF ConfigInv, ElementsInv

\* The invariant of the next state, from its parts.
LEMMA ElementsKept ==
    ASSUME ConfigInv, qml, NEW r, Becomes(r), ObjectsOK(r, {}), UNCHANGED <<moved, channel, qml>>,
           data' = [m \in Metadatas |-> data'[m]],
           metadata' \in [OptionElements -> Metadatas \cup {Null}],
           options' \in ChannelOptions \cup {Null},
           Bound(r, data', metadata'), Taken(r, channel.exists, options')
    PROVE  ConfigInv'
<1>1. Store' = r
  BY StoreBecomes DEF ObjectsOK
<1>2. moved = {} /\ ChannelOK(channel)
  BY DEF ConfigInv, ElementsInv
<1>3. ElementsInv(r, moved', data', metadata', options', channel'.exists)
  BY <1>2 DEF ElementsInv
<1>4. ObjectsOK(r, moved') /\ moved' \subseteq ChannelOptions /\ ChannelOK(channel')
  BY <1>2
<1>5. ~qml' => ClassesInv(r, moved', metadata', options')
  OBVIOUS
<1> QED BY <1>1, <1>3, <1>4, <1>5 DEF ConfigInv

\* The store x after options element e has been told of map if m is its metadata.
ToldOf(m, map, x, e) == IF metadata[e] = m THEN MetadataUpdated(x, e, map) ELSE x

\* Only the elements with this metadata change.
LEMMA ToldSound ==
    ASSUME NEW x, ObjectsOK(x, {}), Taken(x, channel.exists, options), NEW e \in OptionElements,
           options \in ChannelOptions \cup {Null}, NEW m, NEW map
    PROVE  LET y == ToldOf(m, map, x, e)
           IN  /\ ObjectsOK(y, {}) /\ Taken(y, channel.exists, options)
               /\ IF metadata[e] = m THEN ToSet(Val(y, e).multi) = ToSet(MetadataOf(map))
                  ELSE Val(y, e) = Val(x, e)
               /\ \A f \in OptionElements \ {e} : Val(y, f) = Val(x, f)
<1>1. PICK y : y = ToldOf(m, map, x, e)
  OBVIOUS
<1>2. CASE metadata[e] = m
  <2>1. PICK q : Updated(x, e, q, y) /\ ToSet(q.multi) = ToSet(MetadataOf(map))
    BY <1>1, <1>2, MetadataSound DEF ToldOf
  <2> QED BY <1>1, <1>2, <2>1 DEF Updated
<1>3. CASE metadata[e] # m
  BY <1>3 DEF ToldOf
<1> QED BY <1>2, <1>3

\* GrpcMetadata.data.
LEMMA SetDataStep ==
    ASSUME ConfigInv, qml, NEW m \in Metadatas, NEW map, SetData(m, map)
    PROVE  ConfigInv'
<1>1. /\ moved = {} /\ ObjectsOK(Store, {}) /\ options \in ChannelOptions \cup {Null}
      /\ data = [n \in Metadatas |-> data[n]]
      /\ metadata \in [OptionElements -> Metadatas \cup {Null}]
      /\ Bound(Store, data, metadata) /\ Taken(Store, channel.exists, options)
  BY ElementsAtHand
<1>2. /\ data' = [data EXCEPT ![m] = map]
      /\ UNCHANGED <<moved, channel, qml, metadata, options>>
  BY DEF SetData
<1>3. PICK s : s = Store
  OBVIOUS
<1>4. PICK a : a = ToldOf(m, map, s, Mine)
  OBVIOUS
<1>5. PICK b : b = ToldOf(m, map, a, Other)
  OBVIOUS
<1>6. PICK c : c = ToldOf(m, map, b, Calls)
  OBVIOUS
<1>7. Becomes(c)
  BY <1>3, <1>4, <1>5, <1>6 DEF SetData, ToldOf
<1>8. /\ Mine \in OptionElements /\ Other \in OptionElements /\ Calls \in OptionElements
      /\ Mine # Other /\ Mine # Calls /\ Other # Calls
      /\ OptionElements = {Mine, Other, Calls}
  BY DEF OptionElements, ChannelOptions, Mine, Other, Calls
<1>9. /\ ObjectsOK(c, {}) /\ Taken(c, channel.exists, options)
      /\ \A e \in OptionElements :
             IF metadata[e] = m THEN ToSet(Val(c, e).multi) = ToSet(MetadataOf(map))
             ELSE Val(c, e) = Val(s, e)
  <2>1. /\ ObjectsOK(a, {}) /\ Taken(a, channel.exists, options)
        /\ IF metadata[Mine] = m THEN ToSet(Val(a, Mine).multi) = ToSet(MetadataOf(map))
           ELSE Val(a, Mine) = Val(s, Mine)
        /\ Val(a, Other) = Val(s, Other) /\ Val(a, Calls) = Val(s, Calls)
    BY <1>1, <1>3, <1>4, <1>8, ToldSound
  <2>2. /\ ObjectsOK(b, {}) /\ Taken(b, channel.exists, options)
        /\ IF metadata[Other] = m THEN ToSet(Val(b, Other).multi) = ToSet(MetadataOf(map))
           ELSE Val(b, Other) = Val(a, Other)
        /\ Val(b, Mine) = Val(a, Mine) /\ Val(b, Calls) = Val(a, Calls)
    BY <1>1, <1>5, <1>8, <2>1, ToldSound
  <2>3. /\ ObjectsOK(c, {}) /\ Taken(c, channel.exists, options)
        /\ IF metadata[Calls] = m THEN ToSet(Val(c, Calls).multi) = ToSet(MetadataOf(map))
           ELSE Val(c, Calls) = Val(b, Calls)
        /\ Val(c, Mine) = Val(b, Mine) /\ Val(c, Other) = Val(b, Other)
    BY <1>1, <1>6, <1>8, <2>2, ToldSound
  <2> QED BY <1>8, <2>1, <2>2, <2>3
<1>10. Bound(c, data', metadata)
  <2> SUFFICES ASSUME NEW e \in OptionElements, metadata[e] # Null
               PROVE  ToSet(Val(c, e).multi) = ToSet(MetadataOf(data'[metadata[e]]))
    BY DEF Bound
  <2>1. metadata[e] \in Metadatas
    BY <1>1
  <2>2. CASE metadata[e] = m
    <3>1. data'[metadata[e]] = map
      BY <1>1, <1>2, <2>1, <2>2
    <3> QED BY <1>9, <2>2, <3>1
  <2>3. CASE metadata[e] # m
    <3>1. data'[metadata[e]] = data[metadata[e]]
      BY <1>1, <1>2, <2>1, <2>3
    <3> QED BY <1>1, <1>3, <1>9, <2>3, <3>1 DEF Bound
  <2> QED BY <2>2, <2>3
<1>11. data' = [n \in Metadatas |-> data'[n]]
  BY <1>1, <1>2
<1> QED BY <1>1, <1>2, <1>7, <1>9, <1>10, <1>11, ElementsKept

\* The property metadata of an options element.
LEMMA SetMetadataStep ==
    ASSUME ConfigInv, qml, NEW e \in OptionElements, NEW m \in Metadatas \cup {Null},
           SetMetadata(e, m)
    PROVE  ConfigInv'
<1>1. /\ moved = {} /\ ObjectsOK(Store, {}) /\ options \in ChannelOptions \cup {Null}
      /\ data = [n \in Metadatas |-> data[n]]
      /\ metadata \in [OptionElements -> Metadatas \cup {Null}]
      /\ Bound(Store, data, metadata) /\ Taken(Store, channel.exists, options)
  BY ElementsAtHand
<1>2. /\ metadata' = [metadata EXCEPT ![e] = m]
      /\ UNCHANGED <<moved, channel, qml, data, options>>
  BY DEF SetMetadata
<1>3. metadata' \in [OptionElements -> Metadatas \cup {Null}]
  BY <1>1, <1>2
<1>4. PICK r : r = IF m = Null THEN Store ELSE MetadataUpdated(Store, e, data[m])
  OBVIOUS
<1>5. Becomes(r)
  BY <1>4 DEF SetMetadata
<1>6. CASE m = Null
  <2>1. r = Store
    BY <1>4, <1>6
  <2>2. Bound(r, data, metadata')
    BY <1>1, <1>2, <1>6, <2>1 DEF Bound
  <2> QED BY <1>1, <1>2, <1>3, <1>5, <2>1, <2>2, ElementsKept
<1>7. CASE m # Null
  <2>1. PICK q : Updated(Store, e, q, r) /\ ToSet(q.multi) = ToSet(MetadataOf(data[m]))
    BY <1>1, <1>4, <1>7, MetadataSound
  <2>2. /\ ObjectsOK(r, {}) /\ Taken(r, channel.exists, options) /\ Val(r, e) = q
        /\ \A x \in OptionElements \ {e} : Val(r, x) = Val(Store, x)
    BY <1>1, <2>1 DEF Updated
  <2>3. metadata'[e] = m /\ \A x \in OptionElements \ {e} : metadata'[x] = metadata[x]
    BY <1>1, <1>2
  <2>4. Bound(r, data, metadata')
    BY <1>1, <2>1, <2>2, <2>3 DEF Bound
  <2> QED BY <1>1, <1>2, <1>3, <1>5, <2>2, <2>4, ElementsKept
<1> QED BY <1>6, <1>7

\* The other properties of the options elements.
LEMMA SetPropertyStep ==
    ASSUME ConfigInv, qml, NEW e \in OptionElements, NEW field \in {"deadline", "format", "ssl"},
           NEW v, field = "ssl" => v \in BOOLEAN, SetProperty(e, field, v)
    PROVE  ConfigInv'
<1>1. /\ moved = {} /\ ObjectsOK(Store, {}) /\ options \in ChannelOptions \cup {Null}
      /\ data = [n \in Metadatas |-> data[n]]
      /\ metadata \in [OptionElements -> Metadatas \cup {Null}]
      /\ Bound(Store, data, metadata) /\ Taken(Store, channel.exists, options)
  BY ElementsAtHand
<1>2. UNCHANGED <<moved, channel, qml, data, metadata, options>>
  BY DEF SetProperty
<1>3. PICK s, p, q : s = Store /\ p = Val(s, e) /\ q = Assigned(p, field, v)
  OBVIOUS
<1>4. e \in Objects
  BY DEF OptionElements, ChannelOptions, Objects
<1>5. StoreOK(s) /\ s.value[e] = p /\ PayloadOK(p) /\ HashOK(p)
  BY <1>1, <1>3, <1>4 DEF ObjectsOK, ObjectOK
<1>6. field \in PayloadFields \ {"multi", "hash"} /\ field \notin Numeric
  BY DEF PayloadFields, Numeric, Durations
<1>7. PayloadOK(q) /\ q.multi = p.multi /\ q.hash = p.hash
  BY <1>3, <1>5, <1>6, AssignedOK
<1>8. PICK r : r = ChannelOptionsUpdated(Edits(s, e, q, q), e)
  OBVIOUS
<1>9. Becomes(r)
  <2>1. Edit(s, e, q).value[e] = p
    BY <1>4, <1>5, EditsSound
  <2> QED BY <1>3, <1>5, <1>8, <2>1 DEF SetProperty, Edited, Edits, Val
<1>10. Updated(s, e, q, r)
  BY <1>1, <1>3, <1>5, <1>7, <1>8, UpdateSound DEF HashOK
<1>11. /\ ObjectsOK(r, {}) /\ Taken(r, channel.exists, options) /\ Val(r, e) = q
       /\ \A x \in OptionElements \ {e} : Val(r, x) = Val(s, x)
  BY <1>1, <1>3, <1>10 DEF Updated
<1>12. Bound(r, data, metadata)
  BY <1>1, <1>3, <1>7, <1>11 DEF Bound
<1> QED BY <1>1, <1>2, <1>9, <1>11, <1>12, ElementsKept

\* GrpcHttp2Channel.options.
LEMMA SetOptionsStep ==
    ASSUME ConfigInv, qml, NEW e \in ChannelOptions \cup {Null}, SetOptions(e)
    PROVE  ConfigInv'
<1>1. /\ moved = {} /\ ObjectsOK(Store, {}) /\ options \in ChannelOptions \cup {Null}
      /\ data = [n \in Metadatas |-> data[n]]
      /\ metadata \in [OptionElements -> Metadatas \cup {Null}]
      /\ Bound(Store, data, metadata) /\ Taken(Store, channel.exists, options)
  BY ElementsAtHand
<1>2. options' = e /\ UNCHANGED <<moved, channel, qml, data, metadata>>
  BY DEF SetOptions
<1>3. CASE e = Null \/ ~channel.exists
  <2>1. Becomes(Store)
    BY <1>3 DEF SetOptions
  <2>2. Taken(Store, channel.exists, options')
    BY <1>2, <1>3 DEF Taken
  <2> QED BY <1>1, <1>2, <2>1, <2>2, ElementsKept
<1>4. CASE ~(e = Null \/ ~channel.exists)
  <2>1. PICK s, p, r : s = Store /\ p = Val(s, e) /\ r = Assign(s, e, Channels)
    OBVIOUS
  <2>2. Becomes(r)
    BY <1>4, <2>1 DEF SetOptions
  <2>3. /\ e \in Objects /\ e # Channels /\ Channels \in Objects /\ OptionElements \subseteq Objects
        /\ Channels \notin OptionElements
    BY <1>4 DEF OptionElements, ChannelOptions, Objects, Channels, Mine, Other, Calls
  <2>4. StoreOK(s) /\ s.value[e] = p /\ PayloadOK(p) /\ HashOK(p)
    BY <1>1, <2>1, <2>3 DEF ObjectsOK, ObjectOK
  <2>5. After(s, Channels, p, p, r)
    BY <2>1, <2>3, <2>4, AssignSound
  <2>6. ObjectsOK(r, {})
    <3>1. ObjectsOK(r, {} \ {Channels})
      BY <1>1, <2>1, <2>3, <2>4, <2>5, ObjectWritten
    <3>2. {} \ {Channels} = {}
      OBVIOUS
    <3> QED BY <3>1, <3>2
  <2>7. Bound(r, data, metadata)
    BY <1>1, <2>1, <2>3, <2>5 DEF Bound, After
  <2>8. Taken(r, channel.exists, options')
    BY <1>2, <2>1, <2>3, <2>5 DEF Taken, After
  <2> QED BY <1>1, <1>2, <2>2, <2>6, <2>7, <2>8, ElementsKept
<1> QED BY <1>3, <1>4

\* GrpcHttp2Channel.hostUri.
LEMMA SetHostUriStep ==
    ASSUME ConfigInv, qml, NEW uri \in Uris \cup {Invalid}, SetHostUri(uri)
    PROVE  ConfigInv'
<1>1. /\ moved = {} /\ ObjectsOK(Store, {}) /\ options \in ChannelOptions \cup {Null}
      /\ data = [n \in Metadatas |-> data[n]]
      /\ metadata \in [OptionElements -> Metadatas \cup {Null}]
      /\ Bound(Store, data, metadata) /\ Taken(Store, channel.exists, options)
  BY ElementsAtHand
<1>2. UNCHANGED <<qml, data, metadata, options>>
  BY DEF SetHostUri
<1>3. CASE UNCHANGED vars
  BY <1>2, <1>3 DEF ConfigInv, vars, Store
<1>4. CASE uri # Invalid /\ \E env \in Environments : UpdateChannel(uri, env)
  <2>1. PICK env \in Environments : UpdateChannel(uri, env)
    BY <1>4
  <2>2. PICK from : from = IF options = Null THEN Channels ELSE options
    OBVIOUS
  <2>3. /\ from \in Objects /\ OptionElements \subseteq Objects /\ Channels \notin OptionElements
        /\ options # Null => options \in OptionElements /\ from = options
    BY <1>1, <2>2 DEF OptionElements, ChannelOptions, Objects, Channels, Mine, Other, Calls
  <2>4. uri \in Uris /\ CreateChannel(from, uri, env)
    BY <1>4, <2>1, <2>2 DEF UpdateChannel
  <2>5. PICK q : /\ q = Negotiated(Val(Store, from))
                 /\ After(Store, Channels, q, q, Store')
                 /\ Exists(channel') /\ ObjectsOK(Store', moved) /\ moved' = moved
    BY <2>3, <2>4, CreateStep
  <2>6. PICK s, r : s = Store /\ r = Store'
    OBVIOUS
  <2>7. Val(r, Channels) = q /\ \A x \in OptionElements : Val(r, x) = Val(s, x)
    BY <2>3, <2>5, <2>6 DEF After
  <2>8. Bound(r, data, metadata)
    BY <1>1, <2>6, <2>7 DEF Bound
  <2>9. Taken(r, channel'.exists, options)
    BY <2>3, <2>5, <2>6, <2>7 DEF Taken
  <2>10. ElementsInv(r, moved, data, metadata, options, channel'.exists)
    BY <1>1, <2>8, <2>9 DEF ElementsInv
  <2> QED BY <1>2, <2>5, <2>6, <2>10 DEF ConfigInv, ChannelOK
<1> QED BY <1>3, <1>4 DEF SetHostUri

\* The steps of an application that uses the elements.
LEMMA ElementsStep ==
    ASSUME ConfigInv, qml, QmlNext
    PROVE  ConfigInv'
<1>0. ChannelOptions \subseteq OptionElements /\ Calls \in OptionElements
  BY DEF OptionElements
<1>1. CASE \E m \in Metadatas, map \in Datas : SetData(m, map)
  BY <1>1, SetDataStep
<1>2. CASE \E m \in Metadatas \cup {Null} :
              SetCallMetadata(m) \/ \E e \in ChannelOptions : SetChannelMetadata(e, m)
  BY <1>0, <1>2, SetMetadataStep DEF SetCallMetadata, SetChannelMetadata
<1>3. CASE \E e \in ChannelOptions :
              \/ \E v \in QmlFields.deadline : SetDeadlineTimeout(e, v)
              \/ \E v \in QmlFields.format : SetSerializationFormat(e, v)
              \/ \E v \in QmlFields.ssl : SetSslConfiguration(e, v)
  <2> QED BY <1>0, <1>3, SetPropertyStep
          DEF SetDeadlineTimeout, SetSerializationFormat, SetSslConfiguration
<1>4. CASE \E v \in QmlFields.deadline : SetCallDeadlineTimeout(v)
  BY <1>0, <1>4, SetPropertyStep DEF SetCallDeadlineTimeout
<1>5. CASE \E e \in ChannelOptions \cup {Null} : SetOptions(e)
  BY <1>5, SetOptionsStep
<1>6. CASE \E uri \in Uris \cup {Invalid} : SetHostUri(uri)
  BY <1>6, SetHostUriStep
<1> QED BY <1>1, <1>2, <1>3, <1>4, <1>5, <1>6 DEF QmlNext
-----------------------------------------------------------------------------
\* The objects of an application are default-constructed and share nothing.
LEMMA ConfigInitially == QmlInit => ConfigInv
<1> SUFFICES ASSUME QmlInit PROVE ConfigInv
  OBVIOUS
<1>1. PICK s : s = Store
  OBVIOUS
<1>2. s.d = d /\ s.payload = payload /\ s.value = value
  BY <1>1 DEF Store
<1>3. StoreOK(s) /\ \A o \in Objects : Val(s, o) = Empty /\ s.value[o] = Empty
  <2>1. d \in [Objects -> Ids]
    BY DEF QmlInit, Init, Objects, Ids, Mine, Other, Calls, Channels
  <2>2. payload = [id \in Ids |-> Empty] /\ value = [o \in Objects |-> Empty]
    BY DEF QmlInit, Init, Ids
  <2>3. s = [d |-> d, payload |-> payload, value |-> value]
    BY <1>1 DEF Store
  <2>4. StoreOK(s)
    BY <2>1, <2>2, <2>3 DEF StoreOK
  <2> QED BY <1>2, <2>1, <2>2, <2>4 DEF Val
<1>4. PayloadOK(Empty)
  <2>1. IsPayload(Empty)
    BY DEF IsPayload, Empty, PayloadFields
  <2>2. Empty.ssl \in BOOLEAN /\ Empty.metadataSize \subseteq Int /\ Empty.receive \subseteq Int
    BY DEF Empty, Unset
  <2>3. \A f \in Durations : Empty[f] \subseteq Nat
    <3>1. Empty.initial = {} /\ Empty.maximum = {} /\ Empty.connectTimeout = {}
      BY DEF Empty, Unset
    <3> QED BY <3>1 DEF Durations
  <2> QED BY <2>1, <2>2, <2>3 DEF PayloadOK
<1>5. HashOK(Empty) /\ IsSequence(Empty.multi)
  <2>1. Empty.hash = {} /\ Empty.multi = <<>>
    BY DEF Empty
  <2>2. toHash(<<>>) = {}
    BY DEF toHash
  <2>3. <<>> \in Seq(ToSet(<<>>))
    OBVIOUS
  <2> QED BY <2>1, <2>2, <2>3 DEF HashOK, IsSequence
<1>6. ObjectsOK(s, moved)
  BY <1>3, <1>4, <1>5 DEF ObjectsOK, ObjectOK
<1>7. ClassesInv(s, moved, metadata, options)
  BY <1>3, <1>5 DEF ClassesInv, QmlInit
<1>8. channel = NoChannel /\ channel.exists = FALSE
  BY DEF QmlInit, Init, NoChannel
<1>9. ElementsInv(s, moved, data, metadata, options, channel.exists)
  <2>1. Bound(s, data, metadata)
    BY DEF Bound, QmlInit
  <2>2. Taken(s, channel.exists, options)
    BY <1>8 DEF Taken
  <2> QED BY <2>1, <2>2 DEF ElementsInv, QmlInit, Init
<1> QED BY <1>1, <1>6, <1>7, <1>8, <1>9 DEF ConfigInv, ChannelOK, QmlInit, Init

\* Every step of either application preserves the invariant.
LEMMA ConfigSteps == ConfigInv /\ [ConfigNext]_allVars => ConfigInv'
<1> SUFFICES ASSUME ConfigInv, [ConfigNext]_allVars PROVE ConfigInv'
  OBVIOUS
<1>1. CASE ~qml /\ Next /\ UNCHANGED elements
  BY <1>1, ClassesStep
<1>2. CASE qml /\ QmlNext
  BY <1>2, ElementsStep
<1>3. CASE UNCHANGED allVars
  BY <1>3 DEF ConfigInv, allVars, vars, elements, Store
<1> QED BY <1>1, <1>2, <1>3 DEF ConfigNext

\* ConfigInv holds in every reachable state.
LEMMA ConfigInvariant == ConfigSpec => []ConfigInv
BY ConfigInitially, ConfigSteps, PTL DEF ConfigSpec

\* Option objects are values: shared payloads, copy on write and moves out of
\* them never show in another object, and the deprecated view of the metadata
\* has the newest value of every key (QGrpcChannelOptions, QGrpcCallOptions).
THEOREM ObjectsHaveTheirValues == ConfigSpec => []OptionsAreValues
<1>1. ConfigInv => OptionsAreValues
  BY DEF ConfigInv, ObjectsOK, ObjectOK, HashOK, Val, Store, OptionsAreValues
<1> QED BY <1>1, ConfigInvariant, PTL

\* Whatever the options and the environment say, the channel that
\* QGrpcHttp2ChannelPrivate constructs from them works, and its backoff grows
\* from the initial delay to the maximum, however many attempts fail.
THEOREM ChannelWorks == ConfigSpec => []ConfigAdmissible
<1>1. ConfigInv => ConfigAdmissible
  BY DEF ConfigInv, ChannelOK, Exists, NoChannel, ConfigAdmissible
<1> QED BY <1>1, ConfigInvariant, PTL

\* What the elements of QtGrpcQuick say is in effect, in whatever order they
\* are bound, shared, exchanged and changed.
THEOREM ElementsTakeEffect == ConfigSpec => []ElementsInEffect
<1>1. ConfigInv /\ qml => ElementsInEffect
  BY DEF ConfigInv, ElementsInv, Bound, Taken, Val, Store, ElementsInEffect
<1>2. ConfigInv /\ ~qml => ElementsInEffect
  BY DEF ConfigInv, ClassesInv, ElementsInEffect
<1> QED BY <1>1, <1>2, ConfigInvariant, PTL
=============================================================================
