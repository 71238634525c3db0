------------------------ MODULE GrpcExchange_proofs ------------------------
(***************************************************************************)
(* Theorems about GrpcExchange: the end of an RPC is the one that the      *)
(* server's header blocks stand for, an RPC announces what it does, and    *)
(* the server can decode every message.                                    *)
(*                                                                         *)
(* The two loops over headers are recursive functions over the prefixes of *)
(* the block; what they compute is shown by induction over the prefix.     *)
(***************************************************************************)
EXTENDS GrpcExchange, WellFoundedInduction, TLAPS

(* Induction. *)

\* A set of numbers has a least one.
LEMMA NatMin ==
    ASSUME NEW T, T \subseteq Nat, T # {}
    PROVE  \E x \in T : \A y \in T : x <= y
<1>1. PICK R : R = OpToRel(<, Nat)
  OBVIOUS
<1>2. IsWellFoundedOn(R, Nat)
  BY <1>1, NatLessThanWellFounded
<1>3. R = {p \in Nat \X Nat : p[1] < p[2]}
  BY <1>1 DEF OpToRel
<1>4. PICK x \in T : \A y \in T : ~(<<y, x>> \in R)
  BY <1>2, WFMin
<1>5. ASSUME NEW y \in T PROVE x <= y
  <2>1. x \in Nat /\ y \in Nat
    OBVIOUS
  <2>2. <<y, x>> \notin R
    BY <1>4
  <2>3. ~(y < x)
    <3>1. <<y, x>>[1] = y /\ <<y, x>>[2] = x
      OBVIOUS
    <3>2. <<y, x>> \in Nat \X Nat
      BY <2>1
    <3> QED BY <1>3, <2>2, <3>1, <3>2
  <2> QED BY <2>1, <2>3
<1> QED BY <1>5

\* So a set of numbers that has 0 and each successor has them all.
LEMMA SetInduction ==
    ASSUME NEW S, 0 \in S, \A n \in Nat : n \in S => n + 1 \in S
    PROVE  Nat \subseteq S
<1> SUFFICES ASSUME NEW m \in Nat, m \notin S PROVE FALSE
  OBVIOUS
<1> DEFINE T == {n \in Nat : n \notin S}
<1>1. PICK x \in T : \A y \in T : x <= y
  <2>1. T \subseteq Nat /\ T # {}
    OBVIOUS
  <2> HIDE DEF T
  <2> QED BY <2>1, NatMin
<1>2. x \in Nat /\ x # 0
  OBVIOUS
<1>3. x - 1 \in Nat /\ x - 1 \in S
  <2>1. x - 1 \in Nat
    BY <1>2
  <2> QED BY <2>1, <1>1
<1> QED BY <1>2, <1>3

-----------------------------------------------------------------------------
(* The filter of a header block. *)

\* f holds what the filter keeps of the first 0 to n headers.
Filters(f, headers, keys, n) ==
    /\ f = [i \in 0..n |-> f[i]] /\ f[0] = <<>>
    /\ \A i \in 1..n : f[i] = IF headers[i][1] \in keys THEN f[i - 1]
                              ELSE Append(f[i - 1], headers[i])

\* There is such a function.
LEMMA FilterExists ==
    ASSUME NEW headers, NEW keys, NEW n \in Nat PROVE \E f : Filters(f, headers, keys, n)
<1> DEFINE Good == {m \in Nat : \E f : Filters(f, headers, keys, m)}
<1>1. 0 \in Good
  <2>1. Filters([i \in 0..0 |-> <<>>], headers, keys, 0)
    BY DEF Filters
  <2> QED BY <2>1
<1>2. ASSUME NEW m \in Nat, m \in Good PROVE m + 1 \in Good
  <2>1. PICK f : Filters(f, headers, keys, m)
    BY <1>2
  <2> DEFINE next == IF headers[m + 1][1] \in keys THEN f[m] ELSE Append(f[m], headers[m + 1])
             g == [i \in 0..(m + 1) |-> IF i = m + 1 THEN next ELSE f[i]]
  <2>2. g = [i \in 0..(m + 1) |-> g[i]] /\ g[0] = <<>>
    BY <2>1 DEF Filters
  <2>3. ASSUME NEW i \in 1..(m + 1)
        PROVE  g[i] = IF headers[i][1] \in keys THEN g[i - 1] ELSE Append(g[i - 1], headers[i])
    <3>1. CASE i = m + 1
      <4>1. g[i - 1] = f[m] /\ g[i] = next
        BY <3>1
      <4> QED BY <3>1, <4>1
    <3>2. CASE i \in 1..m
      <4>1. g[i - 1] = f[i - 1] /\ g[i] = f[i]
        BY <3>2
      <4> HIDE DEF g
      <4> QED BY <2>1, <3>2, <4>1 DEF Filters
    <3> QED BY <3>1, <3>2
  <2>4. Filters(g, headers, keys, m + 1)
    <3> HIDE DEF g
    <3> QED BY <2>2, <2>3 DEF Filters
  <2> QED BY <2>4
<1> HIDE DEF Good
<1>3. n \in Good
  BY <1>1, <1>2, SetInduction
<1> QED BY <1>3 DEF Good

\* Kept() is it.
LEMMA KeptFilters ==
    ASSUME NEW headers, NEW keys, Len(headers) \in Nat
    PROVE  Filters(Kept(headers, keys), headers, keys, Len(headers))
<1>1. PICK f : Filters(f, headers, keys, Len(headers))
  BY FilterExists
<1>2. f = [i \in 0..Len(headers) |->
               IF i = 0 THEN <<>>
               ELSE IF headers[i][1] \in keys THEN f[i - 1]
               ELSE Append(f[i - 1], headers[i])]
  <2>1. ASSUME NEW i \in 0..Len(headers)
        PROVE  f[i] = IF i = 0 THEN <<>>
                      ELSE IF headers[i][1] \in keys THEN f[i - 1]
                      ELSE Append(f[i - 1], headers[i])
    <3>1. i = 0 \/ i \in 1..Len(headers)
      OBVIOUS
    <3> QED BY <1>1, <3>1 DEF Filters
  <2>2. f = [i \in 0..Len(headers) |-> f[i]]
    BY <1>1 DEF Filters
  <2> QED BY <2>1, <2>2
<1>3. Kept(headers, keys) =
          [i \in 0..Len(headers) |->
               IF i = 0 THEN <<>>
               ELSE IF headers[i][1] \in keys THEN Kept(headers, keys)[i - 1]
               ELSE Append(Kept(headers, keys)[i - 1], headers[i])]
  BY <1>2 DEF Kept
<1>4. PICK k : k = Kept(headers, keys)
  OBVIOUS
<1>5. k = [i \in 0..Len(headers) |->
               IF i = 0 THEN <<>>
               ELSE IF headers[i][1] \in keys THEN k[i - 1]
               ELSE Append(k[i - 1], headers[i])]
  BY <1>3, <1>4
<1>6. k = [i \in 0..Len(headers) |-> k[i]]
  BY <1>5
<1>7. k[0] = <<>>
  BY <1>5
<1>8. ASSUME NEW i \in 1..Len(headers)
      PROVE  k[i] = IF headers[i][1] \in keys THEN k[i - 1] ELSE Append(k[i - 1], headers[i])
  <2>1. i \in 0..Len(headers) /\ i # 0
    OBVIOUS
  <2> QED BY <1>5, <2>1
<1>9. Filters(k, headers, keys, Len(headers))
  BY <1>6, <1>7, <1>8 DEF Filters
<1> QED BY <1>4, <1>9

\* s is a sequence none of whose headers has one of the keys.
Free(s, keys) == IsSequence(s) /\ \A i \in DOMAIN s : s[i][1] \notin keys

\* What IsSequence says, and what it takes.
LEMMA SequenceFacts ==
    ASSUME NEW s
    PROVE  /\ IsSequence(s) => Len(s) \in Nat /\ DOMAIN s = 1..Len(s)
           /\ \A S : s \in Seq(S) => IsSequence(s)
<1>1. IsSequence(s) => Len(s) \in Nat /\ DOMAIN s = 1..Len(s)
  BY DEF IsSequence
<1>2. ASSUME NEW S, s \in Seq(S) PROVE IsSequence(s)
  <2>1. s \in [1..Len(s) -> S] /\ Len(s) \in Nat
    BY <1>2
  <2>2. s \in [1..Len(s) -> {s[i] : i \in DOMAIN s}]
    BY <2>1
  <2> DEFINE R == {s[i] : i \in DOMAIN s}
  <2>3. s \in Seq(R)
    <3>1. s \in [1..Len(s) -> R]
      BY <2>2
    <3> HIDE DEF R
    <3> QED BY <1>2, <2>1, <3>1
  <2> QED BY <2>3 DEF IsSequence
<1> QED BY <1>1, <1>2

\* A header is appended.
LEMMA AppendFacts ==
    ASSUME NEW s, IsSequence(s), NEW h
    PROVE  /\ IsSequence(Append(s, h)) /\ Len(Append(s, h)) = Len(s) + 1
           /\ \A i \in 1..Len(s) : Append(s, h)[i] = s[i]
           /\ Append(s, h)[Len(s) + 1] = h
<1> DEFINE S == {s[i] : i \in DOMAIN s} \cup {h}
<1>1. s \in Seq(S) /\ h \in S
  BY DEF IsSequence
<1> HIDE DEF S
<1>2. Append(s, h) \in Seq(S)
  BY <1>1
<1>3. IsSequence(Append(s, h))
  BY <1>2, SequenceFacts
<1>4. /\ Len(Append(s, h)) = Len(s) + 1
      /\ \A i \in 1..Len(s) : Append(s, h)[i] = s[i]
      /\ Append(s, h)[Len(s) + 1] = h
  BY <1>1
<1> QED BY <1>3, <1>4

\* What is left of a block is free of the keys.
LEMMA WithoutIsFree ==
    ASSUME NEW headers, NEW keys, IsSequence(headers)
    PROVE  Free(Without(headers, keys), keys)
<1>1. Len(headers) \in Nat
  BY SequenceFacts
<1>2. PICK k : k = Kept(headers, keys) /\ Filters(k, headers, keys, Len(headers))
  BY <1>1, KeptFilters
<1> DEFINE Good == {m \in Nat : m <= Len(headers) => Free(k[m], keys)}
<1>3. 0 \in Good
  <2>1. k[0] = <<>> /\ <<>> \in Seq({}) /\ DOMAIN <<>> = {}
    BY <1>2 DEF Filters
  <2>2. Free(<<>>, keys)
    BY <2>1, SequenceFacts DEF Free
  <2> QED BY <2>1, <2>2
<1>4. ASSUME NEW m \in Nat, m \in Good PROVE m + 1 \in Good
  <2> SUFFICES ASSUME m + 1 <= Len(headers) PROVE Free(k[m + 1], keys)
    OBVIOUS
  <2>1. Free(k[m], keys)
    BY <1>1, <1>4
  <2>2. k[m + 1] = IF headers[m + 1][1] \in keys THEN k[m] ELSE Append(k[m], headers[m + 1])
    <3>1. m + 1 \in 1..Len(headers) /\ (m + 1) - 1 = m
      BY <1>1
    <3> QED BY <1>2, <3>1 DEF Filters
  <2>3. CASE headers[m + 1][1] \notin keys
    <3> DEFINE s == k[m] h == headers[m + 1]
    <3>1. IsSequence(s) /\ \A i \in DOMAIN s : s[i][1] \notin keys
      BY <2>1 DEF Free
    <3>2. k[m + 1] = Append(s, h) /\ h[1] \notin keys
      BY <2>2, <2>3
    <3> HIDE DEF s, h
    <3>3. /\ IsSequence(Append(s, h)) /\ DOMAIN s = 1..Len(s) /\ Len(s) \in Nat
          /\ DOMAIN Append(s, h) = 1..(Len(s) + 1)
          /\ \A i \in 1..Len(s) : Append(s, h)[i] = s[i]
          /\ Append(s, h)[Len(s) + 1] = h
      BY <3>1, AppendFacts, SequenceFacts
    <3>4. \A i \in DOMAIN Append(s, h) : Append(s, h)[i][1] \notin keys
      <4> SUFFICES ASSUME NEW i \in 1..(Len(s) + 1) PROVE Append(s, h)[i][1] \notin keys
        BY <3>3
      <4>1. i \in 1..Len(s) \/ i = Len(s) + 1
        BY <3>3
      <4> QED BY <3>1, <3>2, <3>3, <4>1
    <3> QED BY <3>2, <3>3, <3>4 DEF Free
  <2> QED BY <2>1, <2>2, <2>3
<1> HIDE DEF Good
<1>5. Free(k[Len(headers)], keys)
  <2>1. Nat \subseteq Good
    BY <1>3, <1>4, SetInduction
  <2> QED BY <1>1, <2>1 DEF Good
<1> QED BY <1>2, <1>5 DEF Without
-----------------------------------------------------------------------------
(* What a request announces. *)

\* Headers without a key change nothing about that key.
LEMMA ConcatenationFacts ==
    ASSUME NEW s, NEW t, IsSequence(s), NEW keys, Free(t, keys)
    PROVE  /\ IsSequence(s \o t)
           /\ \A key \in keys : IndicesOf(s \o t, key) = IndicesOf(s, key)
           /\ \A i \in DOMAIN s : (s \o t)[i] = s[i]
<1> DEFINE S == {s[i] : i \in DOMAIN s} \cup {t[i] : i \in DOMAIN t}
           u == s \o t
<1>1. s \in Seq(S) /\ t \in Seq(S)
  BY DEF IsSequence, Free
<1> HIDE DEF S
<1>2. u \in Seq(S)
  BY <1>1
<1>3. IsSequence(u)
  BY <1>2, SequenceFacts
<1>4. /\ Len(s) \in Nat /\ Len(t) \in Nat /\ DOMAIN s = 1..Len(s) /\ DOMAIN t = 1..Len(t)
      /\ DOMAIN u = 1..(Len(s) + Len(t))
      /\ \A i \in 1..Len(s) : u[i] = s[i]
      /\ \A i \in 1..(Len(s) + Len(t)) : i \notin 1..Len(s) =>
             i - Len(s) \in 1..Len(t) /\ u[i] = t[i - Len(s)]
  BY <1>1
<1> HIDE DEF u
<1>5. ASSUME NEW key \in keys PROVE IndicesOf(u, key) = IndicesOf(s, key)
  <2>1. ASSUME NEW i \in DOMAIN u, u[i][1] = key PROVE i \in DOMAIN s
    <3> SUFFICES ASSUME i \notin 1..Len(s) PROVE FALSE
      BY <1>4
    <3>1. i - Len(s) \in DOMAIN t /\ u[i] = t[i - Len(s)]
      BY <1>4
    <3> QED BY <2>1, <3>1 DEF Free
  <2>2. DOMAIN s \subseteq DOMAIN u
    BY <1>4
  <2> QED BY <1>4, <2>1, <2>2 DEF IndicesOf
<1> QED BY <1>3, <1>4, <1>5 DEF u

\* The transport's own headers.
Own(chan, encoding) ==
    <<<<":authority", "host">>, <<":method", "POST">>, <<":path", "/service/method">>,
      <<":scheme", "http">>, <<"content-type", "application/grpc">>,
      <<"service-name", "service">>, <<"grpc-accept-encoding", chan.cached>>,
      <<"user-agent", "qtgrpc">>, <<"te", "trailers">>>>
      \o (IF encoding # Identity THEN <<<<"grpc-encoding", encoding>>>> ELSE <<>>)

\* They come first, and no other header has a reserved key.
LEMMA OwnFirst ==
    ASSUME NEW chan, chan.options \in ChannelOptions, NEW call \in CallOptions, NEW encoding
    PROVE  LET headers == constructInitialHeaders(chan, call, encoding)
           IN  /\ \A key \in Reserved : IndicesOf(headers, key) = IndicesOf(Own(chan, encoding), key)
               /\ \A i \in DOMAIN Own(chan, encoding) : headers[i] = Own(chan, encoding)[i]
<1> DEFINE own == Own(chan, encoding)
           first == FilteredMetadata(chan.options.metadata)
           second == FilteredMetadata(call.metadata)
<1>1. ASSUME NEW metadata, IsSequence(metadata) PROVE Free(FilteredMetadata(metadata), Reserved)
  <2> DEFINE lowered == [i \in 1 .. Len(metadata) |-> <<Lower(metadata[i][1]), metadata[i][2]>>]
  <2>1. IsSequence(lowered)
    <3>1. Len(metadata) \in Nat
      BY <1>1, SequenceFacts
    <3>2. PICK S : S = {lowered[i] : i \in 1..Len(metadata)}
      OBVIOUS
    <3>3. lowered \in [1..Len(metadata) -> S]
      BY <3>2
    <3> HIDE DEF lowered
    <3>4. lowered \in Seq(S)
      BY <3>1, <3>3
    <3> QED BY <3>4, SequenceFacts
  <2>2. FilteredMetadata(metadata) = Without(lowered, Reserved)
    BY DEF FilteredMetadata
  <2> HIDE DEF lowered
  <2> QED BY <2>1, <2>2, WithoutIsFree
<1>2. Free(first, Reserved) /\ Free(second, Reserved)
  BY <1>1, ExchangeAssumption
<1>3. IsSequence(own)
  <2>1. PICK S : S = {":authority", ":method", ":path", ":scheme", "content-type", "service-name",
                      "grpc-accept-encoding", "user-agent", "te", "grpc-encoding"}
                     \X {"host", "POST", "/service/method", "http", "application/grpc", "service",
                         chan.cached, "qtgrpc", "trailers", encoding}
    OBVIOUS
  <2>2. PICK t :
            t = <<<<":authority", "host">>, <<":method", "POST">>, <<":path", "/service/method">>,
                  <<":scheme", "http">>, <<"content-type", "application/grpc">>,
                  <<"service-name", "service">>, <<"grpc-accept-encoding", chan.cached>>,
                  <<"user-agent", "qtgrpc">>, <<"te", "trailers">>>>
    OBVIOUS
  <2>3. PICK e : e = IF encoding # Identity THEN <<<<"grpc-encoding", encoding>>>> ELSE <<>>
    OBVIOUS
  <2>4. t \in Seq(S)
    <3>1. /\ <<":authority", "host">> \in S /\ <<":method", "POST">> \in S
          /\ <<":path", "/service/method">> \in S /\ <<":scheme", "http">> \in S
          /\ <<"content-type", "application/grpc">> \in S /\ <<"service-name", "service">> \in S
          /\ <<"grpc-accept-encoding", chan.cached>> \in S /\ <<"user-agent", "qtgrpc">> \in S
          /\ <<"te", "trailers">> \in S
      BY <2>1
    <3> QED BY <2>2, <3>1
  <2>5. e \in Seq(S)
    <3>1. <<"grpc-encoding", encoding>> \in S
      BY <2>1
    <3> QED BY <2>3, <3>1
  <2>6. own = t \o e
    BY <2>2, <2>3 DEF Own
  <2>7. own \in Seq(S)
    <3> HIDE DEF own
    <3> QED BY <2>4, <2>5, <2>6
  <2> HIDE DEF own
  <2> QED BY <2>7, SequenceFacts
<1>4. constructInitialHeaders(chan, call, encoding) = (own \o first) \o second
  BY DEF constructInitialHeaders, Own
<1> HIDE DEF own, first, second
<1>5. PICK both : both = own \o first
  OBVIOUS
<1>6. /\ IsSequence(both) /\ \A key \in Reserved : IndicesOf(both, key) = IndicesOf(own, key)
      /\ \A i \in DOMAIN own : both[i] = own[i] /\ i \in DOMAIN both
  <2>1. /\ IsSequence(both) /\ \A key \in Reserved : IndicesOf(both, key) = IndicesOf(own, key)
        /\ \A i \in DOMAIN own : both[i] = own[i]
    BY <1>2, <1>3, <1>5, ConcatenationFacts
  <2>2. DOMAIN own \subseteq DOMAIN both
    BY <1>2, <1>3, <1>5, SequenceFacts DEF Free, IsSequence
  <2> QED BY <2>1, <2>2
<1>7. /\ \A key \in Reserved : IndicesOf(both \o second, key) = IndicesOf(both, key)
      /\ \A i \in DOMAIN both : (both \o second)[i] = both[i]
  BY <1>2, <1>6, ConcatenationFacts
<1> QED BY <1>4, <1>5, <1>6, <1>7 DEF own

\* Among its own headers each key occurs once, with the value it must have.
LEMMA OwnFacts ==
    ASSUME NEW chan, NEW encoding
    PROVE  LET own == Own(chan, encoding)
           IN  /\ \A key \in Reserved : \A i, k \in IndicesOf(own, key) : i = k
               /\ IndicesOf(own, "grpc-accept-encoding") = {7} /\ own[7][2] = chan.cached
               /\ encoding = Identity => IndicesOf(own, "grpc-encoding") = {}
               /\ encoding # Identity =>
                      IndicesOf(own, "grpc-encoding") = {10} /\ own[10][2] = encoding
<1> DEFINE own == Own(chan, encoding)
<1>1. CASE encoding = Identity
  <2>1. /\ DOMAIN own = 1..9
        /\ own[1][1] = ":authority" /\ own[2][1] = ":method" /\ own[3][1] = ":path"
        /\ own[4][1] = ":scheme" /\ own[5][1] = "content-type" /\ own[6][1] = "service-name"
        /\ own[7][1] = "grpc-accept-encoding" /\ own[8][1] = "user-agent" /\ own[9][1] = "te"
        /\ own[7][2] = chan.cached
    BY <1>1 DEF Own
  <2> HIDE DEF own
  <2>2. ASSUME NEW key, NEW i \in IndicesOf(own, key), NEW k \in IndicesOf(own, key) PROVE i = k
    BY <2>1 DEF IndicesOf
  <2>3. IndicesOf(own, "grpc-accept-encoding") = {7} /\ IndicesOf(own, "grpc-encoding") = {}
    BY <2>1 DEF IndicesOf
  <2> QED BY <1>1, <2>1, <2>2, <2>3 DEF own
<1>2. CASE encoding # Identity
  <2>1. /\ DOMAIN own = 1..10
        /\ own[1][1] = ":authority" /\ own[2][1] = ":method" /\ own[3][1] = ":path"
        /\ own[4][1] = ":scheme" /\ own[5][1] = "content-type" /\ own[6][1] = "service-name"
        /\ own[7][1] = "grpc-accept-encoding" /\ own[8][1] = "user-agent" /\ own[9][1] = "te"
        /\ own[10][1] = "grpc-encoding" /\ own[7][2] = chan.cached /\ own[10][2] = encoding
    BY <1>2 DEF Own
  <2> HIDE DEF own
  <2>2. ASSUME NEW key, NEW i \in IndicesOf(own, key), NEW k \in IndicesOf(own, key) PROVE i = k
    BY <2>1 DEF IndicesOf
  <2>3. IndicesOf(own, "grpc-accept-encoding") = {7} /\ IndicesOf(own, "grpc-encoding") = {10}
    BY <2>1 DEF IndicesOf
  <2> QED BY <1>2, <2>1, <2>2, <2>3 DEF own
<1> QED BY <1>1, <1>2
-----------------------------------------------------------------------------
(* The invariant of the requests. *)

\* r is the state of a Http2Handler.
Shape(r) ==
    /\ r = [state |-> r.state, filter |-> r.filter, encoding |-> r.encoding,
            headers |-> r.headers, asked |-> r.asked, compressor |-> r.compressor,
            negotiated |-> r.negotiated, code |-> r.code, initial |-> r.initial,
            trailing |-> r.trailing]
    /\ r.state \in {"Idle", "RequestHeadersSent", "Active", "Finished"}
    /\ r.filter \in BOOLEAN

\* q belongs to the same request as r.
SameRequest(q, r) ==
    /\ Shape(q)
    /\ q.headers = r.headers /\ q.encoding = r.encoding /\ q.asked = r.asked
    /\ q.filter = r.filter

\* What r announces is what it does.
Announced(r) ==
    LET values(key) == {r.headers[i][2] : i \in IndicesOf(r.headers, key)}
    IN  /\ values("grpc-accept-encoding") = {constructAcceptEncoding(r.asked.accepted)}
        /\ values("grpc-encoding") = {r.encoding} \ {Identity}
        /\ \A key \in Reserved : \A i, k \in IndicesOf(r.headers, key) : i = k

\* A compressor's stream is fresh, or known to need a reset.
Compressor(c) == c \in [needsReset : BOOLEAN, fresh : BOOLEAN] /\ (c.needsReset \/ c.fresh)

\* The server can decode msg.
Decodable(msg, headers) ==
    IF msg.flag = 1
    THEN /\ msg.decodable
         /\ msg.payload <= msg.size
         /\ msg.size >= CompressionMinPayloadBytes
         /\ IndicesOf(headers, "grpc-encoding") # {}
    ELSE msg.payload = msg.size

\* The cached grpc-accept-encoding is the one of the flags it is kept for.
ChannelInv ==
    /\ channel = [options |-> channel.options, cached |-> channel.cached,
                  cachedFor |-> channel.cachedFor]
    /\ channel.options \in ChannelOptions
    /\ channel.cached = <<>> \/ channel.cached = constructAcceptEncoding(channel.cachedFor)

RpcInv == rpc # NoRpc => /\ Shape(rpc) /\ Announced(rpc)
                         /\ \A c \in rpc.compressor : Compressor(c)

SentInv == sent # Unset => rpc # NoRpc /\ \A msg \in sent : Decodable(msg, rpc.headers)

RequestInv == ChannelInv /\ RpcInv /\ SentInv

\* acceptEncoding() leaves the value of the present options in the cache.
LEMMA AcceptEncodingFacts ==
    ASSUME ChannelInv, NEW chan, chan = AcceptEncoding(channel)
    PROVE  /\ chan = [options |-> chan.options, cached |-> chan.cached,
                      cachedFor |-> chan.cachedFor]
           /\ chan.options = channel.options
           /\ chan.cached = constructAcceptEncoding(channel.options.accepted)
           /\ chan.cached = constructAcceptEncoding(chan.cachedFor)
<1>1. CASE channel.cached = <<>> \/ channel.options.accepted # channel.cachedFor
  <2> DEFINE flags == channel.options.accepted
             value == constructAcceptEncoding(flags)
  <2>1. chan = [[channel EXCEPT !.cached = value] EXCEPT !.cachedFor = flags]
    BY <1>1 DEF AcceptEncoding
  <2>2. PICK v : v = value
    OBVIOUS
  <2> HIDE DEF value
  <2>3. chan = [options |-> channel.options, cached |-> v, cachedFor |-> flags]
    BY <2>1, <2>2 DEF ChannelInv
  <2> QED BY <2>2, <2>3 DEF value
<1>2. CASE ~(channel.cached = <<>> \/ channel.options.accepted # channel.cachedFor)
  BY <1>2 DEF AcceptEncoding, ChannelInv
<1> QED BY <1>1, <1>2

\* A new handler.
LEMMA ConstructFacts ==
    ASSUME RequestInv, NEW call \in CallOptions, Construct(call)
    PROVE  /\ ChannelInv' /\ Shape(rpc') /\ Announced(rpc') /\ rpc'.state = "Idle"
           /\ rpc'.compressor = Unset /\ rpc'.code = Null /\ rpc'.initial = Unset
           /\ rpc'.trailing = Unset /\ rpc'.asked = channel'.options
<1>1. PICK chan : chan = channel' /\ chan = AcceptEncoding(channel)
  BY DEF Construct
<1>2. /\ chan = [options |-> chan.options, cached |-> chan.cached, cachedFor |-> chan.cachedFor]
      /\ chan.options = channel.options /\ channel.options \in ChannelOptions
      /\ chan.cached = constructAcceptEncoding(channel.options.accepted)
      /\ chan.cached = constructAcceptEncoding(chan.cachedFor)
  BY <1>1, AcceptEncodingFacts DEF RequestInv, ChannelInv
<1>3. ChannelInv'
  BY <1>1, <1>2 DEF ChannelInv
<1>4. PICK encoding, filter, headers, r :
          /\ encoding = constructRequestEncoding(call, channel.options)
          /\ filter = constructFilterServerMetadata(call, channel.options)
          /\ headers = constructInitialHeaders(chan, call, encoding)
          /\ r = [state |-> "Idle", filter |-> filter, encoding |-> encoding,
                  headers |-> headers, asked |-> channel.options, compressor |-> Unset,
                  negotiated |-> Null, code |-> Null, initial |-> Unset, trailing |-> Unset]
  OBVIOUS
<1>5. rpc' = r
  <2>1. rpc' = [state |-> "Idle", filter |-> filter, encoding |-> encoding,
                headers |-> constructInitialHeaders(channel', call, encoding),
                asked |-> channel.options, compressor |-> Unset,
                negotiated |-> Null, code |-> Null, initial |-> Unset, trailing |-> Unset]
    BY <1>4 DEF Construct
  <2> QED BY <1>1, <1>4, <2>1
<1>6. filter \in BOOLEAN
  <2>1. call.filter \subseteq BOOLEAN /\ channel.options.filter \subseteq BOOLEAN
    BY <1>2, ExchangeAssumption
  <2>2. ASSUME NEW optional, optional \subseteq BOOLEAN, NEW default \in BOOLEAN
        PROVE  ValueOr(optional, default) \in BOOLEAN
    <3>1. CASE optional = {}
      BY <3>1 DEF ValueOr, Unset
    <3>2. CASE optional # {}
      <4>1. \E v : v \in optional
        BY <3>2
      <4>2. (CHOOSE v \in optional : TRUE) \in optional
        BY <4>1
      <4> QED BY <2>2, <3>2, <4>2 DEF ValueOr, Unset
    <3> QED BY <3>1, <3>2
  <2>3. ValueOr(channel.options.filter, TRUE) \in BOOLEAN
    BY <2>1, <2>2
  <2> QED BY <1>4, <2>1, <2>2, <2>3 DEF constructFilterServerMetadata
<1>7. Shape(r)
  BY <1>4, <1>6 DEF Shape
<1>8. Announced(r)
  <2>1. PICK own : own = Own(chan, encoding)
    OBVIOUS
  <2>2. /\ \A key \in Reserved : IndicesOf(headers, key) = IndicesOf(own, key)
        /\ \A i \in DOMAIN own : headers[i] = own[i]
    BY <1>2, <1>4, <2>1, OwnFirst
  <2>3. /\ \A key \in Reserved : \A i, k \in IndicesOf(own, key) : i = k
        /\ IndicesOf(own, "grpc-accept-encoding") = {7} /\ own[7][2] = chan.cached
        /\ encoding = Identity => IndicesOf(own, "grpc-encoding") = {}
        /\ encoding # Identity =>
               IndicesOf(own, "grpc-encoding") = {10} /\ own[10][2] = encoding
    BY <2>1, OwnFacts
  <2>4. \A key : IndicesOf(own, key) \subseteq DOMAIN own
    BY DEF IndicesOf
  <2>5. "grpc-accept-encoding" \in Reserved /\ "grpc-encoding" \in Reserved
    BY DEF Reserved, GrpcHeaders
  <2>6. {headers[i][2] : i \in IndicesOf(headers, "grpc-accept-encoding")} = {chan.cached}
    BY <2>2, <2>3, <2>4, <2>5
  <2>7. {headers[i][2] : i \in IndicesOf(headers, "grpc-encoding")} = {encoding} \ {Identity}
    BY <2>2, <2>3, <2>4, <2>5
  <2>8. r.headers = headers /\ r.encoding = encoding /\ r.asked = channel.options
    BY <1>4
  <2>9. \A key \in Reserved : \A i, k \in IndicesOf(r.headers, key) : i = k
    BY <2>2, <2>3, <2>8
  <2>10. {r.headers[i][2] : i \in IndicesOf(r.headers, "grpc-accept-encoding")}
             = {constructAcceptEncoding(r.asked.accepted)}
    BY <1>2, <2>6, <2>8
  <2>11. {r.headers[i][2] : i \in IndicesOf(r.headers, "grpc-encoding")}
             = {r.encoding} \ {Identity}
    BY <2>7, <2>8
  <2> QED BY <2>9, <2>10, <2>11 DEF Announced
<1>9. /\ r.state = "Idle" /\ r.compressor = Unset /\ r.code = Null /\ r.initial = Unset
      /\ r.trailing = Unset /\ r.asked = channel.options
  BY <1>4
<1>10. channel'.options = channel.options
  BY <1>1, <1>2
<1>11. Shape(rpc') /\ Announced(rpc')
  BY <1>5, <1>7, <1>8
<1> QED BY <1>3, <1>5, <1>9, <1>10, <1>11
-----------------------------------------------------------------------------
(* What the other actions do to a handler. *)

\* finish().
LEMMA FinishFacts ==
    ASSUME NEW r, Shape(r), NEW code, NEW q, q = Finish(r, code)
    PROVE  /\ SameRequest(q, r) /\ q.state = "Finished" /\ q.code = code
           /\ q.compressor = r.compressor /\ q.initial = r.initial /\ q.trailing = r.trailing
<1>1. q = [state |-> "Finished", filter |-> r.filter, encoding |-> r.encoding,
           headers |-> r.headers, asked |-> r.asked, compressor |-> r.compressor,
           negotiated |-> r.negotiated, code |-> code, initial |-> r.initial,
           trailing |-> r.trailing]
  BY DEF Finish, Shape
<1>2. r.filter \in BOOLEAN
  BY DEF Shape
<1> QED BY <1>1, <1>2 DEF SameRequest, Shape

\* A handler that has judged a block of headers.
Heard(r, phase, j) ==
    LET active == [r EXCEPT !.state = "Active", !.negotiated = j.negotiated]
    IN  CASE j.end # Null -> Finish(active, j.end)
          [] j.end = Null /\ phase = "Initial" -> [active EXCEPT !.initial = {j.metadata}]
          [] OTHER -> Finish([active EXCEPT !.trailing = {j.metadata}], j.status)

\* What a block of headers does, given how it is judged.
LEMMA HeardFacts ==
    ASSUME NEW r, Shape(r), NEW phase, NEW j, NEW q, q = Heard(r, phase, j)
    PROVE  /\ SameRequest(q, r) /\ q.compressor = r.compressor
           /\ j.end # Null => /\ q.state = "Finished" /\ q.code = j.end
                              /\ q.initial = r.initial /\ q.trailing = r.trailing
           /\ j.end = Null /\ phase = "Initial" =>
                  /\ q.state = "Active" /\ q.code = r.code
                  /\ q.initial = {j.metadata} /\ q.trailing = r.trailing
           /\ j.end = Null /\ phase # "Initial" =>
                  /\ q.state = "Finished" /\ q.code = j.status
                  /\ q.initial = r.initial /\ q.trailing = {j.metadata}
<1>1. PICK active : active = [r EXCEPT !.state = "Active", !.negotiated = j.negotiated]
  OBVIOUS
<1>2. active = [state |-> "Active", filter |-> r.filter, encoding |-> r.encoding,
                headers |-> r.headers, asked |-> r.asked, compressor |-> r.compressor,
                negotiated |-> j.negotiated, code |-> r.code, initial |-> r.initial,
                trailing |-> r.trailing]
  BY <1>1 DEF Shape
<1>3. /\ SameRequest(active, r) /\ active.state = "Active" /\ active.code = r.code
      /\ active.compressor = r.compressor /\ active.initial = r.initial
      /\ active.trailing = r.trailing
  BY <1>2 DEF SameRequest, Shape
<1>4. Shape(active)
  BY <1>3 DEF SameRequest
<1>5. CASE j.end # Null
  <2>1. q = Finish(active, j.end)
    BY <1>1, <1>5 DEF Heard
  <2> QED BY <1>3, <1>4, <1>5, <2>1, FinishFacts DEF SameRequest
<1>6. CASE j.end = Null /\ phase = "Initial"
  <2>1. q = [active EXCEPT !.initial = {j.metadata}]
    BY <1>1, <1>6 DEF Heard
  <2>2. q = [state |-> "Active", filter |-> r.filter, encoding |-> r.encoding,
             headers |-> r.headers, asked |-> r.asked, compressor |-> r.compressor,
             negotiated |-> j.negotiated, code |-> r.code, initial |-> {j.metadata},
             trailing |-> r.trailing]
    BY <1>2, <2>1
  <2>3. r.filter \in BOOLEAN
    BY DEF Shape
  <2> QED BY <1>6, <2>2, <2>3 DEF SameRequest, Shape
<1>7. CASE j.end = Null /\ phase # "Initial"
  <2>1. PICK t : t = [active EXCEPT !.trailing = {j.metadata}]
    OBVIOUS
  <2>2. q = Finish(t, j.status)
    BY <1>1, <1>7, <2>1 DEF Heard
  <2>3. t = [state |-> "Active", filter |-> r.filter, encoding |-> r.encoding,
             headers |-> r.headers, asked |-> r.asked, compressor |-> r.compressor,
             negotiated |-> j.negotiated, code |-> r.code, initial |-> r.initial,
             trailing |-> {j.metadata}]
    BY <1>2, <2>1
  <2>4. r.filter \in BOOLEAN
    BY DEF Shape
  <2>5. /\ SameRequest(t, r) /\ t.compressor = r.compressor /\ t.initial = r.initial
        /\ t.trailing = {j.metadata}
    BY <2>3, <2>4 DEF SameRequest, Shape
  <2>6. Shape(t)
    BY <2>5 DEF SameRequest
  <2> QED BY <1>7, <2>2, <2>5, <2>6, FinishFacts DEF SameRequest
<1> QED BY <1>5, <1>6, <1>7

\* The state of a handler is set.
WithState(r, state) == [r EXCEPT !.state = state]

LEMMA WithStateFacts ==
    ASSUME NEW r, Shape(r), NEW state \in {"Idle", "RequestHeadersSent", "Active", "Finished"},
           NEW q, q = WithState(r, state)
    PROVE  /\ SameRequest(q, r) /\ q.state = state /\ q.code = r.code /\ q.initial = r.initial
           /\ q.trailing = r.trailing /\ q.compressor = r.compressor
<1>1. q = [state |-> state, filter |-> r.filter, encoding |-> r.encoding,
           headers |-> r.headers, asked |-> r.asked, compressor |-> r.compressor,
           negotiated |-> r.negotiated, code |-> r.code, initial |-> r.initial,
           trailing |-> r.trailing]
  BY DEF Shape, WithState
<1>2. r.filter \in BOOLEAN
  BY DEF Shape
<1> QED BY <1>1, <1>2 DEF SameRequest, Shape

\* The compressor of a handler is set.
WithCompressor(r, compressor) == [r EXCEPT !.compressor = compressor]

LEMMA WithCompressorFacts ==
    ASSUME NEW r, Shape(r), NEW compressor, NEW q, q = WithCompressor(r, compressor)
    PROVE  /\ SameRequest(q, r) /\ q.state = r.state /\ q.code = r.code /\ q.initial = r.initial
           /\ q.trailing = r.trailing /\ q.compressor = compressor
<1>1. q = [state |-> r.state, filter |-> r.filter, encoding |-> r.encoding,
           headers |-> r.headers, asked |-> r.asked, compressor |-> compressor,
           negotiated |-> r.negotiated, code |-> r.code, initial |-> r.initial,
           trailing |-> r.trailing]
  BY DEF Shape, WithCompressor
<1>2. r.filter \in BOOLEAN /\ r.state \in {"Idle", "RequestHeadersSent", "Active", "Finished"}
  BY DEF Shape
<1> QED BY <1>1, <1>2 DEF SameRequest, Shape

\* A message in its frame can be decoded, and the compressor that is kept is
\* ready for the next one.
LEMMA FramedFacts ==
    ASSUME NEW size \in Nat, NEW compressor, \A c \in compressor : Compressor(c),
           NEW encoding, NEW z \in ZlibOutcomes(size), NEW f,
           f = Framed(size, compressor, encoding, z)
    PROVE  /\ \A c \in f.compressor : Compressor(c)
           /\ \/ f.message.flag = 0 /\ f.message.payload = f.message.size
              \/ /\ f.message.flag = 1 /\ encoding # Identity /\ f.message.decodable
                 /\ f.message.payload <= f.message.size
                 /\ f.message.size >= CompressionMinPayloadBytes
<1>1. PICK raw : raw = [flag |-> 0, payload |-> size, size |-> size, decodable |-> TRUE]
  OBVIOUS
<1>2. PICK helper : helper = IF compressor = Unset THEN Create(z) ELSE compressor
  OBVIOUS
<1>3. \A c \in helper : Compressor(c)
  <2>1. Compressor([needsReset |-> FALSE, fresh |-> TRUE])
    BY DEF Compressor
  <2> QED BY <1>2, <2>1 DEF Create, Unset
<1>4. PICK try : try = tryCompressMessage(CHOOSE c \in helper : TRUE, z)
  OBVIOUS
<1>5. f = IF encoding = Identity \/ size < CompressionMinPayloadBytes
          THEN [message |-> raw, compressor |-> compressor]
          ELSE IF helper = Unset THEN [message |-> raw, compressor |-> Unset]
          ELSE IF try.error = Null
          THEN [message |-> [raw EXCEPT !.flag = 1, !.payload = z.out,
                                        !.decodable = try.decodable],
                compressor |-> {try.helper}]
          ELSE [message |-> raw,
                compressor |-> IF try.error = "Broken" THEN Unset ELSE {try.helper}]
  BY <1>1, <1>2, <1>4 DEF Framed
<1>6. raw.flag = 0 /\ raw.payload = raw.size
  BY <1>1
<1>7. CASE encoding = Identity \/ size < CompressionMinPayloadBytes
  BY <1>5, <1>6, <1>7
<1>8. CASE encoding # Identity /\ ~(size < CompressionMinPayloadBytes) /\ helper = Unset
  BY <1>5, <1>6, <1>8 DEF Unset
<1>9. CASE encoding # Identity /\ ~(size < CompressionMinPayloadBytes) /\ helper # Unset
  <2>1. PICK c : c \in helper /\ try = tryCompressMessage(c, z)
    <3>1. (CHOOSE c \in helper : TRUE) \in helper
      BY <1>9 DEF Unset
    <3> QED BY <1>4, <3>1
  <2>2. c \in [needsReset : BOOLEAN, fresh : BOOLEAN] /\ (c.needsReset \/ c.fresh)
    BY <1>3, <2>1 DEF Compressor
  <2>3. CASE c.needsReset /\ ~z.reset
    <3>1. try = [helper |-> c, error |-> "Broken", decodable |-> FALSE]
      BY <2>1, <2>3 DEF tryCompressMessage
    <3>2. f = [message |-> raw, compressor |-> Unset]
      BY <1>5, <1>9, <3>1 DEF Null
    <3> QED BY <1>6, <3>2 DEF Unset
  <2>4. CASE ~(c.needsReset /\ ~z.reset)
    <3>1. PICK d : d = IF c.needsReset THEN [needsReset |-> FALSE, fresh |-> TRUE] ELSE c
      OBVIOUS
    <3>2. try = Deflate(d, z)
      BY <2>1, <2>4, <3>1 DEF tryCompressMessage
    <3>3. d.fresh
      <4>1. CASE c.needsReset
        BY <3>1, <4>1
      <4>2. CASE ~c.needsReset
        BY <2>2, <3>1, <4>2
      <4> QED BY <4>1, <4>2
    <3>4. try.helper = [needsReset |-> TRUE, fresh |-> FALSE] /\ try.decodable = d.fresh
      BY <3>2 DEF Deflate
    <3>5. Compressor(try.helper)
      BY <3>4 DEF Compressor
    <3>6. CASE try.error # Null
      BY <1>5, <1>6, <1>9, <3>5, <3>6 DEF Unset
    <3>7. CASE try.error = Null
      <4>1. PICK msg : msg = [raw EXCEPT !.flag = 1, !.payload = z.out,
                                         !.decodable = try.decodable]
        OBVIOUS
      <4>2. msg = [flag |-> 1, payload |-> z.out, size |-> size, decodable |-> try.decodable]
        BY <1>1, <4>1
      <4>3. f = [message |-> msg, compressor |-> {try.helper}]
        BY <1>5, <1>9, <3>7, <4>1
      <4>4. z.out <= size /\ size >= CompressionMinPayloadBytes
        BY <1>9 DEF ZlibOutcomes, CompressionMinPayloadBytes
      <4>5. /\ msg.flag = 1 /\ msg.decodable = try.decodable /\ msg.payload = z.out
            /\ msg.size = size
        BY <4>2
      <4>6. msg.decodable
        BY <3>3, <3>4, <4>5
      <4>7. f.message = msg /\ f.compressor = {try.helper}
        BY <4>3
      <4>8. \A x \in f.compressor : Compressor(x)
        BY <3>5, <4>7
      <4> QED BY <1>9, <4>4, <4>5, <4>6, <4>7, <4>8
    <3> QED BY <3>6, <3>7
  <2> QED BY <2>3, <2>4
<1> QED BY <1>7, <1>8, <1>9
\* An action on the running RPC keeps what was announced.
LEMMA RequestKept ==
    ASSUME RequestInv, rpc # NoRpc, SameRequest(rpc', rpc), channel' = channel,
           \A c \in rpc'.compressor : Compressor(c),
           \A msg \in sent' : Decodable(msg, rpc.headers)
    PROVE  RequestInv'
<1>1. ChannelInv'
  BY DEF RequestInv, ChannelInv
<1>2. PICK r, q : r = rpc /\ q = rpc' /\ SameRequest(q, r) /\ Announced(r) /\ r.headers = rpc.headers
  BY DEF RequestInv, RpcInv
<1>3. Announced(q)
  BY <1>2 DEF Announced, SameRequest
<1>4. RpcInv'
  BY <1>2, <1>3 DEF RpcInv, SameRequest
<1>5. SentInv'
  <2>1. q # NoRpc /\ q.headers = r.headers
    BY <1>2 DEF SameRequest, Shape, NoRpc
  <2> QED BY <1>2, <2>1 DEF SentInv
<1> QED BY <1>1, <1>4, <1>5 DEF RequestInv

\* There is a handler in every state but "None".
LEMMA SomeRpc ==
    ASSUME RequestInv, rpc.state # "None"
    PROVE  rpc # NoRpc /\ Shape(rpc) /\ \A c \in rpc.compressor : Compressor(c)
<1>1. rpc # NoRpc
  BY DEF NoRpc
<1> QED BY <1>1 DEF RequestInv, RpcInv

\* The messages that are queued can still be decoded.
LEMMA StillDecodable ==
    ASSUME RequestInv, sent' = sent PROVE \A msg \in sent' : Decodable(msg, rpc.headers)
  BY DEF RequestInv, SentInv, Unset

\* What headersReceived() does.
LEMMA HeadersReceivedFacts ==
    ASSUME RequestInv, NEW headers, NEW endStream, NEW usable,
           HeadersReceived(headers, endStream, usable)
    PROVE  LET phase == Phase(rpc.state, endStream)
               j == Judged(headers, phase, rpc.filter, channel.options.accepted, usable,
                           rpc.negotiated)
           IN  /\ rpc # NoRpc /\ Shape(rpc)
               /\ rpc.state \in {"RequestHeadersSent", "Active"} /\ phase # "Invalid"
               /\ SameRequest(rpc', rpc) /\ rpc'.compressor = rpc.compressor
               /\ j.end # Null => /\ rpc'.state = "Finished" /\ rpc'.code = j.end
                                  /\ rpc'.initial = rpc.initial /\ rpc'.trailing = rpc.trailing
               /\ j.end = Null /\ phase = "Initial" =>
                      /\ rpc'.state = "Active" /\ rpc'.code = rpc.code
                      /\ rpc'.initial = {j.metadata} /\ rpc'.trailing = rpc.trailing
               /\ j.end = Null /\ phase # "Initial" =>
                      /\ rpc'.state = "Finished" /\ rpc'.code = j.status
                      /\ rpc'.initial = rpc.initial /\ rpc'.trailing = {j.metadata}
               /\ block' = [phase |-> phase, headers |-> headers, usable |-> usable]
               /\ channel' = channel /\ sent' = sent
<1>1. PICK phase, j, r, q :
          /\ phase = Phase(rpc.state, endStream)
          /\ j = Judged(headers, phase, rpc.filter, channel.options.accepted, usable,
                        rpc.negotiated)
          /\ r = rpc /\ q = rpc'
  OBVIOUS
<1>2. q = Heard(r, phase, j)
  BY <1>1 DEF HeadersReceived, Heard
<1>3. /\ rpc.state \in {"RequestHeadersSent", "Active"} /\ phase # "Invalid"
      /\ block' = [phase |-> phase, headers |-> headers, usable |-> usable]
      /\ channel' = channel /\ sent' = sent
  BY <1>1 DEF HeadersReceived
<1>4. rpc # NoRpc /\ Shape(rpc) /\ Shape(r)
  BY <1>1, <1>3, SomeRpc
<1>5. /\ SameRequest(q, r) /\ q.compressor = r.compressor
      /\ j.end # Null => /\ q.state = "Finished" /\ q.code = j.end
                         /\ q.initial = r.initial /\ q.trailing = r.trailing
      /\ j.end = Null /\ phase = "Initial" =>
             /\ q.state = "Active" /\ q.code = r.code
             /\ q.initial = {j.metadata} /\ q.trailing = r.trailing
      /\ j.end = Null /\ phase # "Initial" =>
             /\ q.state = "Finished" /\ q.code = j.status
             /\ q.initial = r.initial /\ q.trailing = {j.metadata}
  BY <1>2, <1>4, HeardFacts
<1> QED BY <1>1, <1>3, <1>4, <1>5

\* What writeMessage() does.
LEMMA WriteMessageFacts ==
    ASSUME RequestInv, NEW size \in Sizes, WriteMessage(size)
    PROVE  /\ rpc # NoRpc /\ Shape(rpc) /\ InFlight /\ SameRequest(rpc', rpc)
           /\ channel' = channel
           /\ \A c \in rpc'.compressor : Compressor(c)
           /\ \A msg \in sent' : Decodable(msg, rpc.headers)
           /\ \/ rpc'.state = "Finished" /\ block' = NoBlock
              \/ /\ rpc'.state = rpc.state /\ rpc'.code = rpc.code
                 /\ rpc'.initial = rpc.initial /\ rpc'.trailing = rpc.trailing
                 /\ block' = block
<1>1. InFlight /\ channel' = channel
  BY DEF WriteMessage
<1>2. rpc # NoRpc /\ Shape(rpc) /\ \A c \in rpc.compressor : Compressor(c)
  BY <1>1, SomeRpc DEF InFlight
<1>3. size \in Nat
  BY ExchangeAssumption
<1>4. CASE size > GrpcMaxPayloadSize
  <2>1. /\ rpc' = Finish(rpc, "ResourceExhausted") /\ block' = NoBlock /\ sent' = sent
    BY <1>4 DEF WriteMessage
  <2>2. PICK r, q : r = rpc /\ q = rpc' /\ q = Finish(r, "ResourceExhausted")
    BY <2>1
  <2>3. SameRequest(q, r) /\ q.state = "Finished" /\ q.compressor = r.compressor
    BY <1>2, <2>2, FinishFacts
  <2> QED BY <1>1, <1>2, <2>1, <2>2, <2>3, StillDecodable
<1>5. CASE ~(size > GrpcMaxPayloadSize)
  <2>1. PICK z \in ZlibOutcomes(size) :
            LET f == Framed(size, rpc.compressor, rpc.encoding, z)
            IN  /\ rpc' = [rpc EXCEPT !.compressor = f.compressor]
                /\ sent' = {f.message}
                /\ block' = block
    BY <1>5 DEF WriteMessage
  <2>2. PICK f : f = Framed(size, rpc.compressor, rpc.encoding, z)
    OBVIOUS
  <2>3. PICK r, q : r = rpc /\ q = rpc' /\ q = WithCompressor(r, f.compressor)
    BY <2>1, <2>2 DEF WithCompressor
  <2>4. /\ SameRequest(q, r) /\ q.compressor = f.compressor /\ q.code = r.code
        /\ q.initial = r.initial /\ q.trailing = r.trailing /\ q.state = r.state
    BY <1>2, <2>3, WithCompressorFacts
  <2>5. /\ \A c \in f.compressor : Compressor(c)
        /\ \/ f.message.flag = 0 /\ f.message.payload = f.message.size
           \/ /\ f.message.flag = 1 /\ rpc.encoding # Identity /\ f.message.decodable
              /\ f.message.payload <= f.message.size
              /\ f.message.size >= CompressionMinPayloadBytes
    BY <1>2, <1>3, <2>1, <2>2, FramedFacts
  <2>6. rpc.encoding # Identity => IndicesOf(rpc.headers, "grpc-encoding") # {}
    <3>1. Announced(rpc)
      BY <1>2 DEF RequestInv, RpcInv
    <3> QED BY <3>1 DEF Announced
  <2>7. Decodable(f.message, rpc.headers)
    BY <2>5, <2>6 DEF Decodable
  <2>8. sent' = {f.message} /\ block' = block
    BY <2>1, <2>2
  <2> QED BY <1>1, <1>2, <2>3, <2>4, <2>5, <2>7, <2>8
<1> QED BY <1>4, <1>5

\* The invariant holds.
LEMMA RequestInvariant == Spec => []RequestInv
<1>1. Init => RequestInv
  <2> SUFFICES ASSUME Init PROVE RequestInv
    OBVIOUS
  <2>1. PICK o \in ChannelOptions : channel = [options |-> o, cached |-> <<>>, cachedFor |-> {}]
    BY DEF Init
  <2>2. ChannelInv
    BY <2>1 DEF ChannelInv
  <2> QED BY <2>2 DEF Init, RequestInv, RpcInv, SentInv
<1>2. RequestInv /\ [Next]_vars => RequestInv'
  <2> SUFFICES ASSUME RequestInv, [Next]_vars PROVE RequestInv'
    OBVIOUS
  <2>1. CASE UNCHANGED vars
    BY <2>1 DEF vars, RequestInv, ChannelInv, RpcInv, SentInv
  <2>2. ASSUME NEW o \in ChannelOptions, SetChannelOptions(o) PROVE RequestInv'
    <3>1. channel' = [options |-> o, cached |-> channel.cached, cachedFor |-> channel.cachedFor]
      BY <2>2 DEF SetChannelOptions, RequestInv, ChannelInv
    <3>2. ChannelInv'
      BY <3>1 DEF RequestInv, ChannelInv
    <3> QED BY <2>2, <3>2 DEF SetChannelOptions, RequestInv, RpcInv, SentInv
  <2>3. ASSUME NEW call \in CallOptions, Construct(call) PROVE RequestInv'
    <3>1. /\ ChannelInv' /\ Shape(rpc') /\ Announced(rpc') /\ rpc'.compressor = Unset
      BY <2>3, ConstructFacts
    <3>2. sent' = Unset
      BY <2>3 DEF Construct
    <3> QED BY <3>1, <3>2 DEF RequestInv, RpcInv, SentInv, Unset
  <2>4. CASE SendInitialRequest
    <3>1. /\ rpc.state = "Idle" /\ channel' = channel /\ sent' = sent
          /\ rpc' = [rpc EXCEPT !.state = "RequestHeadersSent"]
      BY <2>4 DEF SendInitialRequest
    <3>2. rpc # NoRpc /\ Shape(rpc) /\ \A c \in rpc.compressor : Compressor(c)
      BY <3>1, SomeRpc
    <3>3. PICK r, q : r = rpc /\ q = rpc' /\ q = WithState(r, "RequestHeadersSent")
      BY <3>1 DEF WithState
    <3>4. SameRequest(q, r) /\ q.compressor = r.compressor
      BY <3>2, <3>3, WithStateFacts
    <3> QED BY <3>1, <3>2, <3>3, <3>4, RequestKept, StillDecodable
  <2>5. ASSUME NEW headers \in Blocks, NEW endStream \in BOOLEAN, NEW usable,
               HeadersReceived(headers, endStream, usable)
        PROVE  RequestInv'
    <3>1. /\ rpc # NoRpc /\ SameRequest(rpc', rpc) /\ rpc'.compressor = rpc.compressor
          /\ rpc.state \in {"RequestHeadersSent", "Active"} /\ channel' = channel /\ sent' = sent
      BY <2>5, HeadersReceivedFacts
    <3>2. \A c \in rpc.compressor : Compressor(c)
      BY <3>1, SomeRpc
    <3> QED BY <3>1, <3>2, RequestKept, StillDecodable
  <2>6. CASE UnexpectedHeaders
    BY <2>6 DEF UnexpectedHeaders, vars, RequestInv, ChannelInv, RpcInv, SentInv
  <2>7. ASSUME NEW error, ErrorOccurred(error) PROVE RequestInv'
    <3>1. /\ rpc.state \in {"RequestHeadersSent", "Active"} /\ channel' = channel /\ sent' = sent
          /\ rpc' = Finish(rpc, http2ErrorToStatusCode(error))
      BY <2>7 DEF ErrorOccurred
    <3>2. rpc # NoRpc /\ Shape(rpc) /\ \A c \in rpc.compressor : Compressor(c)
      BY <3>1, SomeRpc
    <3>3. PICK r, q : r = rpc /\ q = rpc' /\ q = Finish(r, http2ErrorToStatusCode(error))
      BY <3>1
    <3>4. SameRequest(q, r) /\ q.compressor = r.compressor
      BY <3>2, <3>3, FinishFacts
    <3> QED BY <3>1, <3>2, <3>3, <3>4, RequestKept, StillDecodable
  <2>8. ASSUME NEW size \in Sizes, WriteMessage(size) PROVE RequestInv'
    BY <2>8, WriteMessageFacts, RequestKept
  <2> QED BY <2>1, <2>2, <2>3, <2>4, <2>5, <2>6, <2>7, <2>8 DEF Next
<1> QED BY <1>1, <1>2, PTL DEF Spec

\* Every RPC announces the encodings it accepts, whatever became of the channel's
\* options since they were cached, and the one it compresses with, each once.
THEOREM AnnouncesWhatItDoes == Spec => []EncodingAgreed
<1>1. RequestInv => EncodingAgreed
  BY DEF RequestInv, RpcInv, Announced, EncodingAgreed
<1> QED BY <1>1, RequestInvariant, PTL

\* The server can decode every message, whatever zlib did on the ones before it.
THEOREM EveryMessageDecodable == Spec => []CompressedDecodable
<1>1. RequestInv => CompressedDecodable
  BY DEF RequestInv, SentInv, Decodable, CompressedDecodable, Unset
<1> QED BY <1>1, RequestInvariant, PTL
-----------------------------------------------------------------------------
(* The metadata of a response. *)

FirstIndices(headers, key, m) == {i \in 1..m : headers[i][1] = key}

\* The values of a key in the first m headers, the newest first.
FirstNewest(values, headers, key, m) ==
    /\ IsSequence(values)
    /\ \E at \in [1..Len(values) -> FirstIndices(headers, key, m)] :
           /\ \A i \in 1..Len(values) : values[i] = headers[at[i]][2]
           /\ \A i, k \in 1..Len(values) : i < k => at[i] > at[k]
           /\ \A n \in FirstIndices(headers, key, m) : \E i \in 1..Len(values) : at[i] = n

\* The hash has what is not hidden of the first m headers.
HoldsFirst(hash, headers, hidden, m) ==
    /\ DOMAIN hash = {headers[i][1] : i \in 1..m} \ hidden
    /\ \A key \in DOMAIN hash : FirstNewest(hash[key], headers, key, m)

\* A value in front of a sequence.
LEMMA PrependFacts ==
    ASSUME NEW s, IsSequence(s), NEW v
    PROVE  LET t == <<v>> \o s
           IN  /\ IsSequence(t) /\ Len(s) \in Nat /\ Len(t) = Len(s) + 1 /\ t[1] = v
               /\ \A i \in 2..(Len(s) + 1) : t[i] = s[i - 1]
<1> DEFINE S == {s[i] : i \in DOMAIN s} \cup {v}
<1>1. s \in Seq(S) /\ v \in S
  BY DEF IsSequence
<1> HIDE DEF S
<1>2. <<v>> \o s \in Seq(S)
  BY <1>1
<1>3. IsSequence(<<v>> \o s)
  BY <1>2, SequenceFacts
<1>4. /\ Len(s) \in Nat /\ Len(<<v>> \o s) = Len(s) + 1 /\ (<<v>> \o s)[1] = v
      /\ \A i \in 2..(Len(s) + 1) : (<<v>> \o s)[i] = s[i - 1]
  BY <1>1
<1> QED BY <1>3, <1>4

\* The next header has another key.
LEMMA NewestKept ==
    ASSUME NEW headers, NEW key, NEW m \in Nat, headers[m + 1][1] # key, NEW values,
           FirstNewest(values, headers, key, m)
    PROVE  FirstNewest(values, headers, key, m + 1)
<1>1. FirstIndices(headers, key, m + 1) = FirstIndices(headers, key, m)
  <2>1. \A i : i \in 1..(m + 1) <=> i \in 1..m \/ i = m + 1
    OBVIOUS
  <2> QED BY <2>1 DEF FirstIndices
<1> QED BY <1>1 DEF FirstNewest

\* The next header has the key: its value goes in front.
LEMMA NewestNext ==
    ASSUME NEW headers, NEW key, NEW m \in Nat, headers[m + 1][1] = key, NEW values,
           FirstNewest(values, headers, key, m)
    PROVE  FirstNewest(<<headers[m + 1][2]>> \o values, headers, key, m + 1)
<1>1. PICK S, T : S = FirstIndices(headers, key, m) /\ T = FirstIndices(headers, key, m + 1)
  OBVIOUS
<1>2. T = S \cup {m + 1} /\ \A i \in S : i \in 1..m
  <2>1. \A i : i \in 1..(m + 1) <=> i \in 1..m \/ i = m + 1
    OBVIOUS
  <2> QED BY <1>1, <2>1 DEF FirstIndices
<1>3. PICK at \in [1..Len(values) -> S] :
          /\ \A i \in 1..Len(values) : values[i] = headers[at[i]][2]
          /\ \A i, k \in 1..Len(values) : i < k => at[i] > at[k]
          /\ \A n \in S : \E i \in 1..Len(values) : at[i] = n
  BY <1>1 DEF FirstNewest
<1>4. PICK l, v, t : l = Len(values) /\ v = headers[m + 1][2] /\ t = <<v>> \o values
  OBVIOUS
<1>5. IsSequence(values)
  BY DEF FirstNewest
<1>6. /\ IsSequence(t) /\ Len(values) \in Nat /\ Len(t) = Len(values) + 1 /\ t[1] = v
      /\ \A i \in 2..(Len(values) + 1) : t[i] = values[i - 1]
  BY <1>4, <1>5, PrependFacts
<1>7. /\ l \in Nat /\ Len(t) = l + 1 /\ t[1] = v
      /\ \A i \in 2..(l + 1) : t[i] = values[i - 1]
  BY <1>4, <1>6
<1>8. l \in Nat
  BY <1>7
<1>9. /\ at \in [1..l -> S]
      /\ \A i \in 1..l : values[i] = headers[at[i]][2]
      /\ \A i, k \in 1..l : i < k => at[i] > at[k]
      /\ \A n \in S : \E i \in 1..l : at[i] = n
  BY <1>3, <1>4
<1> DEFINE to == [i \in 1..(l + 1) |-> IF i = 1 THEN m + 1 ELSE at[i - 1]]
<1>10. \A i \in 1..(l + 1) : i = 1 \/ (i \in 2..(l + 1) /\ i - 1 \in 1..l)
  BY <1>8
<1>11. /\ to[1] = m + 1 /\ 1 \in 1..(l + 1)
       /\ \A i \in 2..(l + 1) : to[i] = at[i - 1] /\ i - 1 \in 1..l /\ to[i] \in S
  BY <1>8, <1>9
<1>12. to \in [1..(l + 1) -> T]
  <2>1. ASSUME NEW i \in 1..(l + 1) PROVE to[i] \in T
    <3> HIDE DEF to
    <3> QED BY <1>2, <1>10, <1>11
  <2>2. to = [i \in 1..(l + 1) |-> to[i]]
    OBVIOUS
  <2> HIDE DEF to
  <2> QED BY <2>1, <2>2
<1> HIDE DEF to
<1>13. ASSUME NEW i \in 1..(l + 1) PROVE t[i] = headers[to[i]][2]
  BY <1>4, <1>10, <1>11, <1>7, <1>9
<1>14. ASSUME NEW i \in 1..(l + 1), NEW k \in 1..(l + 1), i < k PROVE to[i] > to[k]
  <2>1. k \in 2..(l + 1) /\ to[k] = at[k - 1] /\ k - 1 \in 1..l /\ to[k] \in 1..m
    BY <1>2, <1>10, <1>11, <1>14
  <2>2. CASE i = 1
    BY <1>11, <2>1, <2>2
  <2>3. CASE i \in 2..(l + 1)
    <3>1. to[i] = at[i - 1] /\ i - 1 \in 1..l /\ i - 1 < k - 1
      BY <1>8, <1>11, <1>14, <2>1, <2>3
    <3> QED BY <1>8, <1>9, <2>1, <3>1
  <2> QED BY <1>10, <2>2, <2>3
<1>15. ASSUME NEW n \in T PROVE \E i \in 1..(l + 1) : to[i] = n
  <2>1. CASE n = m + 1
    BY <1>11, <2>1
  <2>2. CASE n \in S
    <3>1. PICK i \in 1..l : at[i] = n
      BY <1>9, <2>2
    <3>2. i + 1 \in 2..(l + 1) /\ i + 1 \in 1..(l + 1) /\ (i + 1) - 1 = i
      BY <1>8
    <3> QED BY <1>11, <3>1, <3>2
  <2> QED BY <1>2, <2>1, <2>2
<1>16. FirstNewest(t, headers, key, m + 1)
  <2>1. /\ to \in [1..Len(t) -> FirstIndices(headers, key, m + 1)]
        /\ \A i \in 1..Len(t) : t[i] = headers[to[i]][2]
        /\ \A i, k \in 1..Len(t) : i < k => to[i] > to[k]
        /\ \A n \in FirstIndices(headers, key, m + 1) : \E i \in 1..Len(t) : to[i] = n
    <3>1. PICK k : k = Len(t) /\ k = l + 1
      BY <1>7
    <3> QED BY <1>1, <1>12, <1>13, <1>14, <1>15, <3>1
  <2> QED BY <1>6, <2>1 DEF FirstNewest
<1> QED BY <1>4, <1>16

\* No header has the key yet.
LEMMA NewestEmpty ==
    ASSUME NEW headers, NEW key, NEW m \in Nat, FirstIndices(headers, key, m) = {}
    PROVE  FirstNewest(<<>>, headers, key, m)
<1>1. IsSequence(<<>>) /\ Len(<<>>) = 0 /\ 1..0 = {}
  <2>1. <<>> \in Seq({})
    OBVIOUS
  <2>2. IsSequence(<<>>)
    BY <2>1, SequenceFacts
  <2>3. Len(<<>>) = 0 /\ 1..0 = {}
    OBVIOUS
  <2> QED BY <2>2, <2>3
<1>2. [i \in 1..0 |-> 0] \in [1..0 -> FirstIndices(headers, key, m)]
  BY <1>1
<1> QED BY <1>1, <1>2 DEF FirstNewest

\* A hidden header is skipped, another one inserted.
LEMMA HoldsNext ==
    ASSUME NEW headers, NEW hidden, NEW m \in Nat, NEW hash,
           HoldsFirst(hash, headers, hidden, m),
           NEW next, next = IF headers[m + 1][1] \in hidden THEN hash
                            ELSE Inserted(hash, headers[m + 1])
    PROVE  HoldsFirst(next, headers, hidden, m + 1)
<1>1. PICK h : h = headers[m + 1]
  OBVIOUS
<1>2. {headers[i][1] : i \in 1..(m + 1)} = {headers[i][1] : i \in 1..m} \cup {h[1]}
  <2>1. \A i : i \in 1..(m + 1) <=> i \in 1..m \/ i = m + 1
    OBVIOUS
  <2> QED BY <1>1, <2>1
<1>3. DOMAIN hash = {headers[i][1] : i \in 1..m} \ hidden
  BY DEF HoldsFirst
<1>4. CASE h[1] \in hidden
  <2>1. next = hash /\ h[1] \notin DOMAIN hash
    BY <1>1, <1>3, <1>4
  <2>2. ASSUME NEW key \in DOMAIN hash PROVE FirstNewest(hash[key], headers, key, m + 1)
    BY <1>1, <2>1, <2>2, NewestKept DEF HoldsFirst
  <2>3. DOMAIN hash = {headers[i][1] : i \in 1..(m + 1)} \ hidden
    BY <1>2, <1>3, <1>4
  <2> QED BY <2>1, <2>2, <2>3 DEF HoldsFirst
<1>5. CASE h[1] \notin hidden
  <2> DEFINE older == IF h[1] \in DOMAIN hash THEN hash[h[1]] ELSE <<>>
  <2>1. next = [key \in DOMAIN hash \cup {h[1]} |->
                    IF key # h[1] THEN hash[key]
                    ELSE <<h[2]>> \o (IF key \in DOMAIN hash THEN hash[key] ELSE <<>>)]
    BY <1>1, <1>5 DEF Inserted
  <2>2. /\ DOMAIN next = DOMAIN hash \cup {h[1]} /\ next[h[1]] = <<h[2]>> \o older
        /\ \A key \in DOMAIN hash : key # h[1] => next[key] = hash[key]
    BY <2>1
  <2>3. FirstNewest(older, headers, h[1], m)
    <3>1. CASE h[1] \in DOMAIN hash
      BY <3>1 DEF HoldsFirst
    <3>2. CASE h[1] \notin DOMAIN hash
      <4>1. FirstIndices(headers, h[1], m) = {}
        BY <1>3, <1>5, <3>2 DEF FirstIndices
      <4> QED BY <3>2, <4>1, NewestEmpty
    <3> QED BY <3>1, <3>2
  <2> HIDE DEF older
  <2>4. FirstNewest(next[h[1]], headers, h[1], m + 1)
    <3>1. PICK key : key = h[1] /\ headers[m + 1][1] = key
      BY <1>1
    <3>2. FirstNewest(<<headers[m + 1][2]>> \o older, headers, key, m + 1)
      BY <2>3, <3>1, NewestNext
    <3>3. next[key] = <<headers[m + 1][2]>> \o older
      BY <1>1, <2>2, <3>1
    <3> QED BY <3>1, <3>2, <3>3
  <2>5. ASSUME NEW key \in DOMAIN next PROVE FirstNewest(next[key], headers, key, m + 1)
    <3>1. CASE key = h[1]
      BY <2>4, <3>1
    <3>2. CASE key # h[1]
      <4>1. key \in DOMAIN hash /\ next[key] = hash[key]
        BY <2>2, <3>2
      <4> QED BY <1>1, <3>2, <4>1, NewestKept DEF HoldsFirst
    <3> QED BY <3>1, <3>2
  <2>6. DOMAIN next = {headers[i][1] : i \in 1..(m + 1)} \ hidden
    BY <1>2, <1>3, <1>5, <2>2
  <2> QED BY <2>5, <2>6 DEF HoldsFirst
<1> QED BY <1>4, <1>5

\* The first headers of a block may be all of them.
LEMMA HoldsAll ==
    ASSUME NEW headers, IsSequence(headers), NEW hidden, NEW hash,
           HoldsFirst(hash, headers, hidden, Len(headers))
    PROVE  HoldsHeaders(hash, headers, hidden)
<1>1. DOMAIN headers = 1..Len(headers)
  BY SequenceFacts
<1>2. ASSUME NEW key \in DOMAIN hash PROVE NewestFirst(hash[key], headers, key)
  <2>1. PICK values, S : values = hash[key] /\ S = FirstIndices(headers, key, Len(headers))
    OBVIOUS
  <2>2. S = IndicesOf(headers, key)
    BY <1>1, <2>1 DEF FirstIndices, IndicesOf
  <2>3. FirstNewest(values, headers, key, Len(headers))
    BY <2>1 DEF HoldsFirst
  <2>4. PICK at \in [1..Len(values) -> S] :
            /\ \A i \in 1..Len(values) : values[i] = headers[at[i]][2]
            /\ \A i, k \in 1..Len(values) : i < k => at[i] > at[k]
            /\ \A n \in S : \E i \in 1..Len(values) : at[i] = n
    BY <2>1, <2>3 DEF FirstNewest
  <2>5. DOMAIN at = 1..Len(values)
    OBVIOUS
  <2>6. NewestFirst(values, headers, key)
    BY <2>2, <2>4, <2>5 DEF NewestFirst
  <2> QED BY <2>1, <2>6
<1> QED BY <1>1, <1>2 DEF HoldsFirst, HoldsHeaders
-----------------------------------------------------------------------------
(* The loop over a block of headers. *)

Phases == {"Initial", "Trailers", "TrailersOnly"}

\* r is what handleHeaders() has found out so far.
Verdict(r) ==
    r = [end |-> r.end, has |-> r.has, status |-> r.status, metadata |-> r.metadata,
         negotiated |-> r.negotiated]

LEMMA RequiresFacts ==
    ASSUME NEW phase \in Phases, NEW key
    PROVE  key \in Requires(phase) <=> \/ key \in {":status", "content-type"} /\ phase # "Trailers"
                                       \/ key = "grpc-status" /\ phase # "Initial"
  BY DEF Requires, Phases

\* What one header is found to be, before its metadata is stored.
Judgement(phase, accepted, usable, r, header) ==
    LET required == header[1] \in Requires(phase)
    IN  CASE required /\ header[1] = ":status" -> HttpStatus(r, header)
          [] required /\ header[1] = "content-type" -> ContentType(r, header)
          [] required /\ header[1] = "grpc-status" -> GrpcStatus(r, header)
          [] phase = "Initial" /\ header[1] = "grpc-encoding" ->
                 GrpcEncoding(r, header, accepted, usable)
          [] OTHER -> r

\* The helpers of the loop.
LEMMA VerdictFacts ==
    ASSUME NEW r, Verdict(r), NEW code, NEW key, NEW header, NEW value
    PROVE  /\ Ends(r, code) = [end |-> code, has |-> r.has, status |-> r.status,
                               metadata |-> r.metadata, negotiated |-> r.negotiated]
           /\ Has(r, key) = [end |-> r.end, has |-> r.has \cup {key}, status |-> r.status,
                             metadata |-> r.metadata, negotiated |-> r.negotiated]
           /\ Shown(r, header) = [end |-> r.end, has |-> r.has, status |-> r.status,
                                  metadata |-> Inserted(r.metadata, header),
                                  negotiated |-> r.negotiated]
           /\ [r EXCEPT !.negotiated = value] =
                  [end |-> r.end, has |-> r.has, status |-> r.status,
                   metadata |-> r.metadata, negotiated |-> value]
           /\ [Has(r, key) EXCEPT !.status = value] =
                  [end |-> r.end, has |-> r.has \cup {key}, status |-> value,
                   metadata |-> r.metadata, negotiated |-> r.negotiated]
<1>1. Ends(r, code) = [end |-> code, has |-> r.has, status |-> r.status,
                       metadata |-> r.metadata, negotiated |-> r.negotiated]
  BY DEF Ends, Verdict
<1>2. Has(r, key) = [end |-> r.end, has |-> r.has \cup {key}, status |-> r.status,
                     metadata |-> r.metadata, negotiated |-> r.negotiated]
  BY DEF Has, Verdict
<1>3. Shown(r, header) = [end |-> r.end, has |-> r.has, status |-> r.status,
                          metadata |-> Inserted(r.metadata, header),
                          negotiated |-> r.negotiated]
  BY DEF Shown, Verdict
<1>4. [r EXCEPT !.negotiated = value] =
          [end |-> r.end, has |-> r.has, status |-> r.status,
           metadata |-> r.metadata, negotiated |-> value]
  BY DEF Verdict
<1>5. [Has(r, key) EXCEPT !.status = value] =
          [end |-> r.end, has |-> r.has \cup {key}, status |-> value,
           metadata |-> r.metadata, negotiated |-> r.negotiated]
  BY <1>2
<1> QED BY <1>1, <1>2, <1>3, <1>4, <1>5

\* q is r with a header that offends, or with one that does not.
JudgedTo(q, r, phase, header, offence) ==
    /\ Verdict(q)
    /\ offence # Null => q.end = offence
    /\ offence = Null =>
           /\ q.end = Null /\ q.metadata = r.metadata
           /\ q.has = r.has \cup ({header[1]} \cap Requires(phase))
           /\ q.status = IF header[1] = "grpc-status" /\ phase # "Initial"
                         THEN StatusCodes[header[2] + 1] ELSE r.status

LEMMA JudgementFacts ==
    ASSUME NEW r, Verdict(r), r.end = Null, NEW phase \in Phases, NEW accepted, NEW usable,
           NEW header, NEW q, q = Judgement(phase, accepted, usable, r, header)
    PROVE  JudgedTo(q, r, phase, header, Offence(header, phase, accepted, usable))
<1>1. PICK key, value, offence :
          /\ key = header[1] /\ value = header[2]
          /\ offence = Offence(header, phase, accepted, usable)
  OBVIOUS
<1>2. key \in Requires(phase) <=> \/ key \in {":status", "content-type"} /\ phase # "Trailers"
                                  \/ key = "grpc-status" /\ phase # "Initial"
  BY RequiresFacts
<1>3. PICK e, n, u, s :
          /\ e = [code \in {"Internal", "Unknown", http2StatusToStatusCode(value)} |->
                      [end |-> code, has |-> r.has, status |-> r.status,
                       metadata |-> r.metadata, negotiated |-> r.negotiated]]
          /\ n = [end |-> Null, has |-> r.has \cup {key}, status |-> r.status,
                  metadata |-> r.metadata, negotiated |-> r.negotiated]
          /\ u = [v \in {Null, value} |->
                      [end |-> Null, has |-> r.has, status |-> r.status,
                       metadata |-> r.metadata, negotiated |-> v]]
          /\ s = [end |-> Null, has |-> r.has \cup {key}, status |-> StatusCodes[value + 1],
                  metadata |-> r.metadata, negotiated |-> r.negotiated]
  OBVIOUS
<1>4. /\ \A code \in {"Internal", "Unknown", http2StatusToStatusCode(value)} :
             Ends(r, code) = e[code] /\ Verdict(e[code]) /\ e[code].end = code
      /\ Has(r, key) = n /\ Verdict(n) /\ n.end = Null /\ n.has = r.has \cup {key}
      /\ n.status = r.status /\ n.metadata = r.metadata
      /\ \A v \in {Null, value} :
             /\ [r EXCEPT !.negotiated = v] = u[v] /\ Verdict(u[v]) /\ u[v].end = Null
             /\ u[v].has = r.has /\ u[v].status = r.status /\ u[v].metadata = r.metadata
      /\ [Has(r, key) EXCEPT !.status = StatusCodes[value + 1]] = s /\ Verdict(s) /\ s.end = Null
      /\ s.has = r.has \cup {key} /\ s.status = StatusCodes[value + 1]
      /\ s.metadata = r.metadata
  <2>1. ASSUME NEW code \in {"Internal", "Unknown", http2StatusToStatusCode(value)}
        PROVE  Ends(r, code) = e[code] /\ Verdict(e[code]) /\ e[code].end = code
    BY <1>3, VerdictFacts DEF Verdict
  <2>2. /\ Has(r, key) = n /\ Verdict(n) /\ n.end = Null /\ n.has = r.has \cup {key}
        /\ n.status = r.status /\ n.metadata = r.metadata
    BY <1>3, VerdictFacts DEF Verdict
  <2>3. ASSUME NEW v \in {Null, value}
        PROVE  /\ [r EXCEPT !.negotiated = v] = u[v] /\ Verdict(u[v]) /\ u[v].end = Null
               /\ u[v].has = r.has /\ u[v].status = r.status /\ u[v].metadata = r.metadata
    <3>1. u[v] = [end |-> Null, has |-> r.has, status |-> r.status, metadata |-> r.metadata,
                  negotiated |-> v]
      BY <1>3
    <3> QED BY <3>1, VerdictFacts DEF Verdict
  <2>4. /\ [Has(r, key) EXCEPT !.status = StatusCodes[value + 1]] = s /\ Verdict(s)
        /\ s.end = Null /\ s.has = r.has \cup {key} /\ s.status = StatusCodes[value + 1]
        /\ s.metadata = r.metadata
    BY <1>3, VerdictFacts DEF Verdict
  <2> QED BY <2>1, <2>2, <2>3, <2>4
<1>5. http2StatusToStatusCode(value) # Null
  BY DEF http2StatusToStatusCode, Null
<1>6. CASE key = ":status" /\ phase # "Trailers"
  <2>1. q = HttpStatus(r, header)
    BY <1>1, <1>2, <1>6 DEF Judgement
  <2>2. q = IF value # 200 THEN e[http2StatusToStatusCode(value)] ELSE n
    BY <1>1, <1>4, <2>1 DEF HttpStatus
  <2>3. offence = IF value # 200 THEN http2StatusToStatusCode(value) ELSE Null
    BY <1>1, <1>6 DEF Offence
  <2> QED BY <1>1, <1>2, <1>4, <1>5, <1>6, <2>2, <2>3 DEF JudgedTo
<1>7. CASE key = "content-type" /\ phase # "Trailers"
  <2>1. q = ContentType(r, header)
    BY <1>1, <1>2, <1>7 DEF Judgement
  <2>2. q = IF value \notin {"application/grpc", "Application/grpc+proto"}
            THEN e["Internal"] ELSE n
    BY <1>1, <1>4, <2>1 DEF ContentType
  <2>3. offence = IF value \notin {"application/grpc", "Application/grpc+proto"}
                  THEN "Internal" ELSE Null
    BY <1>1, <1>7 DEF Offence
  <2> QED BY <1>1, <1>2, <1>4, <1>7, <2>2, <2>3 DEF JudgedTo, Null
<1>8. CASE key = "grpc-status" /\ phase # "Initial"
  <2>1. q = GrpcStatus(r, header)
    BY <1>1, <1>2, <1>8 DEF Judgement
  <2>2. q = IF value \notin 0 .. 16 THEN e["Unknown"] ELSE s
    BY <1>1, <1>4, <2>1 DEF GrpcStatus, StatusCodeCount
  <2>3. offence = IF value \notin 0 .. 16 THEN "Unknown" ELSE Null
    BY <1>1, <1>8 DEF Offence
  <2> QED BY <1>1, <1>2, <1>4, <1>8, <2>2, <2>3 DEF JudgedTo, Null
<1>9. CASE key = "grpc-encoding" /\ phase = "Initial"
  <2>1. q = GrpcEncoding(r, header, accepted, usable)
    BY <1>1, <1>2, <1>9 DEF Judgement
  <2>2. q = IF value # Identity /\ value \notin Encodings \cap accepted THEN e["Internal"]
            ELSE IF value = Identity THEN u[Null]
            ELSE IF value \notin usable THEN e["Internal"] ELSE u[value]
    BY <1>1, <1>4, <2>1 DEF GrpcEncoding, isAcceptedEncoding
  <2>3. offence = IF value # Identity /\ value \notin Encodings \cap accepted \cap usable
                  THEN "Internal" ELSE Null
    BY <1>1, <1>9 DEF Offence
  <2>4. CASE value # Identity /\ value \notin Encodings \cap accepted \cap usable
    <3>1. q = e["Internal"] /\ offence = "Internal"
      BY <2>2, <2>3, <2>4
    <3> QED BY <1>1, <1>4, <3>1 DEF JudgedTo, Null
  <2>5. CASE ~(value # Identity /\ value \notin Encodings \cap accepted \cap usable)
    <3>1. offence = Null /\ \E v \in {Null, value} : q = u[v]
      BY <2>2, <2>3, <2>5
    <3>2. key \notin Requires(phase) /\ key # "grpc-status"
      BY <1>2, <1>9
    <3> QED BY <1>1, <1>4, <3>1, <3>2 DEF JudgedTo
  <2> QED BY <2>4, <2>5
<1>10. CASE /\ ~(key \in {":status", "content-type"} /\ phase # "Trailers")
            /\ ~(key = "grpc-status" /\ phase # "Initial")
            /\ ~(key = "grpc-encoding" /\ phase = "Initial")
  <2>1. key \notin Requires(phase)
    BY <1>2, <1>10
  <2>2. q = r
    BY <1>1, <1>10, <2>1 DEF Judgement
  <2>3. offence = Null
    BY <1>1, <1>10 DEF Offence
  <2> QED BY <1>1, <1>10, <2>1, <2>2, <2>3 DEF JudgedTo
<1> QED BY <1>6, <1>7, <1>8, <1>9, <1>10
\* The headers that the user does not see.
Unseen(phase, filter) == IF filter THEN Hidden(phase) ELSE {}

\* One iteration of the loop.
LEMMA LookedFacts ==
    ASSUME NEW r, Verdict(r), NEW phase \in Phases, NEW filter \in BOOLEAN, NEW accepted,
           NEW usable, NEW header, NEW q, q = Looked(phase, filter, accepted, usable, r, header),
           NEW offence, offence = Offence(header, phase, accepted, usable)
    PROVE  /\ Verdict(q)
           /\ r.end # Null => q = r
           /\ r.end = Null /\ offence # Null => q.end = offence
           /\ r.end = Null /\ offence = Null =>
                  /\ q.end = Null
                  /\ q.has = r.has \cup ({header[1]} \cap Requires(phase))
                  /\ q.status = IF header[1] = "grpc-status" /\ phase # "Initial"
                                THEN StatusCodes[header[2] + 1] ELSE r.status
                  /\ q.metadata = IF header[1] \in Unseen(phase, filter) THEN r.metadata
                                  ELSE Inserted(r.metadata, header)
<1>1. PICK j : j = Judgement(phase, accepted, usable, r, header)
  OBVIOUS
<1>2. PICK custom : custom = (/\ header[1] \notin PseudoHeaders \cup GrpcHeaders
                              /\ header[1] \notin Requires(phase))
  OBVIOUS
<1>3. q = IF r.end # Null THEN r
          ELSE IF j.end # Null THEN j
          ELSE IF custom \/ ~filter THEN Shown(j, header) ELSE j
  BY <1>1, <1>2 DEF Looked, Judgement
<1>4. CASE r.end # Null
  BY <1>3, <1>4
<1>5. CASE r.end = Null
  <2>1. JudgedTo(j, r, phase, header, offence)
    BY <1>1, <1>5, JudgementFacts
  <2>2. CASE offence # Null
    <3>1. Verdict(j) /\ j.end = offence
      BY <2>1, <2>2 DEF JudgedTo
    <3> QED BY <1>3, <1>5, <2>2, <3>1
  <2>3. CASE offence = Null
    <3>1. /\ Verdict(j) /\ j.end = Null /\ j.metadata = r.metadata
          /\ j.has = r.has \cup ({header[1]} \cap Requires(phase))
          /\ j.status = IF header[1] = "grpc-status" /\ phase # "Initial"
                        THEN StatusCodes[header[2] + 1] ELSE r.status
      BY <2>1, <2>3 DEF JudgedTo
    <3>2. custom \/ ~filter <=> header[1] \notin Unseen(phase, filter)
      <4>1. header[1] \in Requires(phase) =>
                header[1] \in PseudoHeaders \cup GrpcHeaders \/ header[1] = "content-type"
        BY RequiresFacts DEF PseudoHeaders, GrpcHeaders
      <4>2. header[1] = "content-type" =>
                (header[1] \in Requires(phase) <=> phase # "Trailers")
        BY RequiresFacts
      <4>3. header[1] \in PseudoHeaders \cup GrpcHeaders => header[1] # "content-type"
        BY DEF PseudoHeaders, GrpcHeaders
      <4>4. custom <=> header[1] \notin Hidden(phase)
        BY <1>2, <4>1, <4>2, <4>3 DEF Hidden
      <4> QED BY <4>4 DEF Unseen
    <3>3. CASE custom \/ ~filter
      <4>1. q = Shown(j, header)
        BY <1>3, <1>5, <3>1, <3>3
      <4>2. q = [end |-> j.end, has |-> j.has, status |-> j.status,
                 metadata |-> Inserted(j.metadata, header), negotiated |-> j.negotiated]
        BY <3>1, <4>1 DEF Shown, Verdict
      <4>3. Verdict(q) /\ q.end = j.end /\ q.has = j.has /\ q.status = j.status
            /\ q.metadata = Inserted(j.metadata, header)
        BY <4>2 DEF Verdict
      <4> QED BY <1>5, <2>3, <3>1, <3>2, <3>3, <4>3
    <3>4. CASE ~(custom \/ ~filter)
      <4>1. q = j
        BY <1>3, <1>5, <3>1, <3>4
      <4> QED BY <1>5, <2>3, <3>1, <3>2, <3>4, <4>1
    <3> QED BY <3>3, <3>4
  <2> QED BY <2>2, <2>3
<1> QED BY <1>4, <1>5

\* f holds the results of the first 0 to n iterations.
Loops(f, headers, phase, filter, accepted, usable, n, start) ==
    /\ f = [i \in 0..n |-> f[i]] /\ f[0] = start
    /\ \A i \in 1..n : f[i] = Looked(phase, filter, accepted, usable, f[i - 1], headers[i])

\* There is such a function.
LEMMA LoopExists ==
    ASSUME NEW headers, NEW phase, NEW filter, NEW accepted, NEW usable, NEW start, NEW n \in Nat
    PROVE  \E f : Loops(f, headers, phase, filter, accepted, usable, n, start)
<1> DEFINE Good == {m \in Nat : \E f : Loops(f, headers, phase, filter, accepted, usable, m, start)}
<1>1. 0 \in Good
  <2>1. Loops([i \in 0..0 |-> start], headers, phase, filter, accepted, usable, 0, start)
    BY DEF Loops
  <2> QED BY <2>1
<1>2. ASSUME NEW m \in Nat, m \in Good PROVE m + 1 \in Good
  <2>1. PICK f : Loops(f, headers, phase, filter, accepted, usable, m, start)
    BY <1>2
  <2> DEFINE next == Looked(phase, filter, accepted, usable, f[m], headers[m + 1])
             g == [i \in 0..(m + 1) |-> IF i = m + 1 THEN next ELSE f[i]]
  <2>2. g = [i \in 0..(m + 1) |-> g[i]] /\ g[0] = start
    BY <2>1 DEF Loops
  <2>3. ASSUME NEW i \in 1..(m + 1)
        PROVE  g[i] = Looked(phase, filter, accepted, usable, g[i - 1], headers[i])
    <3>1. CASE i = m + 1
      <4>1. g[i - 1] = f[m] /\ g[i] = next
        BY <3>1
      <4> QED BY <3>1, <4>1
    <3>2. CASE i \in 1..m
      <4>1. g[i - 1] = f[i - 1] /\ g[i] = f[i]
        BY <3>2
      <4> HIDE DEF g
      <4> QED BY <2>1, <3>2, <4>1 DEF Loops
    <3> QED BY <3>1, <3>2
  <2>4. Loops(g, headers, phase, filter, accepted, usable, m + 1, start)
    <3> HIDE DEF g
    <3> QED BY <2>2, <2>3 DEF Loops
  <2> QED BY <2>4
<1> HIDE DEF Good
<1>3. n \in Good
  BY <1>1, <1>2, SetInduction
<1> QED BY <1>3 DEF Good

\* Loop() is it.
LEMMA LoopLoops ==
    ASSUME NEW headers, NEW phase, NEW filter, NEW accepted, NEW usable, NEW negotiated,
           Len(headers) \in Nat
    PROVE  Loops(Loop(headers, phase, filter, accepted, usable, negotiated),
                 headers, phase, filter, accepted, usable, Len(headers), Unjudged(negotiated))
<1>1. PICK f : Loops(f, headers, phase, filter, accepted, usable, Len(headers),
                     Unjudged(negotiated))
  BY LoopExists
<1>2. f = [i \in 0..Len(headers) |->
               IF i = 0 THEN Unjudged(negotiated)
               ELSE Looked(phase, filter, accepted, usable, f[i - 1], headers[i])]
  <2>1. ASSUME NEW i \in 0..Len(headers)
        PROVE  f[i] = IF i = 0 THEN Unjudged(negotiated)
                      ELSE Looked(phase, filter, accepted, usable, f[i - 1], headers[i])
    <3>1. i = 0 \/ i \in 1..Len(headers)
      OBVIOUS
    <3> QED BY <1>1, <3>1 DEF Loops
  <2>2. f = [i \in 0..Len(headers) |-> f[i]]
    BY <1>1 DEF Loops
  <2> QED BY <2>1, <2>2
<1>3. PICK k : k = Loop(headers, phase, filter, accepted, usable, negotiated)
  OBVIOUS
<1>4. k = [i \in 0..Len(headers) |->
               IF i = 0 THEN Unjudged(negotiated)
               ELSE Looked(phase, filter, accepted, usable, k[i - 1], headers[i])]
  BY <1>2, <1>3 DEF Loop
<1>5. k = [i \in 0..Len(headers) |-> k[i]]
  BY <1>4
<1>6. k[0] = Unjudged(negotiated)
  BY <1>4
<1>7. ASSUME NEW i \in 1..Len(headers)
      PROVE  k[i] = Looked(phase, filter, accepted, usable, k[i - 1], headers[i])
  <2>1. i \in 0..Len(headers) /\ i # 0
    OBVIOUS
  <2> QED BY <1>4, <2>1
<1>8. Loops(k, headers, phase, filter, accepted, usable, Len(headers), Unjudged(negotiated))
  BY <1>5, <1>6, <1>7 DEF Loops
<1> QED BY <1>3, <1>8

\* r is what the first m headers amount to: the code of the first that offends,
\* or what they have and show.
Amounts(r, headers, phase, filter, accepted, usable, m) ==
    LET offence(i) == Offence(headers[i], phase, accepted, usable)
    IN  /\ Verdict(r)
        /\ \/ /\ \A i \in 1..m : offence(i) = Null
              /\ r.end = Null
              /\ r.has = {key \in Requires(phase) : \E i \in 1..m : headers[i][1] = key}
              /\ HoldsFirst(r.metadata, headers, Unseen(phase, filter), m)
              /\ phase # "Initial" =>
                     \A i \in 1..m :
                         /\ headers[i][1] = "grpc-status"
                         /\ \A k \in 1..m : headers[k][1] = "grpc-status" => k <= i
                         => r.status = StatusCodes[headers[i][2] + 1]
           \/ \E i \in 1..m : /\ offence(i) # Null /\ r.end = offence(i)
                              /\ \A k \in 1..m : offence(k) # Null => i <= k

\* The next header.
LEMMA AmountsNext ==
    ASSUME NEW headers, Len(headers) \in Nat, NEW phase \in Phases, NEW filter \in BOOLEAN,
           NEW accepted, NEW usable, NEW m \in Nat, m + 1 <= Len(headers), NEW r, NEW q,
           Amounts(r, headers, phase, filter, accepted, usable, m),
           q = Looked(phase, filter, accepted, usable, r, headers[m + 1])
    PROVE  Amounts(q, headers, phase, filter, accepted, usable, m + 1)
<1> DEFINE offence(i) == Offence(headers[i], phase, accepted, usable)
<1>1. PICK h, o, keys : h = headers[m + 1] /\ o = offence(m + 1) /\ keys = Unseen(phase, filter)
  OBVIOUS
<1>2. /\ Verdict(q)
      /\ r.end # Null => q = r
      /\ r.end = Null /\ o # Null => q.end = o
      /\ r.end = Null /\ o = Null =>
             /\ q.end = Null
             /\ q.has = r.has \cup ({h[1]} \cap Requires(phase))
             /\ q.status = IF h[1] = "grpc-status" /\ phase # "Initial"
                           THEN StatusCodes[h[2] + 1] ELSE r.status
             /\ q.metadata = IF h[1] \in keys THEN r.metadata ELSE Inserted(r.metadata, h)
  <2>1. Verdict(r) /\ q = Looked(phase, filter, accepted, usable, r, h)
        /\ o = Offence(h, phase, accepted, usable)
    BY <1>1 DEF Amounts
  <2> QED BY <1>1, <2>1, LookedFacts
<1>3. \A i \in 1..(m + 1) : i \in 1..m \/ i = m + 1
  OBVIOUS
<1>4. CASE \E i \in 1..m : /\ offence(i) # Null /\ r.end = offence(i)
                           /\ \A k \in 1..m : offence(k) # Null => i <= k
  <2>1. PICK i \in 1..m : /\ offence(i) # Null /\ r.end = offence(i)
                          /\ \A k \in 1..m : offence(k) # Null => i <= k
    BY <1>4
  <2>2. q = r /\ i \in 1..(m + 1)
    BY <1>2, <2>1
  <2>3. \A k \in 1..(m + 1) : offence(k) # Null => i <= k
    BY <1>3, <2>1
  <2> QED BY <1>2, <2>1, <2>2, <2>3 DEF Amounts
<1>5. CASE /\ \A i \in 1..m : offence(i) = Null
           /\ r.end = Null
           /\ r.has = {key \in Requires(phase) : \E i \in 1..m : headers[i][1] = key}
           /\ HoldsFirst(r.metadata, headers, keys, m)
           /\ phase # "Initial" =>
                  \A i \in 1..m :
                      /\ headers[i][1] = "grpc-status"
                      /\ \A k \in 1..m : headers[k][1] = "grpc-status" => k <= i
                      => r.status = StatusCodes[headers[i][2] + 1]
  <2>1. CASE o # Null
    <3>1. \A k \in 1..(m + 1) : offence(k) # Null => m + 1 <= k
      BY <1>3, <1>5
    <3> HIDE DEF offence
    <3>2. \E i \in 1..(m + 1) : /\ offence(i) # Null /\ q.end = offence(i)
                                /\ \A k \in 1..(m + 1) : offence(k) # Null => i <= k
      BY <1>1, <1>2, <1>5, <2>1, <3>1
    <3> QED BY <1>2, <3>2 DEF Amounts, offence
  <2>2. CASE o = Null
    <3>1. \A i \in 1..(m + 1) : offence(i) = Null
      <4> HIDE DEF offence
      <4> QED BY <1>1, <1>3, <1>5, <2>2
    <3>2. q.has = {key \in Requires(phase) : \E i \in 1..(m + 1) : headers[i][1] = key}
      <4>1. q.has = r.has \cup ({h[1]} \cap Requires(phase))
        BY <1>2, <1>5, <2>2
      <4>2. m + 1 \in 1..(m + 1) /\ 1..m \subseteq 1..(m + 1)
        OBVIOUS
      <4>3. ASSUME NEW key \in Requires(phase)
            PROVE  (\E i \in 1..(m + 1) : headers[i][1] = key)
                       <=> (\E i \in 1..m : headers[i][1] = key) \/ h[1] = key
        BY <1>1, <1>3, <4>2
      <4> QED BY <1>5, <4>1, <4>3
    <3>3. HoldsFirst(q.metadata, headers, keys, m + 1)
      <4>1. q.metadata = IF headers[m + 1][1] \in keys THEN r.metadata
                         ELSE Inserted(r.metadata, headers[m + 1])
        BY <1>1, <1>2, <1>5, <2>2
      <4> QED BY <1>5, <4>1, HoldsNext
    <3>4. ASSUME phase # "Initial", NEW i \in 1..(m + 1), headers[i][1] = "grpc-status",
                 \A k \in 1..(m + 1) : headers[k][1] = "grpc-status" => k <= i
          PROVE  q.status = StatusCodes[headers[i][2] + 1]
      <4>1. CASE i = m + 1
        BY <1>1, <1>2, <1>5, <2>2, <3>4, <4>1
      <4>2. CASE i \in 1..m
        <5>1. h[1] # "grpc-status"
          BY <1>1, <3>4, <4>2
        <5>2. \A k \in 1..m : headers[k][1] = "grpc-status" => k <= i
          BY <3>4
        <5>3. r.status = StatusCodes[headers[i][2] + 1]
          BY <1>5, <3>4, <4>2, <5>2
        <5> QED BY <1>2, <1>5, <2>2, <5>1, <5>3
      <4> QED BY <1>3, <4>1, <4>2
    <3>5. q.end = Null
      BY <1>2, <1>5, <2>2
    <3> QED BY <1>1, <1>2, <3>1, <3>2, <3>3, <3>4, <3>5 DEF Amounts
  <2> QED BY <2>1, <2>2
<1> QED BY <1>1, <1>4, <1>5 DEF Amounts

\* The whole block.
LEMMA LoopAmounts ==
    ASSUME NEW headers, Len(headers) \in Nat, NEW phase \in Phases, NEW filter \in BOOLEAN,
           NEW accepted, NEW usable, NEW negotiated
    PROVE  Amounts(Loop(headers, phase, filter, accepted, usable, negotiated)[Len(headers)],
                   headers, phase, filter, accepted, usable, Len(headers))
<1>1. PICK k : /\ k = Loop(headers, phase, filter, accepted, usable, negotiated)
               /\ Loops(k, headers, phase, filter, accepted, usable, Len(headers),
                        Unjudged(negotiated))
  BY LoopLoops
<1> DEFINE Good == {m \in Nat : m <= Len(headers) =>
                        Amounts(k[m], headers, phase, filter, accepted, usable, m)}
<1>2. 0 \in Good
  <2>1. PICK r : r = k[0] /\ r = Unjudged(negotiated)
    BY <1>1 DEF Loops
  <2>2. /\ Verdict(r) /\ r.end = Null /\ r.has = {} /\ r.metadata = NoMetadata
    BY <2>1 DEF Unjudged, Verdict
  <2>3. HoldsFirst(NoMetadata, headers, Unseen(phase, filter), 0)
    <3>1. DOMAIN NoMetadata = {} /\ 1..0 = {}
      BY DEF NoMetadata
    <3> QED BY <3>1 DEF HoldsFirst
  <2>4. 1..0 = {}
    OBVIOUS
  <2>5. r.has = {key \in Requires(phase) : \E i \in 1..0 : headers[i][1] = key}
    BY <2>2, <2>4
  <2>6. Amounts(r, headers, phase, filter, accepted, usable, 0)
    BY <2>2, <2>3, <2>4, <2>5 DEF Amounts
  <2> QED BY <2>1, <2>6
<1>3. ASSUME NEW m \in Nat, m \in Good PROVE m + 1 \in Good
  <2> SUFFICES ASSUME m + 1 <= Len(headers)
               PROVE  Amounts(k[m + 1], headers, phase, filter, accepted, usable, m + 1)
    OBVIOUS
  <2>1. Amounts(k[m], headers, phase, filter, accepted, usable, m)
    BY <1>3
  <2>2. m + 1 \in 1..Len(headers) /\ (m + 1) - 1 = m
    OBVIOUS
  <2>3. k[m + 1] = Looked(phase, filter, accepted, usable, k[m], headers[m + 1])
    BY <1>1, <2>2 DEF Loops
  <2> HIDE DEF Good
  <2> QED BY <2>1, <2>3, AmountsNext
<1> HIDE DEF Good
<1>4. Nat \subseteq Good
  BY <1>2, <1>3, SetInduction
<1>5. Amounts(k[Len(headers)], headers, phase, filter, accepted, usable, Len(headers))
  BY <1>4 DEF Good
<1> QED BY <1>1, <1>5
-----------------------------------------------------------------------------
(* The verdict on a block, and the end of an RPC. *)

\* A set of numbers up to n has a greatest one.
LEMMA GreatestExists ==
    ASSUME NEW n \in Nat, NEW T, T \subseteq 1..n, T # {}
    PROVE  \E x \in T : \A y \in T : y <= x
<1> DEFINE R == {n - t : t \in T}
<1>1. R \subseteq Nat /\ R # {}
  <2>1. ASSUME NEW t \in T PROVE n - t \in Nat /\ n - t \in R
    <3>1. t \in 1..n
      OBVIOUS
    <3> QED BY <3>1
  <2> QED BY <2>1
<1>2. PICK z \in R : \A y \in R : z <= y
  <2> HIDE DEF R
  <2> QED BY <1>1, NatMin
<1>3. PICK x \in T : z = n - x
  OBVIOUS
<1>4. ASSUME NEW y \in T PROVE y <= x
  <2>1. n - x <= n - y
    BY <1>2, <1>3
  <2>2. x \in 1..n /\ y \in 1..n
    OBVIOUS
  <2> QED BY <2>1, <2>2
<1> QED BY <1>4

\* The headers that offend, the first and the last of some, a key that is missing.
Offending(headers, phase, accepted, usable) ==
    {i \in 1 .. Len(headers) : Offence(headers[i], phase, accepted, usable) # Null}

First(indices) == CHOOSE i \in indices : \A k \in indices : i <= k

Last(indices) == CHOOSE i \in indices : \A k \in indices : k <= i

Lacking(headers, phase) == \E key \in Requires(phase) : IndicesOf(headers, key) = {}

\* handleHeaders() judges a block as HeadersJudged says.
LEMMA JudgedFacts ==
    ASSUME NEW headers, IsSequence(headers), NEW phase \in Phases, NEW filter \in BOOLEAN,
           NEW accepted, NEW usable, NEW negotiated,
           NEW j, j = Judged(headers, phase, filter, accepted, usable, negotiated)
    PROVE  LET offence(i) == Offence(headers[i], phase, accepted, usable)
               offences == Offending(headers, phase, accepted, usable)
               first == First(offences)
               last == Last(IndicesOf(headers, "grpc-status"))
               missing == Lacking(headers, phase)
           IN  /\ offences # {} => j.end = offence(first) /\ j.end # Null
               /\ offences = {} /\ missing => j.end = "Internal"
               /\ offences = {} /\ ~missing =>
                      /\ j.end = Null
                      /\ HoldsHeaders(j.metadata, headers, Unseen(phase, filter))
                      /\ phase # "Initial" => j.status = StatusCodes[headers[last][2] + 1]
<1> DEFINE offence(i) == Offence(headers[i], phase, accepted, usable)
           offences == Offending(headers, phase, accepted, usable)
           first == First(offences)
           statuses == IndicesOf(headers, "grpc-status")
           last == Last(statuses)
           missing == Lacking(headers, phase)
<1>1. Len(headers) \in Nat /\ DOMAIN headers = 1..Len(headers)
  BY SequenceFacts
<1>2. PICK r : /\ r = Loop(headers, phase, filter, accepted, usable, negotiated)[Len(headers)]
               /\ Amounts(r, headers, phase, filter, accepted, usable, Len(headers))
  BY <1>1, LoopAmounts
<1>3. j = IF r.end = Null /\ ~(Requires(phase) \subseteq r.has) THEN Ends(r, "Internal") ELSE r
  BY <1>2 DEF Judged, Missing
<1>4. Verdict(r)
  BY <1>2 DEF Amounts
<1>5. CASE offences # {}
  <2>1. PICK i \in offences : r.end = offence(i) /\ \A k \in offences : i <= k
    <3>1. PICK i \in 1..Len(headers) :
              /\ offence(i) # Null /\ r.end = offence(i)
              /\ \A k \in 1..Len(headers) : offence(k) # Null => i <= k
      BY <1>2, <1>5 DEF Amounts, Offending
    <3> QED BY <3>1 DEF Offending
  <2>2. first = i
    <3>1. offences \subseteq Nat
      BY <1>1 DEF Offending
    <3> HIDE DEF offences, offence
    <3>2. first \in offences /\ \A k \in offences : first <= k
      BY <2>1 DEF First
    <3>3. first <= i /\ i <= first /\ first \in Nat /\ i \in Nat
      BY <2>1, <3>1, <3>2
    <3> QED BY <3>3
  <2>3. j = r /\ r.end # Null
    <3>1. offence(i) # Null
      BY <2>1 DEF Offending
    <3> QED BY <1>3, <2>1, <3>1
  <2> HIDE DEF first
  <2> QED BY <1>5, <2>1, <2>2, <2>3 DEF first
<1>6. CASE offences = {}
  <2>1. /\ r.end = Null
        /\ r.has = {key \in Requires(phase) : \E i \in 1..Len(headers) : headers[i][1] = key}
        /\ HoldsFirst(r.metadata, headers, Unseen(phase, filter), Len(headers))
        /\ phase # "Initial" =>
               \A i \in 1..Len(headers) :
                   /\ headers[i][1] = "grpc-status"
                   /\ \A k \in 1..Len(headers) : headers[k][1] = "grpc-status" => k <= i
                   => r.status = StatusCodes[headers[i][2] + 1]
    <3>1. \A i \in 1..Len(headers) : offence(i) = Null
      BY <1>6 DEF Offending
    <3> QED BY <1>2, <3>1 DEF Amounts
  <2>2. missing <=> ~(Requires(phase) \subseteq r.has)
    <3>1. ASSUME NEW key PROVE IndicesOf(headers, key) = {} <=>
                                   ~\E i \in 1..Len(headers) : headers[i][1] = key
      BY <1>1 DEF IndicesOf
    <3> QED BY <2>1, <3>1 DEF Lacking
  <2>3. CASE missing
    <3>1. j = Ends(r, "Internal")
      BY <1>3, <2>1, <2>2, <2>3
    <3>2. j.end = "Internal"
      BY <1>4, <3>1 DEF Ends, Verdict
    <3> QED BY <1>6, <2>3, <3>2
  <2>4. CASE ~missing
    <3>1. j = r
      BY <1>3, <2>2, <2>4
    <3>2. ASSUME phase # "Initial" PROVE r.status = StatusCodes[headers[last][2] + 1]
      <4>1. statuses # {}
        <5>1. "grpc-status" \in Requires(phase)
          BY <3>2, RequiresFacts
        <5> QED BY <2>4, <5>1 DEF Lacking
      <4>2. statuses \subseteq 1..Len(headers)
        BY <1>1 DEF IndicesOf
      <4>3. last \in statuses /\ \A k \in statuses : k <= last
        <5> HIDE DEF statuses
        <5>1. \E i \in statuses : \A k \in statuses : k <= i
          BY <1>1, <4>1, <4>2, GreatestExists
        <5> QED BY <5>1 DEF Last
      <4>4. \A k : k \in statuses <=> k \in 1..Len(headers) /\ headers[k][1] = "grpc-status"
        BY <1>1 DEF IndicesOf
      <4> HIDE DEF last, statuses
      <4> QED BY <2>1, <3>2, <4>3, <4>4
    <3>3. HoldsHeaders(j.metadata, headers, Unseen(phase, filter))
      BY <2>1, <3>1, HoldsAll
    <3> QED BY <1>6, <2>1, <2>4, <3>1, <3>2, <3>3
  <2> QED BY <2>3, <2>4
<1> QED BY <1>5, <1>6

\* The RPC r has taken notice of the block b.
Heeded(b, r) ==
    LET offence(i) == Offence(b.headers[i], b.phase, r.asked.accepted, b.usable)
        offences == Offending(b.headers, b.phase, r.asked.accepted, b.usable)
        first == First(offences)
        last == Last(IndicesOf(b.headers, "grpc-status"))
        missing == Lacking(b.headers, b.phase)
        seen == IF b.phase = "Initial" THEN r.initial ELSE r.trailing
    IN  /\ offences # {} => r.code = offence(first) /\ seen = Unset
        /\ offences = {} /\ missing => r.code = "Internal" /\ seen = Unset
        /\ offences = {} /\ ~missing =>
               /\ \E hash \in seen :
                      HoldsHeaders(hash, b.headers, Unseen(b.phase, r.filter))
               /\ b.phase = "Initial" => r.code = Null
               /\ b.phase # "Initial" => r.code = StatusCodes[b.headers[last][2] + 1]

\* An RPC that is running has not ended, and goes by the channel's options.
Running == {"Idle", "RequestHeadersSent", "Active"}

RunningInv == rpc.state \in Running => /\ rpc.code = Null /\ rpc.trailing = Unset
                                       /\ rpc.asked = channel.options
                                       /\ rpc.state # "Active" => rpc.initial = Unset

BlockInv == block # NoBlock => rpc # NoRpc /\ block.phase \in Phases /\ Heeded(block, rpc)

JudgedInv == RequestInv /\ RunningInv /\ BlockInv

\* What is not about the headers leaves the verdict alone.
LEMMA StillHeeded ==
    ASSUME BlockInv, rpc # NoRpc, SameRequest(rpc', rpc), block' = block, rpc'.code = rpc.code,
           rpc'.initial = rpc.initial, rpc'.trailing = rpc.trailing
    PROVE  BlockInv'
<1>1. PICK r, q, b : /\ r = rpc /\ q = rpc' /\ b = block /\ b = block'
                     /\ q.asked = r.asked /\ q.filter = r.filter /\ q.code = r.code
                     /\ q.initial = r.initial /\ q.trailing = r.trailing /\ q # NoRpc
  BY DEF SameRequest, Shape, NoRpc
<1>2. Heeded(b, r) => Heeded(b, q)
  BY <1>1 DEF Heeded
<1> QED BY <1>1, <1>2 DEF BlockInv

\* handleHeaders() makes its RPC heed the block.
LEMMA HeadersHeeded ==
    ASSUME JudgedInv, NEW headers \in Blocks, NEW endStream \in BOOLEAN, NEW usable,
           HeadersReceived(headers, endStream, usable)
    PROVE  RunningInv' /\ BlockInv'
<1>1. PICK phase, j, r, q, b :
          /\ phase = Phase(rpc.state, endStream)
          /\ j = Judged(headers, phase, rpc.filter, channel.options.accepted, usable,
                        rpc.negotiated)
          /\ r = rpc /\ q = rpc' /\ b = block'
  OBVIOUS
<1>2. /\ r # NoRpc /\ Shape(r) /\ r.state \in {"RequestHeadersSent", "Active"}
      /\ phase # "Invalid" /\ SameRequest(q, r)
      /\ j.end # Null => /\ q.state = "Finished" /\ q.code = j.end
                         /\ q.initial = r.initial /\ q.trailing = r.trailing
      /\ j.end = Null /\ phase = "Initial" =>
             /\ q.state = "Active" /\ q.code = r.code
             /\ q.initial = {j.metadata} /\ q.trailing = r.trailing
      /\ j.end = Null /\ phase # "Initial" =>
             /\ q.state = "Finished" /\ q.code = j.status
             /\ q.initial = r.initial /\ q.trailing = {j.metadata}
      /\ b = [phase |-> phase, headers |-> headers, usable |-> usable]
      /\ channel' = channel
  BY <1>1, HeadersReceivedFacts DEF JudgedInv
<1>3. /\ r.code = Null /\ r.trailing = Unset /\ r.asked = channel.options
      /\ r.state # "Active" => r.initial = Unset
  BY <1>1, <1>2 DEF JudgedInv, RunningInv, Running
<1>4. phase \in Phases /\ (phase = "Initial" => r.state = "RequestHeadersSent")
  <2>1. phase = Phase(r.state, endStream)
    BY <1>1
  <2> QED BY <1>2, <2>1 DEF Phase, Phases
<1>5. RunningInv'
  <2>1. q.state \in Running => j.end = Null /\ phase = "Initial"
    BY <1>2 DEF Running
  <2>2. q.asked = r.asked
    BY <1>2 DEF SameRequest
  <2> QED BY <1>1, <1>2, <1>3, <2>1, <2>2 DEF RunningInv
<1>6. PICK filter, accepted : /\ filter = r.filter /\ accepted = r.asked.accepted
                              /\ q.filter = filter /\ q.asked.accepted = accepted
  BY <1>2 DEF SameRequest
<1> DEFINE offence(i) == Offence(headers[i], phase, accepted, usable)
           offences == Offending(headers, phase, accepted, usable)
           first == First(offences)
           statuses == IndicesOf(headers, "grpc-status")
           last == Last(statuses)
           missing == Lacking(headers, phase)
           seen == IF phase = "Initial" THEN q.initial ELSE q.trailing
<1>7. /\ offences # {} => j.end = offence(first) /\ j.end # Null
      /\ offences = {} /\ missing => j.end = "Internal"
      /\ offences = {} /\ ~missing =>
             /\ j.end = Null
             /\ HoldsHeaders(j.metadata, headers, Unseen(phase, filter))
             /\ phase # "Initial" => j.status = StatusCodes[headers[last][2] + 1]
  <2>1. filter \in BOOLEAN /\ IsSequence(headers)
    BY <1>2, <1>6, ExchangeAssumption DEF Shape
  <2>2. j = Judged(headers, phase, filter, accepted, usable, r.negotiated)
    BY <1>1, <1>3, <1>6
  <2> QED BY <1>4, <2>1, <2>2, JudgedFacts
<1>8. /\ offences # {} => q.code = offence(first) /\ seen = Unset
      /\ offences = {} /\ missing => q.code = "Internal" /\ seen = Unset
      /\ offences = {} /\ ~missing =>
             /\ \E hash \in seen : HoldsHeaders(hash, headers, Unseen(phase, filter))
             /\ phase = "Initial" => q.code = Null
             /\ phase # "Initial" => q.code = StatusCodes[headers[last][2] + 1]
  <2>1. phase = "Initial" => r.initial = Unset
    BY <1>3, <1>4
  <2>2. j.end # Null => q.code = j.end /\ seen = Unset
    BY <1>2, <1>3, <2>1
  <2>3. "Internal" # Null
    BY DEF Null
  <2>4. j.end = Null => seen = {j.metadata}
    BY <1>2
  <2> HIDE DEF offences, first, last, missing, offence
  <2> QED BY <1>2, <1>3, <1>7, <2>2, <2>3, <2>4
<1>9. b.phase = phase /\ b.headers = headers /\ b.usable = usable
  BY <1>2
<1>10. Heeded(b, q)
  <2> HIDE DEF seen
  <2> QED BY <1>6, <1>8, <1>9 DEF Heeded, seen
<1>11. q # NoRpc
  BY <1>2 DEF SameRequest, Shape, NoRpc
<1>12. BlockInv'
  BY <1>1, <1>4, <1>9, <1>10, <1>11 DEF BlockInv
<1> QED BY <1>5, <1>12
\* The invariant holds as long as the options of a running RPC stay.
LEMMA JudgedInvariant == ASSUME ~ChangeInFlight PROVE Spec => []JudgedInv
<1>1. Init => RunningInv /\ BlockInv
  BY DEF Init, RunningInv, BlockInv, NoRpc, Running
<1>2. RequestInv /\ RequestInv' /\ RunningInv /\ BlockInv /\ [Next]_vars
          => RunningInv' /\ BlockInv'
  <2> SUFFICES ASSUME RequestInv, RequestInv', RunningInv, BlockInv, [Next]_vars
               PROVE  RunningInv' /\ BlockInv'
    OBVIOUS
  <2>1. CASE UNCHANGED vars
    BY <2>1 DEF vars, RunningInv, BlockInv
  <2>2. ASSUME NEW o \in ChannelOptions, SetChannelOptions(o) PROVE RunningInv' /\ BlockInv'
    <3>1. rpc.state \notin Running /\ rpc' = rpc /\ block' = block
      BY <2>2 DEF SetChannelOptions, InFlight, Running
    <3> QED BY <3>1 DEF RunningInv, BlockInv
  <2>3. ASSUME NEW call \in CallOptions, Construct(call) PROVE RunningInv' /\ BlockInv'
    <3>1. /\ rpc'.state = "Idle" /\ rpc'.code = Null /\ rpc'.initial = Unset
          /\ rpc'.trailing = Unset /\ rpc'.asked = channel'.options
      BY <2>3, ConstructFacts
    <3>2. block' = NoBlock
      BY <2>3 DEF Construct
    <3> QED BY <3>1, <3>2 DEF RunningInv, BlockInv
  <2>4. CASE SendInitialRequest
    <3>1. /\ rpc.state = "Idle" /\ channel' = channel /\ block' = block
          /\ rpc' = [rpc EXCEPT !.state = "RequestHeadersSent"]
      BY <2>4 DEF SendInitialRequest
    <3>2. rpc # NoRpc /\ Shape(rpc)
      BY <3>1, SomeRpc
    <3>3. PICK r, q : r = rpc /\ q = rpc' /\ q = WithState(r, "RequestHeadersSent")
      BY <3>1 DEF WithState
    <3>4. /\ SameRequest(q, r) /\ q.state = "RequestHeadersSent" /\ q.code = r.code
          /\ q.initial = r.initial /\ q.trailing = r.trailing
      BY <3>2, <3>3, WithStateFacts
    <3>5. BlockInv'
      BY <3>1, <3>2, <3>3, <3>4, StillHeeded
    <3>6. RunningInv'
      BY <3>1, <3>3, <3>4 DEF RunningInv, Running, SameRequest
    <3> QED BY <3>5, <3>6
  <2>5. ASSUME NEW headers \in Blocks, NEW endStream \in BOOLEAN, NEW usable,
               HeadersReceived(headers, endStream, usable)
        PROVE  RunningInv' /\ BlockInv'
    BY <2>5, HeadersHeeded DEF JudgedInv
  <2>6. CASE UnexpectedHeaders
    BY <2>6 DEF UnexpectedHeaders, vars, RunningInv, BlockInv
  <2>7. ASSUME NEW error, ErrorOccurred(error) PROVE RunningInv' /\ BlockInv'
    <3>1. /\ rpc.state \in {"RequestHeadersSent", "Active"} /\ block' = NoBlock
          /\ rpc' = Finish(rpc, http2ErrorToStatusCode(error))
      BY <2>7 DEF ErrorOccurred
    <3>2. rpc # NoRpc /\ Shape(rpc)
      BY <3>1, SomeRpc
    <3>3. PICK r, q : r = rpc /\ q = rpc' /\ q = Finish(r, http2ErrorToStatusCode(error))
      BY <3>1
    <3>4. q.state = "Finished"
      BY <3>2, <3>3, FinishFacts
    <3> QED BY <3>1, <3>3, <3>4 DEF RunningInv, Running, BlockInv
  <2>8. ASSUME NEW size \in Sizes, WriteMessage(size) PROVE RunningInv' /\ BlockInv'
    <3>1. /\ rpc # NoRpc /\ InFlight /\ SameRequest(rpc', rpc) /\ channel' = channel
          /\ \/ rpc'.state = "Finished" /\ block' = NoBlock
             \/ /\ rpc'.state = rpc.state /\ rpc'.code = rpc.code
                /\ rpc'.initial = rpc.initial /\ rpc'.trailing = rpc.trailing
                /\ block' = block
      BY <2>8, WriteMessageFacts
    <3>2. CASE rpc'.state = "Finished" /\ block' = NoBlock
      BY <3>2 DEF RunningInv, Running, BlockInv
    <3>3. CASE /\ rpc'.state = rpc.state /\ rpc'.code = rpc.code
               /\ rpc'.initial = rpc.initial /\ rpc'.trailing = rpc.trailing
               /\ block' = block
      <4>1. BlockInv'
        BY <3>1, <3>3, StillHeeded
      <4>2. RunningInv'
        BY <3>1, <3>3 DEF RunningInv, SameRequest
      <4> QED BY <4>1, <4>2
    <3> QED BY <3>1, <3>2, <3>3
  <2> QED BY <2>1, <2>2, <2>3, <2>4, <2>5, <2>6, <2>7, <2>8 DEF Next
<1> QED BY <1>1, <1>2, RequestInvariant, PTL DEF Spec, JudgedInv

\* An RPC ends with what the server's last block stands for: the code of its first
\* offending header, Internal if one is missing, its last grpc-status otherwise; and
\* the user sees the metadata of a block that was accepted, each value of a repeated
\* key, the newest first, and nothing of a block that was rejected.
THEOREM EndsWithWhatTheServerSaid == ASSUME ~ChangeInFlight PROVE Spec => []HeadersJudged
<1>1. BlockInv => HeadersJudged
  <2> SUFFICES ASSUME BlockInv, block # NoBlock PROVE HeadersJudged
    BY DEF HeadersJudged
  <2>1. block.phase \in Phases /\ Heeded(block, rpc)
    BY DEF BlockInv
  <2>2. Requires(block.phase) = CASE block.phase = "Initial" -> {":status", "content-type"}
                                  [] block.phase = "Trailers" -> {"grpc-status"}
                                  [] OTHER -> {":status", "content-type", "grpc-status"}
    BY <2>1 DEF Requires, Phases
  <2> DEFINE offences == {i \in 1 .. Len(block.headers) :
                              Offence(block.headers[i], block.phase, rpc.asked.accepted,
                                      block.usable) # Null}
             first == CHOOSE i \in offences : \A k \in offences : i <= k
             statuses == IndicesOf(block.headers, "grpc-status")
             last == CHOOSE i \in statuses : \A k \in statuses : k <= i
             missing == \E key \in Requires(block.phase) : IndicesOf(block.headers, key) = {}
             seen == IF block.phase = "Initial" THEN rpc.initial ELSE rpc.trailing
             hidden == IF rpc.filter THEN Hidden(block.phase) ELSE {}
  <2>3. /\ offences # {} =>
               /\ rpc.code = Offence(block.headers[first], block.phase, rpc.asked.accepted,
                                     block.usable)
               /\ seen = Unset
        /\ offences = {} /\ missing => rpc.code = "Internal" /\ seen = Unset
        /\ offences = {} /\ ~missing =>
               /\ \E hash \in seen : HoldsHeaders(hash, block.headers, hidden)
               /\ block.phase = "Initial" => rpc.code = Null
               /\ block.phase # "Initial" =>
                      rpc.code = StatusCodes[block.headers[last][2] + 1]
    BY <2>1 DEF Heeded, Offending, First, Last, Lacking, Unseen
  <2> QED BY <2>2, <2>3 DEF HeadersJudged
<1> QED BY <1>1, JudgedInvariant, PTL DEF JudgedInv
=============================================================================
