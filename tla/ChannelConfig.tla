---------------------------- MODULE ChannelConfig ----------------------------
(***************************************************************************)
(* The options of a channel and what the channel makes of them.            *)
(*                                                                         *)
(* QGrpcChannelOptions and QGrpcCallOptions are values that share their    *)
(* data: an object is a pointer to a payload, copies point to the same one *)
(* and every setter detaches first.  The payload keeps the metadata twice, *)
(* with all values of a key and, for the deprecated interface, with one.   *)
(* A channel takes a copy; its constructor fixes the transport, the        *)
(* content-type, the backoff and the limits, from the options, the         *)
(* environment and the defaults; setChannelOptions() replaces the copy.    *)
(*                                                                         *)
(* The byte limits of the code are constants here, in their order.         *)
(***************************************************************************)
EXTENDS Integers, Sequences, SequencesExt, FiniteSets

CONSTANTS Fields,           \* field |-> the values the user sets it to
          Multis, Hashes,   \* the metadata the user sets
          Pairs,            \* the entries the user adds to the metadata
          CallReceiveSizes, \* the limits a call may ask for
          Uris,             \* the host URIs: [scheme, port], port -1 is none
          Environments,     \* the values of the QT_GRPC_* variables
          MinimumStreamWindow, DefaultStreamWindow, DefaultSessionWindow,
          MaxWindow,        \* Http2::maxSessionReceiveWindowSize
          MinimumMetadataSize, DefaultMetadataSize, MetadataCap,
          DefaultReceiveSize, GrpcMaxPayloadSize,
          DefaultInitialBackoff, DefaultMaximumBackoff, DefaultConnectTimeout,
          MaxEdits,         \* bound: edits of option objects
          MaxFailures       \* bound: failed connection attempts in a row

ASSUME LimitsAssumption ==
    /\ 0 < MinimumStreamWindow /\ MinimumStreamWindow <= DefaultSessionWindow
    /\ DefaultSessionWindow <= DefaultStreamWindow /\ DefaultStreamWindow <= MaxWindow
    /\ MinimumMetadataSize <= DefaultMetadataSize /\ DefaultMetadataSize <= MetadataCap
    /\ DefaultReceiveSize <= GrpcMaxPayloadSize
    /\ 0 <= DefaultInitialBackoff /\ DefaultInitialBackoff <= DefaultMaximumBackoff
    /\ {MinimumStreamWindow, DefaultStreamWindow, DefaultSessionWindow, MaxWindow,
        MinimumMetadataSize, DefaultMetadataSize, MetadataCap, DefaultReceiveSize,
        GrpcMaxPayloadSize, DefaultInitialBackoff, DefaultMaximumBackoff,
        DefaultConnectTimeout} \subseteq Nat

VARIABLES d,         \* object |-> the payload its d_ptr points to
          payload,   \* the payloads
          moved,     \* objects whose metadata has been moved out
          value,     \* history: the value each object has by its own calls
          channel,   \* what the channel's constructor has computed, if any
          edits

vars == <<d, payload, moved, value, channel, edits>>

Unset == {}          \* std::nullopt; an optional with a value is a singleton
ValueOr(optional, default) == IF optional = Unset THEN default ELSE CHOOSE v \in optional : TRUE

Mine == "mine"       \* channel options of the user, the options of a call
Other == "other"     \* and the channel's own copy
Calls == "call"
Channels == "channel"
Objects == {Mine, Other, Calls, Channels}
-----------------------------------------------------------------------------
(* Payloads.  The values of a key in a QMultiHash are newest first.        *)

Empty == [format |-> "", ssl |-> FALSE, initial |-> Unset, maximum |-> Unset,
          connectTimeout |-> Unset, metadataSize |-> Unset, receive |-> Unset,
          filter |-> Unset, deadline |-> Unset,
          multi |-> <<>>, hash |-> {}]

IsFirst(multi, i) == \A k \in 1 .. i - 1 : multi[k][1] # multi[i][1]
toHash(multi) == {multi[i] : i \in {k \in DOMAIN multi : IsFirst(multi, k)}}

(* The setters of QGrpcChannelOptions, by the conversion they apply.       *)
clampNonNegative(ms) == IF ms < 0 THEN 0 ELSE ms
RaisedToMinimum(size) == IF size < MinimumMetadataSize THEN MinimumMetadataSize ELSE size

Durations == {"initial", "maximum", "connectTimeout"}
Plain == {"format", "ssl"}

(* A QHash has one value for each key. *)
ASSUME InputAssumption ==
    /\ DOMAIN Fields \subseteq DOMAIN Empty \ {"multi", "hash"}
    /\ \A field \in DOMAIN Fields \cap (Durations \cup {"metadataSize", "receive"}) :
          Fields[field] \subseteq Int
    /\ "ssl" \in DOMAIN Fields => Fields.ssl \subseteq BOOLEAN
    /\ \A multi \in Multis : multi \in Seq(ToSet(multi))
    /\ \A hash \in Hashes : IsFiniteSet(hash) /\ \A e, f \in hash : e[1] = f[1] => e = f
    /\ \A size \in CallReceiveSizes : size \subseteq Int
    /\ \A uri \in Uris : uri.port \in Int
    /\ \A env \in Environments :
          \A name \in {"initial", "maximum", "stream", "connection", "metadata", "receive",
                       "connectTimeout"} : env[name] \subseteq Int

AssignedDuration(p, field, ms) == [p EXCEPT ![field] = {clampNonNegative(ms)}]
AssignedMetadataSize(p, size) == [p EXCEPT !.metadataSize = {RaisedToMinimum(size)}]
AssignedCommon(p, field, v) == [p EXCEPT ![field] = {v}]
AssignedPlain(p, field, v) == [p EXCEPT ![field] = v]

Assigned(p, field, v) ==
    CASE field \in Durations -> AssignedDuration(p, field, v)
      [] field = "metadataSize" -> AssignedMetadataSize(p, v)
      [] field \in Plain -> AssignedPlain(p, field, v)
      [] OTHER -> AssignedCommon(p, field, v)

(* setMetadata() of both kinds returns early when its own view is equal.   *)
WithMulti(p, multi) ==
    IF ToSet(p.multi) = ToSet(multi) THEN p
    ELSE [p EXCEPT !.multi = multi, !.hash = toHash(multi)]

WithHash(p, hash) ==
    IF p.hash = hash THEN p
    ELSE [p EXCEPT !.hash = hash, !.multi = SetToSeq(hash)]

WithPair(p, pair) ==
    IF pair \in ToSet(p.multi) THEN p
    ELSE [p EXCEPT !.multi = <<pair>> \o @,
                   !.hash = {e \in @ : e[1] # pair[1]} \cup {pair}]
-----------------------------------------------------------------------------
(* Objects. *)

(* The store: who points where, the payloads, and the value each object    *)
(* has by its own calls.                                                   *)
Store == [d |-> d, payload |-> payload, value |-> value]
Becomes(s) == d' = s.d /\ payload' = s.payload /\ value' = s.value

Ref(s, id) == Cardinality({o \in Objects : s.d[o] = id})
Free(s) == CHOOSE id \in DOMAIN s.payload : Ref(s, id) = 0

(* An edit of object o to the payload q: nothing if it is the same, in     *)
(* place if the payload is not shared, in a copy otherwise.                *)
Edit(s, o, q) ==
    IF q = s.payload[s.d[o]] THEN s
    ELSE IF Ref(s, s.d[o]) = 1 THEN [s EXCEPT !.payload[s.d[o]] = q]
    ELSE [s EXCEPT !.d[o] = Free(s), !.payload[Free(s)] = q]

Edited(s, o, Changed(_)) ==
    [Edit(s, o, Changed(s.payload[s.d[o]])) EXCEPT !.value[o] = Changed(@)]

Assign(s, from, to) == [s EXCEPT !.d[to] = s.d[from], !.value[to] = s.value[from]]

Counted == edits < MaxEdits /\ edits' = edits + 1

Set(o, Changed(_)) ==
    /\ Counted
    /\ o \notin moved
    /\ Becomes(Edited(Store, o, Changed))
    /\ UNCHANGED <<moved, channel>>

SetField(o, field, v) == Set(o, LAMBDA p : Assigned(p, field, v))
SetMulti(o, multi) == Set(o, LAMBDA p : WithMulti(p, multi))
SetHash(o, hash) == Set(o, LAMBDA p : WithHash(p, hash))
AddMetadata(o, pair) == Set(o, LAMBDA p : WithPair(p, pair))

(* metadata() on an rvalue: the metadata is moved out unless the payload   *)
(* is shared, in which case it is copied.                                  *)
SlipTake(o, p) ==
    /\ payload' = [payload EXCEPT ![d[o]] = p]
    /\ moved' = moved \cup {o}

Take(o, p) ==
    IF Ref(Store, d[o]) # 1 THEN UNCHANGED <<payload, moved>>
    ELSE payload' = [payload EXCEPT ![d[o]] = p] /\ moved' = moved \cup {o}

TakeMetadata(o) ==
    /\ Counted
    /\ o \notin moved
    /\ \/ Take(o, [payload[d[o]] EXCEPT !.multi = <<>>])
       \/ Take(o, [payload[d[o]] EXCEPT !.hash = {}])
    /\ UNCHANGED <<d, value, channel>>

Copy(from, to) ==
    /\ Counted
    /\ from # to /\ from \notin moved
    /\ Becomes(Assign(Store, from, to))
    /\ moved' = moved \ {to}
    /\ UNCHANGED channel
-----------------------------------------------------------------------------
(* The environment and the limits. *)

readEnvUnsignedInt(v) == {n \in v : n >= 0}

resolveMs(option, env, default) == ValueOr(option, ValueOr(env, default))

clampToRange(n, floor, cap) == IF n > cap THEN cap ELSE IF n < floor THEN floor ELSE n

constructReconnectBackoff(p, env) ==
    LET initial == resolveMs(p.initial, readEnvUnsignedInt(env.initial), DefaultInitialBackoff)
        maximum == resolveMs(p.maximum, readEnvUnsignedInt(env.maximum), DefaultMaximumBackoff)
    IN  [initial |-> IF initial > maximum THEN maximum ELSE initial, maximum |-> maximum]

SlipReceiveWindowSizes(env) ==
    LET resolveWindow(v, default, floor) ==
            clampToRange(ValueOr(readEnvUnsignedInt(v), default), floor, MaxWindow)
        stream == resolveWindow(env.stream, DefaultStreamWindow, MinimumStreamWindow)
        default == clampToRange(stream * 4, DefaultSessionWindow, MaxWindow)
    IN  [stream |-> stream,
         connection |-> resolveWindow(env.connection, default, DefaultSessionWindow)]

constructReceiveWindowSizes(env) ==
    LET resolveWindow(v, default, floor) ==
            clampToRange(ValueOr(readEnvUnsignedInt(v), default), floor, MaxWindow)
        stream == resolveWindow(env.stream, DefaultStreamWindow, MinimumStreamWindow)
        default == clampToRange(stream * 4, DefaultSessionWindow, MaxWindow)
        connection == resolveWindow(env.connection, default, DefaultSessionWindow)
    IN  [stream |-> IF connection < stream THEN connection ELSE stream,
         connection |-> connection]

(* createHttp2Configuration(): the metadata limit is advertised as         *)
(* SETTINGS_MAX_HEADER_LIST_SIZE.                                          *)
MaxHeaderListSize(p, env) ==
    clampToRange(ValueOr(p.metadataSize,
                         ValueOr(readEnvUnsignedInt(env.metadata), DefaultMetadataSize)),
                 MinimumMetadataSize, MetadataCap)

constructMaximumReceiveSize(call, chan, env) ==
    clampToRange(ValueOr(call, ValueOr(chan, ValueOr(readEnvUnsignedInt(env.receive),
                                                     DefaultReceiveSize))),
                 0, GrpcMaxPayloadSize)
-----------------------------------------------------------------------------
(* The transport. *)

constructSocketType(uri, ssl) ==
    IF uri.scheme = "unix" THEN "Local"
    ELSE IF uri.scheme = "unix-abstract" THEN "LocalAbstract"
    ELSE IF uri.scheme = "https" \/ ssl THEN "Tls"
    ELSE "Tcp"

DefaultPort(uri, port) == IF uri.port < 0 THEN port ELSE uri.port

sanitizeHostUri(uri, ssl) ==
    IF uri.scheme \in {"unix", "unix-abstract"} THEN uri
    ELSE IF uri.scheme = "https" \/ ssl
    THEN [scheme |-> "https", port |-> DefaultPort(uri, 443)]
    ELSE [scheme |-> "http", port |-> DefaultPort(uri, 80)]

(* The port as part of :authority; none if it is the scheme's own.         *)
constructAuthorityHeader(hostUri, socketType) ==
    IF \/ socketType = "Tcp" /\ hostUri.port # 80
       \/ socketType = "Tls" /\ hostUri.port # 443
    THEN {hostUri.port} ELSE {}

constructSchemeHeader(socketType) == IF socketType = "Tls" THEN "https" ELSE "http"
-----------------------------------------------------------------------------
(* The content-type. *)

FormatOf(contentType) == CASE contentType = "application/grpc+json" -> "json"
                           [] contentType = "application/grpc+proto" -> "proto"
                           [] OTHER -> ""

(* setupContentTypeNegotiation(): with the default format, the format is   *)
(* taken from the newest content-type of the metadata, and the channel's   *)
(* options are changed to it.  The result is the suffix.                   *)
Negotiated(p) ==
    LET found == {i \in DOMAIN p.multi : p.multi[i][1] = "content-type"}
        newest == CHOOSE i \in found : \A k \in found : i <= k
    IN  IF p.format = "" /\ found # {} /\ p.multi[newest][2] # "application/grpc"
        THEN [p EXCEPT !.format = FormatOf(p.multi[newest][2])]
        ELSE p
-----------------------------------------------------------------------------
(* The channel. *)

NoChannel == [exists |-> FALSE]
NoRpc == [receive |-> 0, contentType |-> "", format |-> ""]

Init == /\ d = [o \in Objects |-> CASE o = Mine -> 1 [] o = Other -> 2 [] o = Calls -> 3 [] OTHER -> 4]
        /\ payload = [id \in 1 .. 4 |-> Empty]
        /\ moved = {}
        /\ value = [o \in Objects |-> Empty]
        /\ channel = NoChannel
        /\ edits = 0

Constructed(uri, env, p, q) ==
    LET type == constructSocketType(uri, p.ssl)
        host == sanitizeHostUri(uri, p.ssl)
        backoff == constructReconnectBackoff(p, env)
    IN  [exists |-> TRUE, ssl |-> p.ssl,
         socketType |-> type, hostUri |-> host,
         authority |-> constructAuthorityHeader(host, type),
         scheme |-> constructSchemeHeader(type),
         contentType |-> q.format,
         initial |-> backoff.initial, maximum |-> backoff.maximum,
         current |-> backoff.initial, delay |-> 0, failures |-> 0,
         windows |-> constructReceiveWindowSizes(env),
         headerList |-> MaxHeaderListSize(q, env),
         connectTimeout |-> resolveMs(p.connectTimeout,
                                      readEnvUnsignedInt(env.connectTimeout),
                                      DefaultConnectTimeout),
         env |-> env, rpc |-> NoRpc]

(* The constructor of QGrpcHttp2ChannelPrivate, with a copy of the options *)
(* it is given, which the negotiation of the content-type may change.      *)
CreateChannel(from, uri, env) ==
    LET s == Assign(Store, from, Channels)
    IN  /\ ~channel.exists
        /\ from \notin moved
        /\ Becomes(Edited(s, Channels, Negotiated))
        /\ channel' = Constructed(uri, env, payload[d[from]], Negotiated(payload[d[from]]))
        /\ UNCHANGED <<moved, edits>>

(* ReconnectBackoff::nextDelay(): ceil(1.6 x), capped; the delay is the    *)
(* value before, with a jitter of up to a fifth, here its extremes.        *)
Grown(x) == (8 * x + 4) \div 5

Jittered(x) == {(x * 8) \div 10, (x * 12) \div 10}

NextDelay ==
    /\ channel.exists
    /\ channel.failures < MaxFailures
    /\ \E delay \in Jittered(channel.current) :
           channel' = [channel EXCEPT
               !.current = IF Grown(@) >= channel.maximum THEN channel.maximum ELSE Grown(@),
               !.delay = delay,
               !.failures = @ + 1]
    /\ UNCHANGED <<d, payload, moved, value, edits>>

(* The SETTINGS frame of the server resets the backoff. *)
SettingsReceived ==
    /\ channel.exists
    /\ channel' = [channel EXCEPT !.current = channel.initial, !.failures = 0]
    /\ UNCHANGED <<d, payload, moved, value, edits>>

(* QAbstractGrpcChannel::setChannelOptions(). *)
SetChannelOptions(o) == channel.exists /\ Copy(o, Channels)

(* An RPC is started: its limit is the one of the call, of the channel, of *)
(* the environment or the default; its message is serialized with the      *)
(* format of the options, its content-type is the channel's.               *)
StartRpc(call) ==
    /\ channel.exists
    /\ channel' = [channel EXCEPT !.rpc =
           [receive |-> constructMaximumReceiveSize(call, payload[d[Channels]].receive,
                                                    channel.env),
            contentType |-> channel.contentType,
            format |-> payload[d[Channels]].format]]
    /\ UNCHANGED <<d, payload, moved, value, edits>>

Next ==
    \/ \E o \in {Mine, Other} :
          \/ \E field \in DOMAIN Fields : \E v \in Fields[field] : SetField(o, field, v)
          \/ \E multi \in Multis : SetMulti(o, multi)
          \/ \E hash \in Hashes : SetHash(o, hash)
          \/ \E pair \in Pairs : AddMetadata(o, pair)
          \/ TakeMetadata(o)
          \/ SetChannelOptions(o)
    \/ Copy(Mine, Other)
    \/ Copy(Other, Mine)
    \/ \E uri \in Uris, env \in Environments : CreateChannel(Mine, uri, env)
    \/ \E call \in CallReceiveSizes : StartRpc(call)
    \/ NextDelay
    \/ SettingsReceived

Spec == Init /\ [][Next]_vars
-----------------------------------------------------------------------------
(* The properties. *)

(* Option objects are values: whatever is copied, edited or moved out of,  *)
(* an object has the value that its own calls gave it, a channel keeps the *)
(* options it was given, and the two views of the metadata agree: the      *)
(* deprecated one has the newest value of every key.                       *)
OptionsAreValues ==
    \A o \in Objects \ moved :
        /\ payload[d[o]] = value[o]
        /\ payload[d[o]].hash = toHash(payload[d[o]].multi)

(* The backoff of channel c starts at the initial delay after every        *)
(* success and grows with every failure until it is at the maximum, which  *)
(* it never exceeds; one of zero stays off; the jitter is at most a fifth. *)
BackoffGrows(c) ==
    /\ c.initial <= c.maximum
    /\ c.current <= c.maximum
    /\ IF c.initial = 0 THEN c.current = 0
       ELSE c.current = c.maximum \/ c.current >= c.initial + c.failures
    /\ c.failures = 0 => c.current = c.initial
    /\ 10 * c.delay <= 12 * c.maximum

(* Channel c works: its windows are admissible and a stream's fits into    *)
(* the connection's, the limits are within what the transport can          *)
(* represent, there is a port, and the URI it reports selects the same     *)
(* transport again, with the same options and without any.                 *)
Works(c) ==
    /\ MinimumStreamWindow <= c.windows.stream /\ c.windows.stream <= c.windows.connection
    /\ DefaultSessionWindow <= c.windows.connection /\ c.windows.connection <= MaxWindow
    /\ c.headerList \in MinimumMetadataSize .. MetadataCap
    /\ c.rpc.receive \in 0 .. GrpcMaxPayloadSize
    /\ c.connectTimeout >= 0
    /\ c.socketType \in {"Tcp", "Tls"} => c.hostUri.port >= 0
    /\ \A ssl \in {FALSE, c.ssl} :
           /\ constructSocketType(c.hostUri, ssl) = c.socketType
           /\ sanitizeHostUri(c.hostUri, ssl) = c.hostUri

(* Whatever the options and the environment say, the channel works, and    *)
(* reconnecting slows down as it should.                                   *)
ConfigAdmissible == channel.exists => Works(channel) /\ BackoffGrows(channel)
=============================================================================
