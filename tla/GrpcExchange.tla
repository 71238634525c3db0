---------------------------- MODULE GrpcExchange ----------------------------
(***************************************************************************)
(* What an RPC and the server tell each other besides the messages: the    *)
(* header block of the request, the header blocks of the response and the  *)
(* compression of the outgoing messages.  QGrpcHttp2ChannelPrivate keeps   *)
(* the channel's options and a cached grpc-accept-encoding value; one      *)
(* Http2Handler after another is created on it, each with the options that *)
(* it resolved in its constructor.                                         *)
(*                                                                         *)
(* A header is a pair <<key, value>>; the values are small sets.  The      *)
(* metadata of a response is a QMultiHash: a function from the keys to     *)
(* their values, the newest first; the order of the keys is unspecified.   *)
(* zlib and QDecompressHelper are external: every call may fail.  The order in      *)
(* which the blocks and the messages of an RPC arrive, its cancellation    *)
(* and its destruction are the subject of Http2Channel.                    *)
(***************************************************************************)
EXTENDS Integers, Sequences

CONSTANTS ChannelOptions,     \* the option objects the user gives the channel
          CallOptions,        \* the option objects the user starts an RPC with
          Blocks,             \* the header blocks a server may send
          Sizes,              \* the sizes of the messages the user writes
          GrpcMaxPayloadSize, \* the largest payload of a gRPC frame
          ChangeInFlight      \* setChannelOptions() while an RPC is running

(* Header blocks and a request's metadata are sequences (the metadata in   *)
(* the order in which its hash is iterated); a message has some size.      *)
IsSequence(s) == s \in Seq({s[i] : i \in DOMAIN s})

ASSUME ExchangeAssumption ==
    /\ \A b \in Blocks : IsSequence(b)
    /\ \A o \in ChannelOptions \cup CallOptions :
          IsSequence(o.metadata) /\ o.filter \subseteq BOOLEAN
    /\ Sizes \subseteq Nat

Null == "null"                \* no status code, no error, a null QByteArray
Unset == {}                   \* std::nullopt; an optional with a value is a singleton
Identity == "identity"
Encodings == {"deflate", "gzip"}
CompressionMinPayloadBytes == 30

StatusCodes == <<"Ok", "Cancelled", "Unknown", "InvalidArgument", "DeadlineExceeded",
                 "NotFound", "AlreadyExists", "PermissionDenied", "ResourceExhausted",
                 "FailedPrecondition", "Aborted", "OutOfRange", "Unimplemented",
                 "Internal", "Unavailable", "DataLoss", "Unauthenticated">>
StatusCodeCount == 16

VARIABLES channel,    \* options and the cached accept-encoding of the channel
          rpc,        \* the Http2Handler and the metadata of its context
          sent,       \* the message the handler has queued last, if any
          block       \* history: the last header block that was handled

vars == <<channel, rpc, sent, block>>
-----------------------------------------------------------------------------
(* The options. *)

(* setAcceptedCompressionAlgorithms(): masked by what the build supports,  *)
(* Identity always in.                                                     *)
Accepted(algorithms, supported) == (algorithms \cap supported) \cup {Identity}

ValueOr(optional, default) == IF optional = Unset THEN default ELSE CHOOSE v \in optional : TRUE

(* The option of the call, else the one of the channel, else the default.  *)
constructFilterServerMetadata(call, chan) ==
    ValueOr(call.filter, ValueOr(chan.filter, TRUE))

constructRequestEncoding(call, chan) ==
    ValueOr(call.request, ValueOr(chan.request, Identity))

constructAcceptEncoding(flags) ==
    <<Identity>> \o (IF "deflate" \in flags THEN <<"deflate">> ELSE <<>>)
                 \o (IF "gzip" \in flags THEN <<"gzip">> ELSE <<>>)

(* acceptEncoding() computes the header value anew when there is none or   *)
(* when the flags have changed since, and returns the cached one otherwise.*)
SlipAcceptEncoding(chan) ==
    IF chan.cached = <<>>
    THEN [chan EXCEPT !.cached = constructAcceptEncoding(chan.options.accepted),
                      !.cachedFor = chan.options.accepted]
    ELSE chan

AcceptEncoding(chan) ==
    IF chan.cached = <<>> \/ chan.options.accepted # chan.cachedFor
    THEN [chan EXCEPT !.cached = constructAcceptEncoding(chan.options.accepted),
                      !.cachedFor = chan.options.accepted]
    ELSE chan
-----------------------------------------------------------------------------
(* The request's header block. *)

Lower(key) == CASE key = "GRPC-Encoding" -> "grpc-encoding"
                [] key = "Trace" -> "trace"
                [] OTHER -> key

PseudoHeaders == {":status", ":path", ":authority", ":method", ":scheme"}
GrpcHeaders == {"grpc-status", "grpc-message", "grpc-status-details-bin", "grpc-encoding",
                "grpc-accept-encoding", "grpc-timeout"}
Reserved == PseudoHeaders \cup GrpcHeaders
                          \cup {"qtgrpc-x", "content-type", "te", "user-agent"}

(* The headers whose key is none of these, in their order: of every prefix *)
(* of the block, and of the whole block.                                   *)
Kept(headers, keys) ==
    LET kept[i \in 0 .. Len(headers)] ==
            IF i = 0 THEN <<>>
            ELSE IF headers[i][1] \in keys THEN kept[i - 1]
            ELSE Append(kept[i - 1], headers[i])
    IN  kept

Without(headers, keys) == Kept(headers, keys)[Len(headers)]

FilteredMetadata(metadata) ==
    Without([i \in 1 .. Len(metadata) |-> <<Lower(metadata[i][1]), metadata[i][2]>>],
            Reserved)

constructInitialHeaders(chan, call, encoding) ==
    <<<<":authority", "host">>, <<":method", "POST">>, <<":path", "/service/method">>,
      <<":scheme", "http">>, <<"content-type", "application/grpc">>,
      <<"service-name", "service">>, <<"grpc-accept-encoding", chan.cached>>,
      <<"user-agent", "qtgrpc">>, <<"te", "trailers">>>>
      \o (IF encoding # Identity THEN <<<<"grpc-encoding", encoding>>>> ELSE <<>>)
      \o FilteredMetadata(chan.options.metadata)
      \o FilteredMetadata(call.metadata)

IndicesOf(headers, key) == {i \in DOMAIN headers : headers[i][1] = key}
-----------------------------------------------------------------------------
(* Errors of the transport as status codes. *)

http2ErrorToStatusCode(error) ==
    CASE error = "REFUSE_STREAM" -> "Unavailable"
      [] error = "CANCEL" -> "Cancelled"
      [] error = "ENHANCE_YOUR_CALM" -> "ResourceExhausted"
      [] error = "INADEQUATE_SECURITY" -> "PermissionDenied"
      [] error = "HTTP_1_1_REQUIRED" -> "Unknown"
      [] OTHER -> "Internal"

Http2Errors == {"PROTOCOL_ERROR", "REFUSE_STREAM", "CANCEL", "ENHANCE_YOUR_CALM",
                "INADEQUATE_SECURITY", "HTTP_1_1_REQUIRED"}

http2StatusToStatusCode(status) ==
    CASE status = 200 -> "Ok"
      [] status = 400 -> "Internal"
      [] status = 401 -> "Unauthenticated"
      [] status = 403 -> "PermissionDenied"
      [] status = 404 -> "Unimplemented"
      [] status \in {429, 502, 503, 504} -> "Unavailable"
      [] OTHER -> "Unknown"
-----------------------------------------------------------------------------
(* A header block of the response.  handleHeaders() looks at one header    *)
(* after another; the first that is wrong finishes the RPC.                *)

Phase(state, endStream) ==
    CASE state = "RequestHeadersSent" /\ endStream -> "TrailersOnly"
      [] state = "RequestHeadersSent" /\ ~endStream -> "Initial"
      [] state = "Active" /\ endStream -> "Trailers"
      [] OTHER -> "Invalid"

isAcceptedEncoding(value, accepted) == value = Identity \/ value \in Encodings \cap accepted

Requires(phase) == (IF phase = "Trailers" THEN {} ELSE {":status", "content-type"})
                   \cup (IF phase = "Initial" THEN {} ELSE {"grpc-status"})

Ends(r, code) == [r EXCEPT !.end = code]
Has(r, key) == [r EXCEPT !.has = @ \cup {key}]

(* QMultiHash::insert(): a value of a key goes before the older ones.      *)
SlipInserted(hash, header) ==
    [key \in DOMAIN hash \cup {header[1]} |->
         IF key # header[1] THEN hash[key] ELSE <<header[2]>>]

Inserted(hash, header) ==
    [key \in DOMAIN hash \cup {header[1]} |->
         IF key # header[1] THEN hash[key]
         ELSE <<header[2]>> \o (IF key \in DOMAIN hash THEN hash[key] ELSE <<>>)]

NoMetadata == [key \in {} |-> <<>>]

Shown(r, header) == [r EXCEPT !.metadata = Inserted(@, header)]

HttpStatus(r, header) ==
    IF header[2] # 200 THEN Ends(r, http2StatusToStatusCode(header[2]))
    ELSE Has(r, header[1])

ContentType(r, header) ==
    IF header[2] \notin {"application/grpc", "Application/grpc+proto"}
    THEN Ends(r, "Internal")
    ELSE Has(r, header[1])

GrpcStatus(r, header) ==
    IF header[2] \notin 0 .. StatusCodeCount THEN Ends(r, "Unknown")
    ELSE [Has(r, header[1]) EXCEPT !.status = StatusCodes[header[2] + 1]]

(* grpc-encoding: judged by the options the channel has now; setEncoding() *)
(* of the decompressor may fail.                                           *)
GrpcEncoding(r, header, accepted, usable) ==
    IF ~isAcceptedEncoding(header[2], accepted) THEN Ends(r, "Internal")
    ELSE IF header[2] = Identity THEN [r EXCEPT !.negotiated = Null]
    ELSE IF header[2] \notin usable THEN Ends(r, "Internal")
    ELSE [r EXCEPT !.negotiated = header[2]]

(* One iteration of the loop over the headers. *)
Looked(phase, filter, accepted, usable, r, header) ==
    LET key == header[1]
        required == key \in Requires(phase)
        judged == CASE required /\ key = ":status" -> HttpStatus(r, header)
                    [] required /\ key = "content-type" -> ContentType(r, header)
                    [] required /\ key = "grpc-status" -> GrpcStatus(r, header)
                    [] phase = "Initial" /\ key = "grpc-encoding" ->
                           GrpcEncoding(r, header, accepted, usable)
                    [] OTHER -> r
        custom == key \notin PseudoHeaders \cup GrpcHeaders /\ ~required
    IN  IF r.end # Null THEN r
        ELSE IF judged.end # Null THEN judged
        ELSE IF custom \/ ~filter THEN Shown(judged, header) ELSE judged

SlipMissing(phase, r) ==
    IF r.end = Null /\ ~(Requires(phase) \ {"content-type"} \subseteq r.has)
    THEN Ends(r, "Internal") ELSE r

(* After the loop: a required header that did not come. *)
Missing(phase, r) ==
    IF r.end = Null /\ ~(Requires(phase) \subseteq r.has) THEN Ends(r, "Internal") ELSE r

Unjudged(negotiated) ==
    [end |-> Null, has |-> {}, status |-> Null, metadata |-> NoMetadata, negotiated |-> negotiated]

Loop(headers, phase, filter, accepted, usable, negotiated) ==
    LET after[i \in 0 .. Len(headers)] ==
            IF i = 0 THEN Unjudged(negotiated)
            ELSE Looked(phase, filter, accepted, usable, after[i - 1], headers[i])
    IN  after

Judged(headers, phase, filter, accepted, usable, negotiated) ==
    Missing(phase,
            Loop(headers, phase, filter, accepted, usable, negotiated)[Len(headers)])
-----------------------------------------------------------------------------
(* The actions. *)

NoRpc == [state |-> "None"]
NoBlock == [phase |-> "Invalid"]

Init == /\ \E o \in ChannelOptions :
              channel = [options |-> o, cached |-> <<>>, cachedFor |-> {}]
        /\ rpc = NoRpc
        /\ sent = Unset
        /\ block = NoBlock

InFlight == rpc.state \in {"Idle", "RequestHeadersSent", "Active"}

(* QAbstractGrpcChannel::setChannelOptions().                              *)
SetChannelOptions(o) ==
    /\ ~InFlight \/ ChangeInFlight
    /\ o # channel.options
    /\ channel' = [channel EXCEPT !.options = o]
    /\ UNCHANGED <<rpc, sent, block>>

(* The handler's constructor: the options are resolved and the request's   *)
(* header block is built.                                                  *)
Construct(call) ==
    /\ ~InFlight
    /\ channel' = AcceptEncoding(channel)
    /\ LET encoding == constructRequestEncoding(call, channel.options)
       IN  rpc' = [state |-> "Idle",
                   filter |-> constructFilterServerMetadata(call, channel.options),
                   encoding |-> encoding,
                   headers |-> constructInitialHeaders(channel', call, encoding),
                   asked |-> channel.options,
                   compressor |-> Unset,
                   negotiated |-> Null,
                   code |-> Null, initial |-> Unset, trailing |-> Unset]
    /\ sent' = Unset
    /\ block' = NoBlock

(* attachStream() and sendInitialRequest(): the header block is sent.      *)
SendInitialRequest ==
    /\ rpc.state = "Idle"
    /\ rpc' = [rpc EXCEPT !.state = "RequestHeadersSent"]
    /\ UNCHANGED <<channel, sent, block>>

Finish(r, code) == [r EXCEPT !.state = "Finished", !.code = code]

(* headersReceived() of the stream, and handleHeaders().                   *)
HeadersReceived(headers, endStream, usable) ==
    LET phase == Phase(rpc.state, endStream)
        j == Judged(headers, phase, rpc.filter, channel.options.accepted, usable,
                    rpc.negotiated)
        active == [rpc EXCEPT !.state = "Active", !.negotiated = j.negotiated]
    IN  /\ rpc.state \in {"RequestHeadersSent", "Active"}
        /\ phase # "Invalid"
        /\ rpc' = CASE j.end # Null -> Finish(active, j.end)
                    [] j.end = Null /\ phase = "Initial" ->
                           [active EXCEPT !.initial = {j.metadata}]
                    [] OTHER -> Finish([active EXCEPT !.trailing = {j.metadata}], j.status)
        /\ block' = [phase |-> phase, headers |-> headers, usable |-> usable]
        /\ UNCHANGED <<channel, sent>>

(* A block in a phase in which none is expected is only logged.            *)
UnexpectedHeaders ==
    /\ rpc.state = "Active"
    /\ Phase(rpc.state, FALSE) = "Invalid"
    /\ UNCHANGED vars

(* errorOccurred() of the stream. *)
ErrorOccurred(error) ==
    /\ rpc.state \in {"RequestHeadersSent", "Active"}
    /\ rpc' = Finish(rpc, http2ErrorToStatusCode(error))
    /\ block' = NoBlock
    /\ UNCHANGED <<channel, sent>>
-----------------------------------------------------------------------------
(* Writing a message.  z is what zlib does: deflateInit2() and             *)
(* deflateReset() succeed or not, deflate() ends with an output of so many *)
(* bytes, does not fit, or fails.                                          *)

ZlibOutcomes(size) ==
    [init : BOOLEAN, reset : BOOLEAN, deflate : {"end", "full", "error"},
     out : {size - 1, size}]

(* GrpcCompressionHelper: the zstream is fresh after deflateInit2() and    *)
(* after deflateReset(), and used once deflate() has run.                  *)
Create(z) == IF z.init THEN {[needsReset |-> FALSE, fresh |-> TRUE]} ELSE Unset

SlipDeflate(c, z) ==
    [helper |-> [needsReset |-> z.deflate = "end", fresh |-> FALSE],
     error |-> CASE z.deflate = "end" -> Null
                 [] z.deflate = "full" -> "Skipped"
                 [] OTHER -> "Broken",
     decodable |-> c.fresh]

Deflate(c, z) ==
    [helper |-> [needsReset |-> TRUE, fresh |-> FALSE],
     error |-> CASE z.deflate = "end" -> Null
                 [] z.deflate = "full" -> "Skipped"
                 [] OTHER -> "Broken",
     decodable |-> c.fresh]

tryCompressMessage(c, z) ==
    IF c.needsReset /\ ~z.reset
    THEN [helper |-> c, error |-> "Broken", decodable |-> FALSE]
    ELSE Deflate(IF c.needsReset THEN [needsReset |-> FALSE, fresh |-> TRUE] ELSE c, z)

(* What writeMessage() puts in front of the payload, and the compressor it *)
(* keeps: a broken one is discarded.                                       *)
Framed(size, compressor, encoding, z) ==
    LET helper == IF compressor = Unset THEN Create(z) ELSE compressor
        try == tryCompressMessage(CHOOSE c \in helper : TRUE, z)
        raw == [flag |-> 0, payload |-> size, size |-> size, decodable |-> TRUE]
    IN  IF encoding = Identity \/ size < CompressionMinPayloadBytes
        THEN [message |-> raw, compressor |-> compressor]
        ELSE IF helper = Unset THEN [message |-> raw, compressor |-> Unset]
        ELSE IF try.error = Null
        THEN [message |-> [raw EXCEPT !.flag = 1, !.payload = z.out,
                                      !.decodable = try.decodable],
              compressor |-> {try.helper}]
        ELSE [message |-> raw,
              compressor |-> IF try.error = "Broken" THEN Unset ELSE {try.helper}]

WriteMessage(size) ==
    /\ InFlight
    /\ IF size > GrpcMaxPayloadSize
       THEN rpc' = Finish(rpc, "ResourceExhausted") /\ block' = NoBlock /\ UNCHANGED sent
       ELSE \E z \in ZlibOutcomes(size) :
                LET f == Framed(size, rpc.compressor, rpc.encoding, z)
                IN  /\ rpc' = [rpc EXCEPT !.compressor = f.compressor]
                    /\ sent' = {f.message}
                    /\ UNCHANGED block
    /\ UNCHANGED channel

Next ==
    \/ \E o \in ChannelOptions : SetChannelOptions(o)
    \/ \E call \in CallOptions : Construct(call)
    \/ SendInitialRequest
    \/ \E headers \in Blocks, endStream \in BOOLEAN, usable \in {{}, Encodings} :
           /\ IndicesOf(headers, "grpc-encoding") = {} => usable = Encodings
           /\ HeadersReceived(headers, endStream, usable)
    \/ UnexpectedHeaders
    \/ \E error \in Http2Errors : ErrorOccurred(error)
    \/ \E size \in Sizes : WriteMessage(size)

Spec == Init /\ [][Next]_vars
-----------------------------------------------------------------------------
(* The properties. *)

(* The code that a header finishes the RPC with on its own, if it does.    *)
Offence(header, phase, accepted, usable) ==
    LET key == header[1]
        value == header[2]
    IN  CASE key = ":status" /\ phase # "Trailers" /\ value # 200 ->
                 http2StatusToStatusCode(value)
          [] key = "content-type" /\ phase # "Trailers"
                 /\ value \notin {"application/grpc", "Application/grpc+proto"} -> "Internal"
          [] key = "grpc-status" /\ phase # "Initial" /\ value \notin 0 .. 16 -> "Unknown"
          [] key = "grpc-encoding" /\ phase = "Initial" /\ value # Identity
                 /\ value \notin Encodings \cap accepted \cap usable -> "Internal"
          [] OTHER -> Null

(* The headers of the protocol, which the user sees only when unfiltered.  *)
Hidden(phase) == PseudoHeaders \cup GrpcHeaders
                 \cup (IF phase = "Trailers" THEN {} ELSE {"content-type"})

(* The values of a key in the headers, the last of them first.             *)
NewestFirst(values, headers, key) ==
    \E at \in [1 .. Len(values) -> IndicesOf(headers, key)] :
        /\ \A i \in DOMAIN at : values[i] = headers[at[i]][2]
        /\ \A i, k \in DOMAIN at : i < k => at[i] > at[k]
        /\ \A n \in IndicesOf(headers, key) : \E i \in DOMAIN at : at[i] = n

(* The hash has every header whose key is not hidden, and nothing else.    *)
HoldsHeaders(hash, headers, hidden) ==
    /\ DOMAIN hash = {headers[i][1] : i \in DOMAIN headers} \ hidden
    /\ \A key \in DOMAIN hash : NewestFirst(hash[key], headers, key)

(* An RPC ends with what the server's last block says:                     *)
(* the block that handleHeaders() saw last ends the RPC with the code of   *)
(* its first offending header, with Internal if a required header is       *)
(* missing, with the last grpc-status otherwise; and the metadata the user *)
(* sees has every header of the block, each value of a repeated key, the   *)
(* newest first, without the protocol's own headers when these are         *)
(* filtered, and nothing of a block that was rejected.                     *)
HeadersJudged ==
    block # NoBlock =>
        LET offence(i) == Offence(block.headers[i], block.phase, rpc.asked.accepted,
                                  block.usable)
            offences == {i \in 1 .. Len(block.headers) : offence(i) # Null}
            first == CHOOSE i \in offences : \A k \in offences : i <= k
            statuses == IndicesOf(block.headers, "grpc-status")
            last == CHOOSE i \in statuses : \A k \in statuses : k <= i
            needed == CASE block.phase = "Initial" -> {":status", "content-type"}
                        [] block.phase = "Trailers" -> {"grpc-status"}
                        [] OTHER -> {":status", "content-type", "grpc-status"}
            hidden == IF rpc.filter THEN Hidden(block.phase) ELSE {}
            seen == IF block.phase = "Initial" THEN rpc.initial ELSE rpc.trailing
        IN  CASE offences # {} -> rpc.code = offence(first) /\ seen = Unset
              [] offences = {} /\ \E key \in needed : IndicesOf(block.headers, key) = {} ->
                     rpc.code = "Internal" /\ seen = Unset
              [] OTHER ->
                     /\ \E hash \in seen : HoldsHeaders(hash, block.headers, hidden)
                     /\ block.phase = "Initial" => rpc.code = Null
                     /\ block.phase # "Initial" =>
                            rpc.code = StatusCodes[block.headers[last][2] + 1]

(* What an RPC announces is what it does: every RPC advertises exactly     *)
(* what the options accepted when it was started, however often they have  *)
(* changed since the cached value was computed; it names the encoding it   *)
(* compresses with and no other; and no metadata of the user, whatever its *)
(* case, stands beside a header of the transport.                          *)
EncodingAgreed ==
    rpc # NoRpc =>
        LET values(key) == {rpc.headers[i][2] : i \in IndicesOf(rpc.headers, key)}
        IN  /\ values("grpc-accept-encoding") = {constructAcceptEncoding(rpc.asked.accepted)}
            /\ values("grpc-encoding") = {rpc.encoding} \ {Identity}
            /\ \A key \in Reserved : \A i, k \in IndicesOf(rpc.headers, key) : i = k

(* The server can decode every message, whatever zlib did on the ones      *)
(* before it: a message that is flagged as compressed is one complete      *)
(* stream of its own, no longer than the message and in an encoding that   *)
(* the request announced; every other message is sent as it is.            *)
CompressedDecodable ==
    \A msg \in sent :
        IF msg.flag = 1
        THEN /\ msg.decodable
             /\ msg.payload <= msg.size
             /\ msg.size >= CompressionMinPayloadBytes
             /\ IndicesOf(rpc.headers, "grpc-encoding") # {}
        ELSE msg.payload = msg.size
=============================================================================
