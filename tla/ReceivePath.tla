---------------------------- MODULE ReceivePath ----------------------------
(***************************************************************************)
(* The incoming side of one Http2Handler: dataReceived(), GrpcDataParser   *)
(* and the decompressor.  HTTP/2 cuts the byte stream of the peer into     *)
(* DATA frames wherever it likes, so a frame may hold several messages, a  *)
(* part of one, or nothing.  Bytes are positions in that stream: the       *)
(* parser's buffer holds those after parsed and up to fed.                 *)
(***************************************************************************)
EXTENDS Naturals, Sequences

CONSTANTS
    HeaderSize,      \* GrpcMessageSizeHeaderSize: flag and length
    MaxReceiveSize,  \* the limit on a payload, as sent and as inflated
    Messages,        \* the messages a peer may send
    Garbage,         \* lengths read from bytes that are not a header
    MaxSent,         \* bound: messages sent
    LateFrames       \* may DATA reach the handler when it is Finished?

ASSUME ReceiveAssumption ==
    /\ HeaderSize \in Nat \ {0} /\ MaxReceiveSize \in Nat /\ MaxSent \in Nat
    /\ Messages \subseteq [size : Nat, compressed : BOOLEAN, inflated : Nat,
                           corrupt : BOOLEAN]
    /\ Garbage \subseteq Nat
    /\ LateFrames \in BOOLEAN

VARIABLES
    sent,       \* history: the messages of the peer
    ends,       \* history: where each of them ends in the byte stream
    fed,        \* bytes given to GrpcDataParser::feed()
    parsed,     \* bytes removed from its container
    decoder,    \* m_decompressor: none, ready for a message, or amid one
    state,      \* m_state
    parsing,    \* dataReceived() is on the stack
    endStream,  \* and was called with END_STREAM
    status,     \* the status of finished, or "None"; RESOURCE_EXHAUSTED has two texts
    delivered   \* history: messageReceived, 0 for what is not a message

peer    == <<sent, ends>>
parser  == <<fed, parsed, decoder>>
vars == <<peer, parser, state, parsing, endStream, status, delivered>>

StreamEnd(k) == IF k = 0 THEN 0 ELSE ends[k]

TypeOK ==
    /\ sent \in Seq(Messages)
    /\ ends \in Seq(Nat) /\ Len(ends) = Len(sent)
    /\ fed \in 0..StreamEnd(Len(sent))
    /\ parsed \in 0..fed
    /\ decoder \in {"None", "Ready", "Used"}
    /\ state \in {"Active", "Cancelled", "Finished"}
    /\ parsing \in BOOLEAN /\ endStream \in BOOLEAN
    /\ status \in {"None", "Ok", "Trailers", "Cancelled", "DataLoss", "Internal",
                   "DeclaredTooLarge", "InflatedTooLarge"}
    /\ delivered \in Seq(0..Len(sent))

\* The initial HEADERS have been accepted, with an encoding or without.
Init ==
    /\ sent = <<>> /\ ends = <<>>
    /\ fed = 0 /\ parsed = 0
    /\ decoder \in {"None", "Ready"}
    /\ state = "Active"
    /\ parsing = FALSE /\ endStream = FALSE
    /\ status = "None"
    /\ delivered = <<>>

-----------------------------------------------------------------------------
\* finish(): only the first one counts; Cancelled is not overwritten.
Finish(s) ==
    /\ status' = IF status = "None" THEN s ELSE status
    /\ state' = IF state = "Cancelled" THEN state ELSE "Finished"

\* The peer sends another message, until it ends the stream.
PeerSends(m) ==
    /\ ~endStream
    /\ Len(sent) < MaxSent
    /\ sent' = Append(sent, m)
    /\ ends' = Append(ends, StreamEnd(Len(sent)) + HeaderSize + m.size)
    /\ UNCHANGED <<parser, state, parsing, endStream, status, delivered>>

\* A DATA frame with the next bytes; END_STREAM may come amid a message.
DataReceived(to, end) ==
    /\ ~parsing /\ ~endStream
    /\ state # "Cancelled"
    /\ LateFrames \/ state # "Finished"
    /\ to \in fed..StreamEnd(Len(sent))
    /\ fed' = to
    /\ endStream' = end
    /\ parsing' = TRUE
    /\ UNCHANGED <<peer, parsed, decoder, state, status, delivered>>

\* HEADERS with END_STREAM end the RPC with the status they carry; nobody asks
\* whether the container is empty.
Trailers ==
    /\ ~parsing /\ ~endStream
    /\ state = "Active"
    /\ Finish("Trailers")
    /\ endStream' = TRUE
    /\ UNCHANGED <<peer, parser, parsing, delivered>>

\* cancel(), also from a slot of messageReceived amid the loop.
Cancel ==
    /\ state = "Active"
    /\ state' = "Cancelled"
    /\ status' = "Cancelled"
    /\ UNCHANGED <<peer, parser, parsing, endStream, delivered>>

-----------------------------------------------------------------------------
(* One turn of the loop: parseNextFrame() and what is done with its result. *)

\* The message whose first byte is the first one of the container, 0 if none.
FirstMessage ==
    IF \E k \in 1..Len(sent) : StreamEnd(k - 1) = parsed
    THEN CHOOSE k \in 1..Len(sent) : StreamEnd(k - 1) = parsed
    ELSE 0

\* The length read behind the flag.
MessageLength == IF FirstMessage = 0 THEN Garbage ELSE {sent[FirstMessage].size}

\* Slip: waits for a byte more than the frame has.
SlipStrictlyComplete(length) == fed - parsed > HeaderSize + length

Complete(length) == fed - parsed >= HeaderSize + length

Oversize(length) == length > MaxReceiveSize

\* Slip: leaves the header in the container.
SlipFrameSize(length) == length

FrameSize(length) == HeaderSize + length

HasHeader == fed - parsed >= HeaderSize

RejectOversize(length) ==
    /\ HasHeader /\ Oversize(length)
    /\ parsed' = fed
    /\ Finish("DeclaredTooLarge")
    /\ parsing' = FALSE
    /\ UNCHANGED <<decoder, delivered>>

InflatedTooMuch(m) == m.inflated > MaxReceiveSize

Deliver(m) == delivered' = Append(delivered, m)

\* Slip: the decompressor is not made ready for the next message.
SlipDecoderReset == decoder' = "Used"

DecoderReset == decoder' = "Ready"

\* A compressed message k without an encoding, undecodable, too large, or fine.
Inflate(k) ==
    \/ /\ decoder = "None"
       /\ Finish("Internal")
       /\ parsing' = FALSE
       /\ UNCHANGED <<decoder, delivered>>
    \/ /\ decoder # "None"
       /\ sent[k].corrupt \/ decoder = "Used"
       /\ ~InflatedTooMuch(sent[k])
       /\ Finish("Internal")
       /\ parsing' = FALSE
       /\ decoder' = "Used"
       /\ UNCHANGED delivered
    \/ /\ decoder # "None"
       /\ InflatedTooMuch(sent[k])
       /\ Finish("InflatedTooLarge")
       /\ parsing' = FALSE
       /\ decoder' = "Used"
       /\ UNCHANGED delivered
    \/ /\ decoder = "Ready"
       /\ ~sent[k].corrupt /\ ~InflatedTooMuch(sent[k])
       /\ Deliver(k)
       /\ DecoderReset
       /\ UNCHANGED <<state, status, parsing>>

TakeMessage(length) ==
    /\ HasHeader /\ ~Oversize(length) /\ Complete(length)
    /\ parsed' = parsed + FrameSize(length)
    /\ \/ /\ FirstMessage # 0 /\ sent[FirstMessage].compressed
          /\ Inflate(FirstMessage)
       \/ /\ FirstMessage = 0 \/ ~sent[FirstMessage].compressed
          /\ Deliver(FirstMessage)
          /\ UNCHANGED <<decoder, state, status, parsing>>

BytesAvailable == fed - parsed

\* NeedMoreData ends the loop; at END_STREAM nothing may be left over.
NeedMoreData(length) ==
    /\ ~HasHeader \/ (~Oversize(length) /\ ~Complete(length))
    /\ parsing' = FALSE
    /\ \/ /\ ~endStream
          /\ UNCHANGED <<state, status>>
       \/ /\ endStream
          /\ Finish(IF BytesAvailable > 0 THEN "DataLoss" ELSE "Ok")
    /\ UNCHANGED <<parsed, decoder, delivered>>

ParseStep ==
    /\ parsing
    /\ \E length \in MessageLength :
         \/ RejectOversize(length)
         \/ TakeMessage(length)
         \/ NeedMoreData(length)
    /\ UNCHANGED <<peer, fed, endStream>>

-----------------------------------------------------------------------------
Next ==
    \/ \E m \in Messages : PeerSends(m)
    \/ \E to \in fed..StreamEnd(Len(sent)), end \in BOOLEAN : DataReceived(to, end)
    \/ Trailers
    \/ ParseStep
    \/ Cancel

Spec == Init /\ [][Next]_vars

-----------------------------------------------------------------------------
(* Properties.                                                             *)

\* messageReceived is emitted for the messages of the peer, all of them and in
\* their order, wherever the DATA frames cut the stream.
DeliveredInOrder == \A k \in 1..Len(delivered) : delivered[k] = k

\* Between two DATA frames nothing that is complete waits in the container.
NothingWithheld ==
    (state = "Active" /\ ~parsing) =>
        \A k \in 1..Len(sent) : ends[k] <= fed => k <= Len(delivered)

\* No payload beyond the limit reaches the user, inflated ones included.
WithinLimit ==
    \A k \in 1..Len(delivered) : delivered[k] # 0 =>
        LET m == sent[delivered[k]]
        IN  (IF m.compressed THEN m.inflated ELSE m.size) <= MaxReceiveSize

\* END_STREAM in a DATA frame: an end with status OK leaves no byte of the peer
\* undelivered, an end with DATA_LOSS does.
EndAccountsForBytes ==
    /\ status = "Ok" => fed = StreamEnd(Len(delivered))
    /\ status = "DataLoss" => fed > StreamEnd(Len(delivered))

\* An RPC is only failed by the message that is next, and for what is wrong
\* with it: its size, or its compression.
FailedByNextMessage ==
    status \in {"DeclaredTooLarge", "InflatedTooLarge", "Internal"} =>
        /\ Len(delivered) < Len(sent)
        /\ LET m == sent[Len(delivered) + 1]
           IN  CASE status = "Internal" ->
                      m.compressed /\ (m.corrupt \/ decoder = "None")
                 [] status = "DeclaredTooLarge" -> m.size > MaxReceiveSize
                 [] status = "InflatedTooLarge" ->
                      m.compressed /\ m.inflated > MaxReceiveSize

\* What the user gets: the messages of the peer, none too large.
DeliveredExact == DeliveredInOrder /\ WithinLimit

\* Why the RPC ends: its status says what became of the bytes of the peer.
EndJustified == EndAccountsForBytes /\ FailedByNextMessage
=============================================================================
