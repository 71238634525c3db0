--------------------------- MODULE Http2SendQueue ---------------------------
(***************************************************************************)
(* The outgoing side of one Http2Handler: the queue of framed messages,    *)
(* the upload QHttp2Stream performs for it under flow control, the bytes   *)
(* reported to the user, and the messageWritten signals that pace the      *)
(* user's writes.  The receiving side only shows as the RPC ending.        *)
(***************************************************************************)
EXTENDS Naturals, Sequences

CONSTANTS
    Sizes,     \* framed sizes of a message: prefix and payload, as compressed
    MaxWrites  \* bound: messages accepted, the initial one included

ASSUME SendQueueAssumption == Sizes \subseteq Nat \ {0} /\ MaxWrites \in Nat

VARIABLES
    endStreamAtFirstData,  \* unary call or server stream
    context,               \* m_context: the operation exists
    state,                 \* m_state, or "Deleted"
    stream,                \* m_stream and its QHttp2Stream::State
    queue,                 \* m_queue: sizes of the messages, 0 for the end marker
    writesDoneSent,        \* m_writesDoneSent
    drainingQueue,         \* m_drainingQueue: processQueue() is on the stack
    inFlightUserWrite,     \* m_inFlightUserWrite
    queuedBytes,           \* m_queuedBytes
    bytesToWrite,          \* m_bytesToWrite, as given to setBytesToWrite()
    upload,                \* isUploadingDATA(), the bytes left and END_STREAM
    posted,                \* messageWritten emissions posted to the event loop
    accepted,              \* history: messages put into the queue
    written,               \* history: emissions of messageWritten
    finished               \* history: the context has emitted finished

vars == <<endStreamAtFirstData, context, state, stream, queue, writesDoneSent,
          drainingQueue, inFlightUserWrite, queuedBytes, bytesToWrite, upload,
          posted, accepted, written, finished>>

EndMarker == 0
NoUpload  == [on |-> FALSE, left |-> 0, close |-> FALSE]
Running   == {"Idle", "RequestHeadersSent", "Active"}

TypeOK ==
    /\ endStreamAtFirstData \in BOOLEAN
    /\ context \in BOOLEAN
    /\ state \in Running \cup {"Cancelled", "Finished", "Deleted"}
    /\ stream \in {"Null", "Idle", "Open", "HalfClosedLocal", "Closed"}
    /\ queue \in Seq(Nat)
    /\ writesDoneSent \in BOOLEAN
    /\ drainingQueue \in BOOLEAN
    /\ inFlightUserWrite \in BOOLEAN
    /\ queuedBytes \in Nat
    /\ bytesToWrite \in Nat
    /\ upload \in [on : BOOLEAN, left : Nat, close : BOOLEAN]
    /\ posted \in Nat
    /\ accepted \in Nat
    /\ written \in Nat
    /\ finished \in BOOLEAN

\* The constructor enqueues the initial message; there is no stream yet.
Init ==
    /\ endStreamAtFirstData \in BOOLEAN
    /\ context = TRUE
    /\ state = "Idle"
    /\ stream = "Null"
    /\ writesDoneSent = FALSE
    /\ drainingQueue = FALSE
    /\ inFlightUserWrite = FALSE
    /\ \E n \in Sizes : /\ queue = <<n>>
                        /\ queuedBytes = n
                        /\ bytesToWrite = n
    /\ upload = NoUpload
    /\ posted = 0
    /\ accepted = 1
    /\ written = 0
    /\ finished = FALSE

-----------------------------------------------------------------------------
\* The event loop and the user run only while processQueue() does not.
EventLoop == ~drainingQueue /\ state # "Deleted"

ClosedForSending == stream \in {"HalfClosedLocal", "Closed"}

\* (Definitions named Slip... are slips a programmer could make in the code; the
\* properties below must tell each of them from the definition after it.)
\* Slip: does not wait for the HEADERS.
SlipEagerQueue(q, s) == drainingQueue' = (stream # "Null" /\ ~upload.on /\ q # <<>>)

\* The early returns of processQueue(), called with queue q in state s.
ProcessQueue(q, s) ==
    drainingQueue' = (stream # "Null" /\ s # "Idle" /\ ~upload.on /\ q # <<>>)

\* Slip: forgets that writesDone() may still be waiting in the queue.
SlipMayWrite == state \in Running /\ ~ClosedForSending

MayWrite == ~writesDoneSent /\ state \in Running /\ ~ClosedForSending

\* What writeMessage() asks first; without a context nobody calls it.
Writable == EventLoop /\ context /\ ~endStreamAtFirstData /\ MayWrite

\* writeMessage(): a message of a streaming RPC that is not refused.
Write(n) ==
    /\ Writable
    /\ accepted < MaxWrites
    /\ queue' = Append(queue, n)
    /\ queuedBytes' = queuedBytes + n
    /\ bytesToWrite' = bytesToWrite + n
    /\ accepted' = accepted + 1
    /\ ProcessQueue(queue', state)
    /\ UNCHANGED <<endStreamAtFirstData, context, state, stream, writesDoneSent,
                   inFlightUserWrite, upload, posted, written, finished>>

\* A message beyond GrpcMaxPayloadSize ends the RPC and is not queued; what was
\* queued before it stays.
WriteTooLarge ==
    /\ Writable
    /\ state' = "Finished"
    /\ finished' = TRUE
    /\ UNCHANGED <<endStreamAtFirstData, context, stream, queue, writesDoneSent,
                   drainingQueue, inFlightUserWrite, queuedBytes, bytesToWrite,
                   upload, posted, accepted, written>>

WritesDone ==
    /\ EventLoop
    /\ context /\ ~endStreamAtFirstData
    /\ ~writesDoneSent /\ state \in Running
    /\ writesDoneSent' = TRUE
    /\ \/ /\ ClosedForSending
          /\ UNCHANGED <<stream, queue, drainingQueue>>
       \/ /\ ~ClosedForSending
          /\ queue' = Append(queue, EndMarker)
          /\ ProcessQueue(queue', state)
          /\ UNCHANGED stream
    /\ UNCHANGED <<endStreamAtFirstData, context, state, inFlightUserWrite,
                   queuedBytes, bytesToWrite, upload, posted, accepted, written, finished>>

-----------------------------------------------------------------------------
(* The drain loop of processQueue(), one sendDATA() per step.  sendDATA()  *)
(* writes what the flow-control window admits; when that is everything,    *)
(* bytesWritten and uploadFinished are emitted before it returns.          *)

\* The handler of uploadFinished, for a message with the flag value f.
UploadFinished(f) ==
    /\ inFlightUserWrite' = FALSE
    /\ posted' = IF f THEN posted + 1 ELSE posted

\* Slip: takes the end marker for a message of the user.
SlipMarkerIsMessage(n) == endStreamAtFirstData

ClosesStream(n) == n = EndMarker \/ endStreamAtFirstData

SendDataWhole(n) ==
    /\ stream = "Open"
    /\ bytesToWrite' = bytesToWrite - n
    /\ stream' = IF ClosesStream(n) THEN "HalfClosedLocal" ELSE stream
    /\ UploadFinished(~ClosesStream(n))
    /\ drainingQueue' = (Tail(queue) # <<>>)
    /\ UNCHANGED <<state, upload, finished>>

\* The window admits w < n bytes: the upload goes on later.
SendDataPart(n) ==
    /\ stream = "Open"
    /\ \E w \in 0..(n - 1) :
         /\ bytesToWrite' = bytesToWrite - w
         /\ upload' = [on |-> TRUE, left |-> n - w, close |-> ClosesStream(n)]
    /\ inFlightUserWrite' = ~ClosesStream(n)
    /\ drainingQueue' = FALSE
    /\ UNCHANGED <<state, stream, posted, finished>>

\* The transport fails the stream while it writes: errorOccurred finishes the
\* RPC before sendDATA() returns, and the loop goes on if it returns true.
SendDataBreaks(n) ==
    /\ stream = "Open"
    /\ stream' = "Closed"
    /\ state' = IF state = "Cancelled" THEN state ELSE "Finished"
    /\ finished' = (finished \/ context)
    /\ \/ /\ inFlightUserWrite' = ~ClosesStream(n)
          /\ drainingQueue' = (Tail(queue) # <<>>)
       \/ /\ inFlightUserWrite' = FALSE
          /\ drainingQueue' = FALSE
    /\ UNCHANGED <<bytesToWrite, upload, posted>>

\* sendDATA() refuses: the message is lost and the loop given up.
SendDataFails ==
    /\ stream # "Open"
    /\ inFlightUserWrite' = FALSE
    /\ drainingQueue' = FALSE
    /\ UNCHANGED <<state, stream, bytesToWrite, upload, posted, finished>>

\* Slip: takes the newest message first.
SlipDequeue == queue' = SubSeq(queue, 1, Len(queue) - 1)

Dequeue == queue' = Tail(queue)

DrainStep ==
    /\ drainingQueue
    /\ Dequeue
    /\ queuedBytes' = queuedBytes - Head(queue)
    /\ \/ SendDataWhole(Head(queue))
       \/ SendDataPart(Head(queue))
       \/ SendDataBreaks(Head(queue))
       \/ SendDataFails
    /\ UNCHANGED <<endStreamAtFirstData, context, writesDoneSent, accepted, written>>

\* Slip: the finished upload does not restart the queue.
SlipQueueStalls == FALSE

QueueGoesOn == state # "Idle" /\ queue # <<>>

\* The peer widened the window: w more bytes of the upload are written.
UploadProgress(w) ==
    /\ EventLoop
    /\ upload.on /\ w \in 1..upload.left
    /\ bytesToWrite' = bytesToWrite - w
    /\ \/ /\ w < upload.left
          /\ upload' = [upload EXCEPT !.left = @ - w]
          /\ UNCHANGED <<stream, inFlightUserWrite, posted, drainingQueue>>
       \/ /\ w = upload.left
          /\ upload' = NoUpload
          /\ stream' = IF upload.close THEN "HalfClosedLocal" ELSE stream
          /\ UploadFinished(inFlightUserWrite)
          /\ drainingQueue' = QueueGoesOn
    /\ UNCHANGED <<endStreamAtFirstData, context, state, queue, writesDoneSent,
                   queuedBytes, accepted, written, finished>>

\* Slip: emits whatever has happened since it was posted.
SlipAlwaysEmit == TRUE

MayEmitWritten == context /\ state \in Running

\* The posted lambda of scheduleMessageWritten().
MessageWritten ==
    /\ EventLoop
    /\ posted > 0
    /\ posted' = posted - 1
    /\ written' = IF MayEmitWritten THEN written + 1 ELSE written
    /\ UNCHANGED <<endStreamAtFirstData, context, state, stream, queue,
                   writesDoneSent, drainingQueue, inFlightUserWrite, queuedBytes,
                   bytesToWrite, upload, accepted, finished>>

-----------------------------------------------------------------------------
(* The rest of the handler's life, as far as the queue can see it.         *)

lifeUnchanged == <<endStreamAtFirstData, writesDoneSent, inFlightUserWrite,
                   queuedBytes, bytesToWrite, accepted, written>>

AttachStream ==
    /\ EventLoop
    /\ state = "Idle" /\ stream = "Null"
    /\ stream' = "Idle"
    /\ UNCHANGED <<lifeUnchanged, context, state, queue, drainingQueue, upload,
                   posted, finished>>

\* sendInitialRequest(): HEADERS, then the queue.
SendInitialRequest ==
    /\ EventLoop
    /\ context
    /\ state = "Idle" /\ stream = "Idle"
    /\ state' = "RequestHeadersSent"
    /\ stream' = "Open"
    /\ drainingQueue' = (~upload.on /\ queue # <<>>)
    /\ UNCHANGED <<lifeUnchanged, context, queue, upload, posted, finished>>

ResponseHeaders ==
    /\ EventLoop
    /\ state = "RequestHeadersSent"
    /\ state' = "Active"
    /\ UNCHANGED <<lifeUnchanged, context, stream, queue, drainingQueue, upload,
                   posted, finished>>

\* finish() or cancelWithStatus(); a cancel resets the stream, the peer's own
\* reset or a lost connection closes it first.  After a plain finish() it stays.
End ==
    /\ EventLoop
    /\ state \in Running
    /\ \E s \in {"Cancelled", "Finished"} : state' = s
    /\ finished' = (finished \/ context)
    /\ \/ UNCHANGED <<stream, upload>>
       \/ /\ stream # "Null"
          /\ stream' = "Closed"
          /\ upload' = NoUpload
    /\ UNCHANGED <<lifeUnchanged, context, queue, drainingQueue, posted>>

\* The owner deletes the QGrpcOperation.
DestroyContext ==
    /\ EventLoop
    /\ context
    /\ context' = FALSE
    /\ UNCHANGED <<lifeUnchanged, state, stream, queue, drainingQueue, upload,
                   posted, finished>>

\* The deferred deletion withdraws what was posted to the handler.
DeleteHandler ==
    /\ EventLoop
    /\ state \notin Running \/ ~context
    /\ state' = "Deleted"
    /\ stream' = "Null"
    /\ upload' = NoUpload
    /\ queue' = <<>>
    /\ posted' = 0
    /\ UNCHANGED <<lifeUnchanged, context, drainingQueue, finished>>

-----------------------------------------------------------------------------
Transport == \E w \in 1..upload.left : UploadProgress(w)

Next ==
    \/ \E n \in Sizes : Write(n)
    \/ WriteTooLarge
    \/ WritesDone
    \/ DrainStep
    \/ Transport
    \/ MessageWritten
    \/ AttachStream
    \/ SendInitialRequest
    \/ ResponseHeaders
    \/ End
    \/ DestroyContext
    \/ DeleteHandler

Spec == Init /\ [][Next]_vars

\* The loop runs, the connection comes up and the peer keeps granting window.
FairSpec ==
    /\ Spec
    /\ WF_vars(DrainStep) /\ WF_vars(MessageWritten) /\ WF_vars(Transport)
    /\ WF_vars(AttachStream) /\ WF_vars(SendInitialRequest)

-----------------------------------------------------------------------------
(* Properties.                                                             *)

PrefixSums(s) ==
    LET sum[i \in 0..Len(s)] == IF i = 0 THEN 0 ELSE sum[i - 1] + s[i] IN sum

SumOf(s) == PrefixSums(s)[Len(s)]

\* The user's messages waiting in the queue, without the end marker.
UserQueued == IF queue # <<>> /\ queue[Len(queue)] = EndMarker
              THEN Len(queue) - 1 ELSE Len(queue)

\* bytesToWrite() does not report 0 while anything of a message is unsent.
ZeroMeansSent ==
    (state \in Running /\ bytesToWrite = 0) => (UserQueued = 0 /\ upload.left = 0)

\* m_queuedBytes is what the queue holds, so the assertion of processQueue()
\* holds, and m_bytesToWrite counts the rest of the running upload as well.
BytesExact ==
    /\ state \in Running =>
        /\ queuedBytes = SumOf(queue)
        /\ bytesToWrite = queuedBytes + upload.left
    /\ ZeroMeansSent

\* messageWritten: exactly one per accepted message of a streaming RPC; until
\* it is emitted the message is queued, uploading, or its signal is posted.
PacingExact ==
    (context /\ state \in Running /\ ~endStreamAtFirstData) =>
        accepted = written + posted + (IF inFlightUserWrite THEN 1 ELSE 0) + UserQueued

\* END_STREAM comes last: the end marker is only ever the last of the queue,
\* and once the stream is closed for sending by it nothing is left behind.
EndStreamLast ==
    /\ \A i \in 1..Len(queue) : queue[i] = EndMarker => i = Len(queue)
    /\ stream = "HalfClosedLocal" => queue = <<>>

\* No DATA before the HEADERS, and none of a stream that is not there.
UploadNeedsHeaders == (upload.on \/ drainingQueue) => (state # "Idle" /\ stream # "Null")

\* messageWritten() is not emitted once finished() has been.
NoWrittenAfterFinished == [][written' # written => ~finished]_vars

\* As long as the RPC runs, every accepted message is reported written.
EveryWriteReported ==
    [](~endStreamAtFirstData) =>
        []<>(written = accepted \/ state \notin Running \/ ~context)
=============================================================================
