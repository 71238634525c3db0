---------------------------- MODULE Http2Channel ----------------------------
(***************************************************************************)
(* QGrpcHttp2Channel: one HTTP/2 connection shared by the RPCs of a        *)
(* client, the handler (Http2Handler) that drives each RPC, and the        *)
(* QGrpcOperation the user holds.  Everything runs on one thread, driven   *)
(* by an event loop, so the interleavings that matter are:                 *)
(*   - the order in which the loop delivers socket, timer and posted       *)
(*     events;                                                             *)
(*   - the calls a user's slot makes while library code is still on the    *)
(*     stack below it (variable frame).                                    *)
(* Outgoing messages are in Http2SendQueue; payload bytes and headers are  *)
(* abstracted to the decision the code takes on them.                      *)
(***************************************************************************)
EXTENDS Naturals, Sequences, FiniteSets, SequencesExt

CONSTANTS
    Ops,             \* the RPCs the user may start
    Deadline,        \* those of them started with a deadline
    ConnectTimeout,  \* is the connect timeout enabled (non-zero)?
    SlotCalls,       \* what a user's slot may call: "start", "cancel", "destroy"
    LateFrames,      \* may DATA reach a stream whose handler is Finished?
    EarlyRefusals,   \* may createStream() fail while SETTINGS are awaited?
    MaxBatch,        \* bound: complete messages in one DATA frame
    MaxMessages,     \* bound: messages received per RPC
    MaxFailures      \* bound: socket failures

ASSUME ChannelAssumption ==
    /\ Deadline \subseteq Ops
    /\ ConnectTimeout \in BOOLEAN /\ LateFrames \in BOOLEAN
    /\ EarlyRefusals \in BOOLEAN
    /\ SlotCalls \subseteq {"start", "cancel", "destroy"}
    /\ MaxBatch \in Nat /\ MaxMessages \in Nat /\ MaxFailures \in Nat

VARIABLES
    channel,         \* the channel object is alive
    state,           \* QGrpcHttp2ChannelPrivate::m_state
    connection,      \* m_connection is not null
    socket,          \* state of m_socket
    reconnectTimer,  \* m_reconnectTimer is active
    connectTimer,    \* m_connectTimeoutTimer is active
    handler,         \* Http2Handler::m_state, or "None": no handler object
    stream,          \* m_stream of the handler
    deadlineTimer,   \* m_deadlineTimer is active
    context,         \* the QGrpcOperation with its QGrpcOperationContext
    op,              \* QGrpcOperationPrivate::state
    emitted,         \* history: emissions of QGrpcOperation::finished
    received,        \* history: emissions of messageReceived
    posted,          \* events posted to the event loop, oldest first
    frame,           \* library code suspended under a user's slot
    failures,        \* socket failures so far
    cancelled,       \* history: RPCs that were cancelled while they ran
    allowed,         \* history: for those, the messages they may be given
    caught           \* history: RPCs started in the loop of handleSocketError()

chan  == <<channel, state, connection, socket, reconnectTimer, connectTimer>>
rpc   == <<handler, stream, deadlineTimer, context, op, emitted, received>>
past  == <<cancelled, allowed, caught>>
vars  == <<chan, rpc, posted, frame, failures, past>>

ConnectionStates == {"Connecting", "Connected", "SettingsReceived", "Error"}
HandlerStates    == {"Idle", "RequestHeadersSent", "Active", "Cancelled", "Finished"}
Endpoints        == {"Cancelled", "Finished"}
Tails            == {"more", "end", "error"}   \* how a DATA frame ends

NoFrame == [kind |-> "none", rest |-> {}, expired |-> {}, batch |-> 0,
            tail |-> "more", slot |-> FALSE]

Events == [kind : {"finished", "asyncFinish", "delete"}, op : Ops]

StateOK ==
    /\ channel \in BOOLEAN
    /\ state \in ConnectionStates
    /\ connection \in BOOLEAN
    /\ socket \in {"Unconnected", "Connecting", "Connected", "Failed"}
    /\ reconnectTimer \in BOOLEAN /\ connectTimer \in BOOLEAN
    /\ handler \in [Ops -> HandlerStates \cup {"None"}]
    /\ stream \in [Ops -> {"Null", "Idle", "Open", "Closed"}]
    /\ deadlineTimer \in [Ops -> BOOLEAN]
    /\ context \in [Ops -> {"Unused", "Alive", "Destroyed"}]
    /\ op \in [Ops -> {"Invalid", "Valid", "Finished"}]
    /\ emitted \in [Ops -> Nat]
    /\ received \in [Ops -> Nat]
    /\ posted \in Seq(Events)
    /\ frame \in [kind : {"none", "connect", "settings", "error", "teardown", "data"},
                  rest : SUBSET Ops, expired : SUBSET Ops,
                  batch : Nat, tail : Tails, slot : BOOLEAN]
    /\ failures \in Nat

PastOK == cancelled \subseteq Ops /\ allowed \in [Ops -> Nat] /\ caught \subseteq Ops

TypeOK == StateOK /\ PastOK

\* The constructor calls attemptConnect() at once.
Init ==
    /\ channel = TRUE
    /\ state = "Connecting"
    /\ connection = FALSE
    /\ socket = "Connecting"
    /\ reconnectTimer = FALSE
    /\ connectTimer = ConnectTimeout
    /\ handler = [o \in Ops |-> "None"]
    /\ stream = [o \in Ops |-> "Null"]
    /\ deadlineTimer = [o \in Ops |-> FALSE]
    /\ context = [o \in Ops |-> "Unused"]
    /\ op = [o \in Ops |-> "Invalid"]
    /\ emitted = [o \in Ops |-> 0]
    /\ received = [o \in Ops |-> 0]
    /\ posted = <<>>
    /\ frame = NoFrame
    /\ failures = 0
    /\ cancelled = {} /\ allowed = [o \in Ops |-> 0] /\ caught = {}

-----------------------------------------------------------------------------
(* Who runs: the event loop picks an event only when no library code is    *)
(* suspended; user code runs from the event loop or inside a slot.         *)

EventLoop == frame.kind = "none"
UserMay(call) == EventLoop \/ (frame.slot /\ call \in SlotCalls)

Handlers     == {o \in Ops : handler[o] # "None"}
Expired      == {o \in Handlers : context[o] # "Alive"}
NonExpired   == Handlers \ Expired

Event(k, o) == [kind |-> k, op |-> o]
Post(q, k, o) == Append(q, Event(k, o))

\* QObject::deleteLater(): a second request for the same object posts nothing.
DeleteLater(q, o) ==
    IF Contains(q, Event("delete", o)) THEN q ELSE Post(q, "delete", o)

(* Definitions named Slip... are slips a programmer could make in the      *)
(* code; the properties must tell each of them from the definition that    *)
(* follows it.                                                             *)

\* Slip: relays finished() without asking isFinished().
SlipEmitAlways(o) ==
    /\ op' = [op EXCEPT ![o] = "Finished"]
    /\ emitted' = [emitted EXCEPT ![o] = @ + 1]

\* finished() of the context reaches the QGrpcOperation, which relays it once.
EmitFinished(o) ==
    /\ op' = [op EXCEPT ![o] = "Finished"]
    /\ emitted' = IF op[o] = "Finished" THEN emitted
                  ELSE [emitted EXCEPT ![o] = @ + 1]

\* Http2Handler::finish() of o, called while m_state is s and q is posted.
HandleContextExpired(o, q) ==
    /\ context[o] # "Alive"
    /\ handler' = [handler EXCEPT ![o] = "Cancelled"]
    /\ posted' = DeleteLater(q, o)
    /\ UNCHANGED <<deadlineTimer, op, emitted>>

\* Slip: the early return also taken for Cancelled, as in cancelWithStatus().
SlipAlreadyAtEndpoint(o, s, q) ==
    /\ context[o] = "Alive"
    /\ s \in Endpoints
    /\ handler' = [handler EXCEPT ![o] = s]
    /\ posted' = q
    /\ UNCHANGED <<deadlineTimer, op, emitted>>

AlreadyFinished(o, s, q) ==
    /\ context[o] = "Alive"
    /\ s = "Finished"
    /\ posted' = q
    /\ UNCHANGED <<handler, deadlineTimer, op, emitted>>

FinishNow(o, s, q) ==
    /\ context[o] = "Alive"
    /\ s # "Finished"
    /\ handler' = [handler EXCEPT ![o] = IF s = "Cancelled" THEN s ELSE "Finished"]
    /\ deadlineTimer' = [deadlineTimer EXCEPT ![o] = FALSE]
    /\ EmitFinished(o)
    /\ posted' = DeleteLater(q, o)

Finish(o, s, q) ==
    HandleContextExpired(o, q) \/ AlreadyFinished(o, s, q) \/ FinishNow(o, s, q)

\* The messages of o that the suspended parse loop has before it.
InSuspendedFrame(o) ==
    IF frame.kind = "data" /\ o \in frame.rest THEN frame.batch ELSE 0

\* Http2Handler::cancelWithStatus(); sending RST_STREAM may fail.
CancelWithStatus(o) ==
    /\ handler[o] \notin Endpoints
    /\ \/ stream' = stream
       \/ /\ stream[o] = "Open"
          /\ stream' = [stream EXCEPT ![o] = "Closed"]
    /\ Finish(o, "Cancelled", posted)
    /\ cancelled' = cancelled \cup {o}
    /\ allowed' = [allowed EXCEPT ![o] = received[o] + InSuspendedFrame(o)]

-----------------------------------------------------------------------------
(* The user's calls.                                                       *)

\* processOperation(): the socket is not writable, so no handler is made.
RefuseUnwritable(o) ==
    /\ channel
    /\ socket = "Unconnected"
    /\ state = "Connected"
    /\ op' = [op EXCEPT ![o] = "Valid"]
    /\ posted' = Post(posted, "finished", o)
    /\ UNCHANGED <<chan, handler, stream, deadlineTimer>>

\* The QGrpcOperation constructor found no channel: asyncFinishInvalid().
RefuseNoChannel(o) ==
    /\ ~channel
    /\ posted' = Post(posted, "finished", o)
    /\ UNCHANGED <<chan, handler, stream, deadlineTimer, op>>

\* Slip: leaves the Error state without starting the reconnect timer.
SlipNoReconnect ==
    /\ state = "Error"
    /\ state' = "Connecting"
    /\ UNCHANGED reconnectTimer

ScheduleReconnect ==
    /\ state = "Error"
    /\ reconnectTimer' = TRUE
    /\ state' = "Connecting"

\* No connection: the RPC waits; from Error it also schedules the reconnect.
WaitForConnection(o) ==
    /\ channel
    /\ ~connection
    /\ op' = [op EXCEPT ![o] = "Valid"]
    /\ handler' = [handler EXCEPT ![o] = "Idle"]
    /\ \/ ScheduleReconnect
       \/ /\ state # "Error"
          /\ UNCHANGED <<reconnectTimer, state>>
    /\ UNCHANGED <<channel, connection, socket, connectTimer, stream,
                   deadlineTimer, posted>>

\* Connected, SETTINGS still missing: the stream is created and stays Idle.
WaitForSettings(o) ==
    /\ channel /\ connection
    /\ state = "Connected" /\ socket # "Unconnected"
    /\ op' = [op EXCEPT ![o] = "Valid"]
    /\ handler' = [handler EXCEPT ![o] = "Idle"]
    /\ stream' = [stream EXCEPT ![o] = "Idle"]
    /\ UNCHANGED <<chan, deadlineTimer, posted>>

\* Slip: sends as soon as there is a connection.
SlipSendWhenConnected == connection

MaySend == state = "SettingsReceived"

\* Slip: the deadline is never armed.
SlipNoDeadline(o) == deadlineTimer' = deadlineTimer

StartDeadline(o) == deadlineTimer' = [deadlineTimer EXCEPT ![o] = (o \in Deadline)]

\* sendInitialRequest() at once; the deadline starts with the HEADERS.
SendAtOnce(o) ==
    /\ channel /\ connection
    /\ MaySend
    /\ op' = [op EXCEPT ![o] = "Valid"]
    /\ handler' = [handler EXCEPT ![o] = "RequestHeadersSent"]
    /\ stream' = [stream EXCEPT ![o] = "Open"]
    /\ StartDeadline(o)
    /\ UNCHANGED <<chan, posted>>

\* createStream() fails, with SETTINGS received or still missing.
CreateFails(o) ==
    /\ channel /\ connection
    /\ MaySend \/ (EarlyRefusals /\ state = "Connected" /\ socket # "Unconnected")
    /\ op' = [op EXCEPT ![o] = "Valid"]
    /\ handler' = [handler EXCEPT ![o] = "Idle"]
    /\ posted' = Post(posted, "asyncFinish", o)
    /\ UNCHANGED <<chan, stream, deadlineTimer>>

\* sendHEADERS() fails.
SendFails(o) ==
    /\ channel /\ connection
    /\ MaySend
    /\ op' = [op EXCEPT ![o] = "Valid"]
    /\ handler' = [handler EXCEPT ![o] = "Idle"]
    /\ stream' = [stream EXCEPT ![o] = "Idle"]
    /\ posted' = Post(posted, "asyncFinish", o)
    /\ UNCHANGED <<chan, deadlineTimer>>

Start(o) ==
    /\ UserMay("start")
    /\ context[o] = "Unused"
    /\ context' = [context EXCEPT ![o] = "Alive"]
    /\ \/ RefuseUnwritable(o)
       \/ RefuseNoChannel(o)
       \/ WaitForConnection(o)
       \/ WaitForSettings(o)
       \/ SendAtOnce(o)
       \/ CreateFails(o)
       \/ SendFails(o)
    /\ caught' = IF frame.kind = "error" THEN caught \cup {o} ELSE caught
    /\ UNCHANGED <<emitted, received, frame, failures, cancelled, allowed>>

\* QGrpcOperation::cancel(); without a handler nobody listens.
Cancel(o) ==
    /\ UserMay("cancel")
    /\ channel
    /\ context[o] = "Alive"
    /\ op[o] # "Finished"
    /\ handler[o] # "None"
    /\ CancelWithStatus(o)
    /\ UNCHANGED <<chan, context, received, frame, failures, caught>>

\* Deleting the QGrpcOperation makes void what was posted to its context and
\* lets the handler go.  From a slot of its own messageReceived this is done
\* only once finished() has said that it is safe.
Destroy(o) ==
    /\ UserMay("destroy")
    /\ context[o] = "Alive"
    /\ (frame.kind = "data" /\ o \in frame.rest) => op[o] = "Finished"
    /\ context' = [context EXCEPT ![o] = "Destroyed"]
    /\ posted' = IF handler[o] = "None" THEN posted ELSE DeleteLater(posted, o)
    /\ UNCHANGED <<chan, handler, stream, deadlineTimer, op, emitted, received,
                   frame, failures, past>>

-----------------------------------------------------------------------------
(* Posted events, delivered in the order they were posted.  Qt withdraws    *)
(* an event with its receiver; here it stays and its delivery does nothing. *)

Void(e) == IF e.kind = "delete" THEN handler[e.op] = "None" ELSE context[e.op] # "Alive"

DispatchVoid(e) ==
    /\ Void(e)
    /\ posted' = Tail(posted)
    /\ UNCHANGED <<handler, stream, deadlineTimer, op, emitted>>

DispatchFinished(e) ==
    /\ e.kind = "finished" /\ ~Void(e)
    /\ EmitFinished(e.op)
    /\ posted' = Tail(posted)
    /\ UNCHANGED <<handler, stream, deadlineTimer>>

\* The lambda of asyncFinish() calls finish() on the handler it captured.  A
\* handler deleted before that is undefined behaviour (NoHandlerLost);
\* its RPC was finished by the teardown, so the call has no visible outcome.
DispatchAsyncFinish(e) ==
    /\ e.kind = "asyncFinish" /\ ~Void(e)
    /\ \/ /\ handler[e.op] # "None"
          /\ Finish(e.op, handler[e.op], Tail(posted))
       \/ /\ handler[e.op] = "None"
          /\ posted' = Tail(posted)
          /\ UNCHANGED <<handler, deadlineTimer, op, emitted>>
    /\ UNCHANGED stream

\* ~Http2Handler() deletes the stream with it.
DispatchDelete(e) ==
    /\ e.kind = "delete" /\ ~Void(e)
    /\ handler' = [handler EXCEPT ![e.op] = "None"]
    /\ stream' = [stream EXCEPT ![e.op] = "Null"]
    /\ deadlineTimer' = [deadlineTimer EXCEPT ![e.op] = FALSE]
    /\ posted' = Tail(posted)
    /\ UNCHANGED <<op, emitted>>

Dispatch ==
    /\ EventLoop
    /\ posted # <<>>
    /\ \/ DispatchVoid(Head(posted))
       \/ DispatchFinished(Head(posted))
       \/ DispatchAsyncFinish(Head(posted))
       \/ DispatchDelete(Head(posted))
    /\ UNCHANGED <<chan, context, received, frame, failures, past>>

-----------------------------------------------------------------------------
(* The connection.                                                         *)

\* for_each_non_expired_handler(): the handlers that exist when it starts.
Enter(kind) == frame' = [NoFrame EXCEPT !.kind = kind, !.rest = Handlers]

\* The handlers found expired are deleted when the loop is over.
DeleteExpired ==
    /\ handler' = [o \in Ops |-> IF o \in frame.expired THEN "None" ELSE handler[o]]
    /\ deadlineTimer' = [o \in Ops |-> deadlineTimer[o] /\ o \notin frame.expired]

SkipExpired(o) ==
    /\ context[o] # "Alive"
    /\ frame' = [frame EXCEPT !.rest = @ \ {o}, !.expired = @ \cup {o}, !.slot = FALSE]
    /\ UNCHANGED <<handler, stream, deadlineTimer, op, emitted, posted>>

\* createHttp2Connection(): the RPCs that waited get their streams.
SocketConnected ==
    /\ EventLoop
    /\ socket = "Connecting"
    /\ socket' = "Connected"
    /\ connection' = TRUE
    /\ state' = "Connected"
    /\ Enter("connect")
    /\ UNCHANGED <<channel, reconnectTimer, connectTimer, rpc, posted, failures, past>>

CreateHttp2Stream(o) ==
    \/ /\ stream' = [stream EXCEPT ![o] = "Idle"]
       /\ UNCHANGED posted
    \/ /\ EarlyRefusals
       /\ posted' = Post(posted, "asyncFinish", o)
       /\ UNCHANGED stream

ConnectLoopStep ==
    /\ frame.kind = "connect"
    /\ \E o \in frame.rest :
         \/ SkipExpired(o)
         \/ /\ context[o] = "Alive"
            /\ CreateHttp2Stream(o)
            /\ frame' = [frame EXCEPT !.rest = @ \ {o}]
            /\ UNCHANGED <<handler, deadlineTimer, op, emitted>>
    /\ UNCHANGED <<chan, context, received, failures, past>>

\* The first SETTINGS frame; later ones are ignored.
SettingsFrameReceived ==
    /\ EventLoop
    /\ connection /\ socket = "Connected"
    /\ state = "Connected"
    /\ state' = "SettingsReceived"
    /\ connectTimer' = FALSE
    /\ Enter("settings")
    /\ UNCHANGED <<channel, connection, socket, reconnectTimer, rpc, posted, failures, past>>

\* sendInitialRequest(): nothing for a handler at its endpoint; sendHEADERS()
\* may fail; the deadline starts with the HEADERS.  Without a stream (which
\* ReadyForSettings is about) the outcome is undefined and here nothing.
SendInitialRequest(o) ==
    \/ /\ handler[o] \in Endpoints \/ stream[o] = "Null"
       /\ UNCHANGED <<handler, stream, deadlineTimer, posted>>
    \/ /\ handler[o] \notin Endpoints /\ stream[o] # "Null"
       /\ posted' = Post(posted, "asyncFinish", o)
       /\ UNCHANGED <<handler, stream, deadlineTimer>>
    \/ /\ handler[o] \notin Endpoints /\ stream[o] # "Null"
       /\ handler' = [handler EXCEPT ![o] = "RequestHeadersSent"]
       /\ stream' = [stream EXCEPT ![o] = "Open"]
       /\ StartDeadline(o)
       /\ UNCHANGED posted

SettingsLoopStep ==
    /\ frame.kind = "settings"
    /\ \E o \in frame.rest :
         \/ SkipExpired(o)
         \/ /\ context[o] = "Alive"
            /\ SendInitialRequest(o)
            /\ frame' = [frame EXCEPT !.rest = @ \ {o}]
            /\ UNCHANGED <<op, emitted>>
    /\ UNCHANGED <<chan, context, received, failures, past>>

\* The end of the loop, of the one of createHttp2Connection() as well.
SettingsLoopEnd ==
    /\ frame.kind \in {"connect", "settings"} /\ frame.rest = {}
    /\ DeleteExpired
    /\ stream' = [o \in Ops |-> IF o \in frame.expired THEN "Null" ELSE stream[o]]
    /\ frame' = NoFrame
    /\ UNCHANGED <<chan, context, op, emitted, received, posted, failures, past>>

SocketErrorOccurred ==
    /\ EventLoop
    /\ socket \in {"Connecting", "Connected"}
    /\ failures < MaxFailures
    /\ failures' = failures + 1
    /\ socket' = "Failed"
    /\ Enter("error")
    /\ UNCHANGED <<channel, state, connection, reconnectTimer, connectTimer, rpc,
                   posted, past>>

\* The connect timeout aborts the socket, which leaves it closed.
ConnectTimeoutFires ==
    /\ EventLoop
    /\ connectTimer
    /\ connectTimer' = FALSE
    /\ socket' = "Unconnected"
    /\ Enter("error")
    /\ UNCHANGED <<channel, state, connection, reconnectTimer, rpc, posted, failures, past>>

\* handleSocketError() finishes with Unavailable, ~QGrpcHttp2ChannelPrivate() too.
ErrorLoopStep ==
    /\ frame.kind \in {"error", "teardown"}
    /\ \E o \in frame.rest :
         \/ SkipExpired(o)
         \/ /\ context[o] = "Alive"
            /\ Finish(o, handler[o], posted)
            /\ frame' = [frame EXCEPT !.rest = @ \ {o}, !.slot = (emitted' # emitted)]
            /\ UNCHANGED stream
    /\ UNCHANGED <<chan, context, received, failures, past>>

\* Slip: forgets the connection object instead of deleting it.
SlipStreamsSurvive == stream' = stream

StreamsDeleted == stream' = [o \in Ops |-> "Null"]

\* The rest of handleSocketError(); deleting m_connection deletes its streams.
ErrorLoopEnd ==
    /\ frame.kind = "error" /\ frame.rest = {}
    /\ DeleteExpired
    /\ StreamsDeleted
    /\ connectTimer' = FALSE
    /\ connection' = FALSE
    /\ state' = "Error"
    /\ socket' = "Unconnected"
    /\ frame' = NoFrame
    /\ UNCHANGED <<channel, reconnectTimer, context, op, emitted, received, posted,
                   failures, past>>

\* attemptConnect(); connecting a socket that is not unconnected does nothing.
ReconnectTimerFires ==
    /\ EventLoop
    /\ reconnectTimer
    /\ reconnectTimer' = FALSE
    /\ connectTimer' = ConnectTimeout
    /\ socket' = IF socket = "Unconnected" THEN "Connecting" ELSE socket
    /\ UNCHANGED <<channel, state, connection, rpc, posted, frame, failures, past>>

DeadlineFires(o) ==
    /\ EventLoop
    /\ deadlineTimer[o]
    /\ CancelWithStatus(o)
    /\ UNCHANGED <<chan, context, received, frame, failures, caught>>

\* The last owner of the channel drops it: ~QGrpcHttp2ChannelPrivate().
DestroyChannel ==
    /\ EventLoop
    /\ channel
    /\ channel' = FALSE
    /\ Enter("teardown")
    /\ UNCHANGED <<state, connection, socket, reconnectTimer, connectTimer, rpc,
                   posted, failures, past>>

\* The children and the members of the channel go with it.
TeardownEnd ==
    /\ frame.kind = "teardown" /\ frame.rest = {}
    /\ connection' = FALSE
    /\ socket' = "Unconnected"
    /\ reconnectTimer' = FALSE
    /\ connectTimer' = FALSE
    /\ handler' = [o \in Ops |-> "None"]
    /\ StreamsDeleted
    /\ deadlineTimer' = [o \in Ops |-> FALSE]
    /\ frame' = NoFrame
    /\ UNCHANGED <<channel, state, context, op, emitted, received, posted, failures, past>>

-----------------------------------------------------------------------------
(* The peer's frames on a stream that is open.                             *)

CloseIf(o, endStream) ==
    stream' = IF endStream THEN [stream EXCEPT ![o] = "Closed"] ELSE stream

\* headersReceived on a handler at its endpoint.
IgnoreHeaders(o) ==
    /\ handler[o] \in Endpoints
    /\ posted' = DeleteLater(posted, o)
    /\ UNCHANGED <<handler, deadlineTimer, op, emitted>>

\* A second HEADERS frame that does not end the stream is only logged.
UnexpectedHeaders(o, endStream) ==
    /\ handler[o] = "Active" /\ ~endStream
    /\ UNCHANGED <<handler, deadlineTimer, op, emitted, posted>>

\* Initial metadata that handleHeaders() accepts.
InitialHeaders(o, endStream, valid) ==
    /\ handler[o] = "RequestHeadersSent" /\ ~endStream
    /\ valid /\ context[o] = "Alive"
    /\ handler' = [handler EXCEPT ![o] = "Active"]
    /\ UNCHANGED <<deadlineTimer, op, emitted, posted>>

\* Trailers, Trailers-Only, a rejected header, or a context that is gone.
FinalHeaders(o, endStream, valid) ==
    /\ handler[o] \in {"RequestHeadersSent", "Active"}
    /\ endStream \/ (handler[o] = "RequestHeadersSent"
                     /\ (~valid \/ context[o] # "Alive"))
    /\ Finish(o, "Active", posted)

HeadersReceived(o, endStream, valid) ==
    /\ EventLoop
    /\ stream[o] = "Open"
    /\ CloseIf(o, endStream)
    /\ \/ IgnoreHeaders(o)
       \/ UnexpectedHeaders(o, endStream)
       \/ InitialHeaders(o, endStream, valid)
       \/ FinalHeaders(o, endStream, valid)
    /\ UNCHANGED <<chan, context, received, frame, failures, past>>

\* What follows the last complete message: nothing, END_STREAM, or an error
\* (oversize, not decompressible, bytes left over).
DataTail(o, tail) ==
    \/ /\ tail = "more"
       /\ UNCHANGED <<handler, deadlineTimer, op, emitted, posted>>
    \/ /\ tail # "more"
       /\ Finish(o, handler[o], posted)

\* Slip: asks for the wrong endpoint.
SlipIgnoreFinished(o) == handler[o] = "Finished"

DataIsIgnored(o) == handler[o] = "Cancelled"

\* dataReceived: up to the first messageReceived, or to the end without one.
DataReceived(o, batch, tail) ==
    /\ EventLoop
    /\ stream[o] = "Open"
    /\ context[o] = "Alive"
    /\ LateFrames \/ handler[o] # "Finished"
    /\ received[o] + batch <= MaxMessages
    /\ CloseIf(o, tail = "end")
    /\ \/ /\ DataIsIgnored(o)
          /\ UNCHANGED <<handler, deadlineTimer, op, emitted, received, posted, frame>>
       \/ /\ ~DataIsIgnored(o)
          /\ batch = 0
          /\ DataTail(o, tail)
          /\ UNCHANGED <<received, frame>>
       \/ /\ ~DataIsIgnored(o)
          /\ batch > 0
          /\ received' = [received EXCEPT ![o] = @ + 1]
          /\ frame' = [NoFrame EXCEPT !.kind = "data", !.rest = {o},
                                      !.batch = batch - 1, !.tail = tail, !.slot = TRUE]
          /\ UNCHANGED <<handler, deadlineTimer, op, emitted, posted>>
    /\ UNCHANGED <<chan, context, failures, past>>

\* Slip: one message too many.
SlipOneTooMany == frame.batch >= 0

MoreInBatch == frame.batch > 0

\* The slot of messageReceived returned: the next message, or what follows.  A
\* next message for a context that the slot destroyed is a signal of a null
\* pointer; of what this may do, the model has the end of the loop.
DataStep ==
    /\ frame.kind = "data"
    /\ \E o \in frame.rest :
         \/ /\ MoreInBatch /\ context[o] = "Alive"
            /\ received' = [received EXCEPT ![o] = @ + 1]
            /\ frame' = [frame EXCEPT !.batch = @ - 1]
            /\ UNCHANGED <<handler, deadlineTimer, op, emitted, posted>>
         \/ /\ MoreInBatch /\ context[o] # "Alive"
            /\ frame' = NoFrame
            /\ UNCHANGED <<handler, deadlineTimer, op, emitted, received, posted>>
         \/ /\ ~MoreInBatch
            /\ DataTail(o, frame.tail)
            /\ frame' = NoFrame
            /\ UNCHANGED received
    /\ UNCHANGED <<chan, stream, context, failures, past>>

\* RST_STREAM from the peer, or the connection failing the stream.
StreamErrorOccurred(o) ==
    /\ EventLoop
    /\ stream[o] = "Open"
    /\ stream' = [stream EXCEPT ![o] = "Closed"]
    /\ Finish(o, handler[o], posted)
    /\ UNCHANGED <<chan, context, received, frame, failures, past>>

-----------------------------------------------------------------------------
User == \E o \in Ops : Start(o) \/ Cancel(o) \/ Destroy(o)

Peer ==
    \/ SocketConnected
    \/ SettingsFrameReceived
    \/ SocketErrorOccurred
    \/ \E o \in Ops :
         \/ \E endStream, valid \in BOOLEAN : HeadersReceived(o, endStream, valid)
         \/ \E batch \in 0..MaxBatch, tail \in Tails : DataReceived(o, batch, tail)
         \/ StreamErrorOccurred(o)

\* What the program itself goes on to do, whatever user and peer do.
Library ==
    \/ Dispatch
    \/ ConnectLoopStep
    \/ SettingsLoopStep
    \/ SettingsLoopEnd
    \/ ErrorLoopStep
    \/ ErrorLoopEnd
    \/ TeardownEnd
    \/ DataStep
    \/ ConnectTimeoutFires
    \/ ReconnectTimerFires
    \/ \E o \in Ops : DeadlineFires(o)

Next == User \/ Peer \/ Library \/ DestroyChannel

Spec == Init /\ [][Next]_vars

\* Fairness: the event loop keeps running, and a started timer expires.  No
\* fairness for the user and none for the peer.
FairSpec == Spec /\ WF_vars(Dispatch)
                 /\ WF_vars(ConnectLoopStep)
                 /\ WF_vars(SettingsLoopStep) /\ WF_vars(SettingsLoopEnd)
                 /\ WF_vars(ErrorLoopStep) /\ WF_vars(ErrorLoopEnd)
                 /\ WF_vars(TeardownEnd) /\ WF_vars(DataStep)
                 /\ WF_vars(ConnectTimeoutFires) /\ WF_vars(ReconnectTimerFires)
                 /\ \A o \in Ops : WF_vars(DeadlineFires(o))

-----------------------------------------------------------------------------
(* Properties.                                                             *)

\* QGrpcOperation::finished is emitted at most once, whichever of cancel,
\* deadline, socket error, peer, posted failure and teardown come together.
FinishedOnce == \A o \in Ops : emitted[o] <= 1

\* The assertions of attachStream() and createHttp2Connection(): when a socket
\* can report that it is connected, no connection and no stream is left over.
NothingLeftOver ==
    (EventLoop /\ socket = "Connecting") =>
        /\ ~connection
        /\ \A o \in Ops : stream[o] = "Null"

\* The assertions of sendInitialRequest(): when SETTINGS can arrive, every
\* handler it is called on has a stream, and unless it is at its endpoint it
\* is Idle with its initial headers not sent yet.  The handler of a caught RPC
\* may have sent them on the connection that was lost.
ReadyForSettings ==
    (EventLoop /\ state = "Connected") =>
        \A o \in NonExpired :
            /\ stream[o] # "Null"
            /\ \/ handler[o] \in {"Idle"} \cup Endpoints
               \/ handler[o] = "RequestHeadersSent" /\ o \in caught

\* HEADERS, and so the whole exchange on a stream, only after SETTINGS.
HeadersAfterSettings ==
    EventLoop => \A o \in Ops :
        stream[o] \in {"Open", "Closed"} => (connection /\ state = "SettingsReceived")

\* An RPC that has not been sent is never forgotten: a connection attempt is
\* running or scheduled, SETTINGS are awaited, or its failure is posted; and
\* when SETTINGS come they find it ready to be sent.  Only one that a slot of
\* finished() started while handleSocketError() ran waits for more: until
\* another RPC is started, which schedules the connection attempt for both.
NoStrandedRpc ==
    /\ ReadyForSettings
    /\ EventLoop => \A o \in NonExpired :
        handler[o] = "Idle" =>
            \/ state = "Connecting" /\ (reconnectTimer \/ socket = "Connecting")
            \/ state = "Connected"
            \/ state = "Error" /\ o \in caught
            \/ Contains(posted, Event("asyncFinish", o))

\* A handler stays until its RPC has finished or its owner has dropped it; and
\* finish() posted by asyncFinish() never outlives the handler it will be
\* called on, while the channel lives.
NoHandlerLost ==
    (channel /\ EventLoop) => \A o \in Ops :
        /\ (context[o] = "Alive" /\ op[o] # "Finished") =>
            \/ handler[o] \notin {"None", "Cancelled", "Finished"}
            \/ Contains(posted, Event("finished", o))
        /\ (context[o] = "Alive" /\ Contains(posted, Event("asyncFinish", o)))
            => handler[o] # "None"

\* Once the user or the deadline has cancelled an RPC, the user is given no
\* message of it that was not in the frame whose parsing the cancel interrupted,
\* whatever the peer sends, and whichever of finish(), the deletion of the
\* handler and another cancel() follow.
NoMessageAfterCancel == \A o \in cancelled : received[o] <= allowed[o]

\* With a deadline every RPC ends, even if the peer never says anything: it
\* finishes, or its owner drops it.
EveryRpcEnds ==
    \A o \in Deadline : (context[o] = "Alive") ~> (op[o] = "Finished" \/ context[o] = "Destroyed")

-----------------------------------------------------------------------------
(* The channel implements the contract of RpcContract.                     *)

Phase(o) ==
    CASE context[o] = "Unused"                      -> "unused"
      [] context[o] = "Destroyed"                   -> "dropped"
      [] context[o] = "Alive" /\ op[o] = "Finished" -> "finished"
      [] context[o] = "Alive" /\ op[o] # "Finished" -> "running"

phase == [o \in Ops |-> Phase(o)]

Contract == INSTANCE RpcContract WITH phase <- phase, received <- received,
                                     Ops <- Ops, Deadline <- Deadline

\* The channel keeps the contract, its liveness included, also when the slots of
\* its signals cancel RPCs and destroy operations; as long as no DATA follows the
\* end of an RPC and a frame ends at most one message.
ImplementsContract == Contract!FairSpec
=============================================================================
