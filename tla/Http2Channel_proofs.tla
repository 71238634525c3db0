------------------------ MODULE Http2Channel_proofs ------------------------
(***************************************************************************)
(* Safety of Http2Channel for any number of RPCs, with or without          *)
(* deadlines and connect timeout, and whatever slots may call; and the     *)
(* life of its handlers: no handler is lost, no RPC is stranded, and the   *)
(* RPCs keep the contract of RpcContract, for any number of failures of    *)
(* the connection.                                                         *)
(***************************************************************************)
EXTENDS Http2Channel, TLAPS

-----------------------------------------------------------------------------
(* What the helpers of the handler return.                                 *)

\* A posted event, deletion requests included, keeps the queue well typed.
LEMMA PostType ==
    ASSUME NEW q \in Seq(Events), NEW o \in Ops
    PROVE  /\ DeleteLater(q, o) \in Seq(Events)
           /\ \A k \in {"finished", "asyncFinish", "delete"} : Post(q, k, o) \in Seq(Events)
<1>1. \A k \in {"finished", "asyncFinish", "delete"} : Event(k, o) \in Events
  BY DEF Event, Events
<1>2. \A e \in Events : Append(q, e) \in Seq(Events)
  OBVIOUS
<1> QED BY <1>1, <1>2 DEF DeleteLater, Post

\* Http2Handler::finish() keeps the types of what it changes.
LEMMA FinishType ==
    ASSUME StateOK, NEW o \in Ops, NEW s, NEW q \in Seq(Events), Finish(o, s, q)
    PROVE  /\ handler' \in [Ops -> HandlerStates \cup {"None"}]
           /\ deadlineTimer' \in [Ops -> BOOLEAN]
           /\ op' \in [Ops -> {"Invalid", "Valid", "Finished"}]
           /\ emitted' \in [Ops -> Nat]
           /\ posted' \in Seq(Events)
<1>1. DeleteLater(q, o) \in Seq(Events)
  BY PostType
<1>2. CASE HandleContextExpired(o, q)
  BY <1>1, <1>2 DEF HandleContextExpired, StateOK, HandlerStates
<1>3. CASE AlreadyFinished(o, s, q)
  BY <1>3 DEF AlreadyFinished, StateOK
<1>4. CASE FinishNow(o, s, q)
  BY <1>1, <1>4 DEF FinishNow, EmitFinished, StateOK, HandlerStates
<1> QED BY <1>2, <1>3, <1>4 DEF Finish

\* cancelWithStatus() likewise, and the stream it may reset.
LEMMA CancelType ==
    ASSUME StateOK, NEW o \in Ops, CancelWithStatus(o)
    PROVE  /\ handler' \in [Ops -> HandlerStates \cup {"None"}]
           /\ stream' \in [Ops -> {"Null", "Idle", "Open", "Closed"}]
           /\ deadlineTimer' \in [Ops -> BOOLEAN]
           /\ op' \in [Ops -> {"Invalid", "Valid", "Finished"}]
           /\ emitted' \in [Ops -> Nat]
           /\ posted' \in Seq(Events)
<1>1. posted \in Seq(Events) /\ Finish(o, "Cancelled", posted)
  BY DEF CancelWithStatus, StateOK
<1>2. stream' \in [Ops -> {"Null", "Idle", "Open", "Closed"}]
  <2>1. stream \in [Ops -> {"Null", "Idle", "Open", "Closed"}]
    BY DEF StateOK
  <2>2. stream' = stream \/ stream' = [stream EXCEPT ![o] = "Closed"]
    BY DEF CancelWithStatus
  <2> QED BY <2>1, <2>2
<1> QED BY <1>1, <1>2, FinishType

\* DataTail() likewise.
LEMMA DataTailType ==
    ASSUME StateOK, NEW o \in Ops, NEW tail \in Tails, DataTail(o, tail)
    PROVE  /\ handler' \in [Ops -> HandlerStates \cup {"None"}]
           /\ deadlineTimer' \in [Ops -> BOOLEAN]
           /\ op' \in [Ops -> {"Invalid", "Valid", "Finished"}]
           /\ emitted' \in [Ops -> Nat]
           /\ posted' \in Seq(Events)
<1>1. CASE tail = "more"
  BY <1>1 DEF DataTail, StateOK
<1>2. CASE tail # "more"
  BY <1>2, FinishType DEF DataTail, StateOK
<1> QED BY <1>1, <1>2

-----------------------------------------------------------------------------
(* Type correctness, action by action.                                     *)

LEMMA InitType == Init => StateOK
<1> SUFFICES ASSUME Init PROVE StateOK
  OBVIOUS
<1>1. connectTimer \in BOOLEAN
  BY ChannelAssumption DEF Init
<1>2. posted \in Seq(Events)
  BY DEF Init
<1>3. frame \in [kind : {"none", "connect", "settings", "error", "teardown", "data"},
                rest : SUBSET Ops, expired : SUBSET Ops,
                batch : Nat, tail : Tails, slot : BOOLEAN]
  BY DEF Init, NoFrame, Tails
<1> QED BY <1>1, <1>2, <1>3 DEF Init, StateOK, ConnectionStates, HandlerStates

\* The calls of the user.
LEMMA StartType == ASSUME StateOK, NEW o \in Ops, Start(o) PROVE StateOK'
<1> USE DEF StateOK, ConnectionStates, HandlerStates, Tails, chan
<1>0. \A k \in {"finished", "asyncFinish", "delete"} : Post(posted, k, o) \in Seq(Events)
  BY PostType
<1>1. CASE RefuseUnwritable(o)
  BY <1>0, <1>1 DEF Start, RefuseUnwritable
<1>2. CASE RefuseNoChannel(o)
  BY <1>0, <1>2 DEF Start, RefuseNoChannel
<1>3. CASE WaitForConnection(o)
  BY <1>3 DEF Start, WaitForConnection, ScheduleReconnect
<1>4. CASE WaitForSettings(o)
  BY <1>4 DEF Start, WaitForSettings
<1>5. CASE SendAtOnce(o)
  BY <1>5 DEF Start, SendAtOnce, StartDeadline
<1>6. CASE SendFails(o)
  BY <1>0, <1>6 DEF Start, SendFails
<1>7. CASE CreateFails(o)
  BY <1>0, <1>7 DEF Start, CreateFails
<1> QED BY <1>1, <1>2, <1>3, <1>4, <1>5, <1>6, <1>7 DEF Start

\* cancel() of the user.
LEMMA CancelOpType == ASSUME StateOK, NEW o \in Ops, Cancel(o) PROVE StateOK'
BY CancelType DEF Cancel, StateOK, chan

\* The destruction of an operation may post the deletion of its handler.
LEMMA DestroyType == ASSUME StateOK, NEW o \in Ops, Destroy(o) PROVE StateOK'
<1>1. DeleteLater(posted, o) \in Seq(Events)
  BY PostType DEF StateOK
<1> QED BY <1>1 DEF Destroy, StateOK, chan

\* Posted events.
LEMMA DispatchType == ASSUME StateOK, Dispatch PROVE StateOK'
<1> USE DEF StateOK, chan
<1> DEFINE e == Head(posted)
<1>1. e \in Events /\ Tail(posted) \in Seq(Events)
  <2>1. posted \in Seq(Events) /\ posted # <<>>
    BY DEF Dispatch
  <2> QED BY <2>1
<1>a. e.op \in Ops
  BY <1>1 DEF Events
<1>2. CASE DispatchVoid(e)
  BY <1>1, <1>a, <1>2 DEF Dispatch, DispatchVoid
<1>3. CASE DispatchFinished(e)
  BY <1>1, <1>a, <1>3 DEF Dispatch, DispatchFinished, EmitFinished
<1>4. CASE DispatchAsyncFinish(e)
  <2>1. CASE Finish(e.op, handler[e.op], Tail(posted))
    BY <1>1, <1>a, <1>4, <2>1, FinishType DEF Dispatch, DispatchAsyncFinish
  <2>2. CASE posted' = Tail(posted) /\ UNCHANGED <<handler, deadlineTimer, op, emitted>>
    BY <1>1, <1>a, <1>4, <2>2 DEF Dispatch, DispatchAsyncFinish
  <2> QED BY <1>4, <2>1, <2>2 DEF DispatchAsyncFinish
<1>5. CASE DispatchDelete(e)
  BY <1>1, <1>a, <1>5 DEF Dispatch, DispatchDelete
<1> QED BY <1>2, <1>3, <1>4, <1>5 DEF Dispatch

\* The loops over the handlers, and what starts and ends them.
LEMMA EnterType ==
    ASSUME StateOK, NEW k \in {"connect", "settings", "error", "teardown"}, Enter(k)
    PROVE  frame' \in [kind : {"none", "connect", "settings", "error", "teardown", "data"},
                       rest : SUBSET Ops, expired : SUBSET Ops,
                       batch : Nat, tail : Tails, slot : BOOLEAN]
BY DEF Enter, NoFrame, Handlers, Tails

\* A step of a loop that passes over a child.
LEMMA SkipType ==
    ASSUME StateOK, NEW o \in Ops, SkipExpired(o)
    PROVE  /\ handler' \in [Ops -> HandlerStates \cup {"None"}]
           /\ stream' \in [Ops -> {"Null", "Idle", "Open", "Closed"}]
           /\ deadlineTimer' \in [Ops -> BOOLEAN]
           /\ op' \in [Ops -> {"Invalid", "Valid", "Finished"}]
           /\ emitted' \in [Ops -> Nat]
           /\ posted' \in Seq(Events)
           /\ frame' \in [kind : {"none", "connect", "settings", "error", "teardown", "data"},
                           rest : SUBSET Ops, expired : SUBSET Ops,
                           batch : Nat, tail : Tails, slot : BOOLEAN]
BY DEF SkipExpired, StateOK

\* sendInitialRequest() opens the stream or finishes the RPC.
LEMMA SendInitialRequestType ==
    ASSUME StateOK, NEW o \in Ops, SendInitialRequest(o)
    PROVE  /\ handler' \in [Ops -> HandlerStates \cup {"None"}]
           /\ stream' \in [Ops -> {"Null", "Idle", "Open", "Closed"}]
           /\ deadlineTimer' \in [Ops -> BOOLEAN]
           /\ posted' \in Seq(Events)
<1>1. Post(posted, "asyncFinish", o) \in Seq(Events)
  BY PostType DEF StateOK
<1>2. CASE UNCHANGED <<handler, stream, deadlineTimer>>
  BY <1>1, <1>2 DEF SendInitialRequest, StateOK
<1>3. CASE /\ handler' = [handler EXCEPT ![o] = "RequestHeadersSent"]
           /\ stream' = [stream EXCEPT ![o] = "Open"]
           /\ StartDeadline(o)
           /\ UNCHANGED posted
  BY <1>3 DEF StartDeadline, StateOK, HandlerStates
<1> QED BY <1>2, <1>3 DEF SendInitialRequest

\* One child of the loop after the connection is made.
LEMMA ConnectLoopStepType == ASSUME StateOK, ConnectLoopStep PROVE StateOK'
<1>1. PICK o \in frame.rest :
         \/ SkipExpired(o)
         \/ /\ context[o] = "Alive"
            /\ CreateHttp2Stream(o)
            /\ frame' = [frame EXCEPT !.rest = @ \ {o}]
            /\ UNCHANGED <<handler, deadlineTimer, op, emitted>>
  BY DEF ConnectLoopStep
<1>2. o \in Ops
  BY DEF StateOK
<1>3. UNCHANGED <<chan, context, received, failures>>
  BY DEF ConnectLoopStep
<1>4. CASE SkipExpired(o)
  BY <1>2, <1>3, <1>4, SkipType DEF StateOK, chan
<1>5. CASE /\ CreateHttp2Stream(o)
           /\ frame' = [frame EXCEPT !.rest = @ \ {o}]
           /\ UNCHANGED <<handler, deadlineTimer, op, emitted>>
  <2>1. Post(posted, "asyncFinish", o) \in Seq(Events)
    BY <1>2, PostType DEF StateOK
  <2> QED BY <1>2, <1>3, <1>5, <2>1 DEF CreateHttp2Stream, StateOK, chan
<1> QED BY <1>1, <1>4, <1>5

\* One child of the loop after SETTINGS.
LEMMA SettingsLoopStepType == ASSUME StateOK, SettingsLoopStep PROVE StateOK'
<1>1. PICK o \in frame.rest :
         \/ SkipExpired(o)
         \/ /\ context[o] = "Alive"
            /\ SendInitialRequest(o)
            /\ frame' = [frame EXCEPT !.rest = @ \ {o}]
            /\ UNCHANGED <<op, emitted>>
  BY DEF SettingsLoopStep
<1>2. o \in Ops
  BY DEF StateOK
<1>3. UNCHANGED <<chan, context, received, failures>>
  BY DEF SettingsLoopStep
<1>4. CASE SkipExpired(o)
  BY <1>2, <1>3, <1>4, SkipType DEF StateOK, chan
<1>5. CASE /\ SendInitialRequest(o)
           /\ frame' = [frame EXCEPT !.rest = @ \ {o}]
           /\ UNCHANGED <<op, emitted>>
  BY <1>2, <1>3, <1>5, SendInitialRequestType DEF StateOK, chan
<1> QED BY <1>1, <1>4, <1>5

\* One child of the loop of handleSocketError().
LEMMA ErrorLoopStepType == ASSUME StateOK, ErrorLoopStep PROVE StateOK'
<1>1. PICK o \in frame.rest :
         \/ SkipExpired(o)
         \/ /\ context[o] = "Alive"
            /\ Finish(o, handler[o], posted)
            /\ frame' = [frame EXCEPT !.rest = @ \ {o}, !.slot = (emitted' # emitted)]
            /\ UNCHANGED stream
  BY DEF ErrorLoopStep
<1>2. o \in Ops
  BY DEF StateOK
<1>3. UNCHANGED <<chan, context, received, failures>>
  BY DEF ErrorLoopStep
<1>4. CASE SkipExpired(o)
  BY <1>2, <1>3, <1>4, SkipType DEF StateOK, chan
<1>5. CASE /\ Finish(o, handler[o], posted)
           /\ frame' = [frame EXCEPT !.rest = @ \ {o}, !.slot = (emitted' # emitted)]
           /\ UNCHANGED stream
  <2>1. /\ handler' \in [Ops -> HandlerStates \cup {"None"}]
        /\ deadlineTimer' \in [Ops -> BOOLEAN]
        /\ op' \in [Ops -> {"Invalid", "Valid", "Finished"}]
        /\ emitted' \in [Ops -> Nat]
        /\ posted' \in Seq(Events)
    BY <1>2, <1>5, FinishType DEF StateOK
  <2> QED BY <1>3, <1>5, <2>1 DEF StateOK, chan
<1> QED BY <1>1, <1>4, <1>5

\* The connection and its timers.
LEMMA ConnectionType ==
    ASSUME StateOK,
           \/ SocketConnected \/ SettingsFrameReceived \/ SocketErrorOccurred
           \/ ConnectTimeoutFires \/ ReconnectTimerFires \/ DestroyChannel
           \/ SettingsLoopEnd \/ ErrorLoopEnd \/ TeardownEnd
    PROVE  StateOK'
<1> USE DEF StateOK, ConnectionStates, HandlerStates, chan, rpc
<1>1. CASE SocketConnected
  BY <1>1, EnterType DEF SocketConnected
<1>2. CASE SettingsFrameReceived
  BY <1>2, EnterType DEF SettingsFrameReceived
<1>3. CASE SocketErrorOccurred
  BY <1>3, EnterType DEF SocketErrorOccurred
<1>4. CASE ConnectTimeoutFires
  BY <1>4, EnterType DEF ConnectTimeoutFires
<1>5. CASE ReconnectTimerFires
  BY <1>5, ChannelAssumption DEF ReconnectTimerFires
<1>6. CASE DestroyChannel
  BY <1>6, EnterType DEF DestroyChannel
<1>7. CASE SettingsLoopEnd
  BY <1>7 DEF SettingsLoopEnd, DeleteExpired, NoFrame, Tails
<1>8. CASE ErrorLoopEnd
  BY <1>8 DEF ErrorLoopEnd, DeleteExpired, StreamsDeleted, NoFrame, Tails
<1>9. CASE TeardownEnd
  BY <1>9 DEF TeardownEnd, StreamsDeleted, NoFrame, Tails
<1> QED BY <1>1, <1>2, <1>3, <1>4, <1>5, <1>6, <1>7, <1>8, <1>9

\* The peer's frames on a stream.
LEMMA HeadersType ==
    ASSUME StateOK, NEW o \in Ops, NEW endStream \in BOOLEAN, NEW valid \in BOOLEAN,
           HeadersReceived(o, endStream, valid)
    PROVE  StateOK'
<1>1. stream' \in [Ops -> {"Null", "Idle", "Open", "Closed"}]
  BY DEF HeadersReceived, CloseIf, StateOK
<1>2. /\ handler' \in [Ops -> HandlerStates \cup {"None"}]
      /\ deadlineTimer' \in [Ops -> BOOLEAN]
      /\ op' \in [Ops -> {"Invalid", "Valid", "Finished"}]
      /\ emitted' \in [Ops -> Nat]
      /\ posted' \in Seq(Events)
  <2>1. CASE IgnoreHeaders(o)
    BY <2>1, PostType DEF IgnoreHeaders, StateOK
  <2>2. CASE UnexpectedHeaders(o, endStream)
    BY <2>2 DEF UnexpectedHeaders, StateOK
  <2>3. CASE InitialHeaders(o, endStream, valid)
    BY <2>3 DEF InitialHeaders, StateOK, HandlerStates
  <2>4. CASE FinalHeaders(o, endStream, valid)
    BY <2>4, FinishType DEF FinalHeaders, StateOK
  <2> QED BY <2>1, <2>2, <2>3, <2>4 DEF HeadersReceived
<1>3. UNCHANGED <<chan, context, received, frame, failures>>
  BY DEF HeadersReceived
<1> QED BY <1>1, <1>2, <1>3 DEF StateOK, chan

\* A DATA frame arrives, with or without messages.
LEMMA DataType ==
    ASSUME StateOK, NEW o \in Ops, NEW batch \in 0..MaxBatch, NEW tail \in Tails,
           DataReceived(o, batch, tail)
    PROVE  StateOK'
<1>1. stream' \in [Ops -> {"Null", "Idle", "Open", "Closed"}]
  BY DEF DataReceived, CloseIf, StateOK
<1>2. UNCHANGED <<chan, context, failures>>
  BY DEF DataReceived
<1>3. CASE UNCHANGED <<handler, deadlineTimer, op, emitted, received, posted, frame>>
  BY <1>1, <1>2, <1>3 DEF StateOK, chan
<1>4. CASE DataTail(o, tail) /\ UNCHANGED <<received, frame>>
  BY <1>1, <1>2, <1>4, DataTailType DEF StateOK, chan
<1>5. CASE /\ batch > 0
           /\ received' = [received EXCEPT ![o] = @ + 1]
           /\ frame' = [NoFrame EXCEPT !.kind = "data", !.rest = {o},
                                       !.batch = batch - 1, !.tail = tail, !.slot = TRUE]
           /\ UNCHANGED <<handler, deadlineTimer, op, emitted, posted>>
  <2>1. batch - 1 \in Nat
    BY <1>5, ChannelAssumption
  <2>2. frame' \in [kind : {"none", "connect", "settings", "error", "teardown", "data"},
                    rest : SUBSET Ops, expired : SUBSET Ops,
                    batch : Nat, tail : Tails, slot : BOOLEAN]
    BY <1>5, <2>1 DEF NoFrame
  <2> QED BY <1>1, <1>2, <1>5, <2>2 DEF StateOK, chan
<1> QED BY <1>3, <1>4, <1>5 DEF DataReceived

\* One message of a DATA frame, or what follows the last.
LEMMA DataStepType == ASSUME StateOK, DataStep PROVE StateOK'
<1>1. PICK o \in frame.rest :
         \/ /\ MoreInBatch
            /\ received' = [received EXCEPT ![o] = @ + 1]
            /\ frame' = [frame EXCEPT !.batch = @ - 1]
            /\ UNCHANGED <<handler, deadlineTimer, op, emitted, posted>>
         \/ /\ frame' = NoFrame
            /\ UNCHANGED <<handler, deadlineTimer, op, emitted, received, posted>>
         \/ /\ ~MoreInBatch
            /\ DataTail(o, frame.tail)
            /\ frame' = NoFrame
            /\ UNCHANGED received
  BY DEF DataStep
<1>2. o \in Ops /\ frame.tail \in Tails
  BY DEF StateOK
<1>3. UNCHANGED <<chan, stream, context, failures>>
  BY DEF DataStep
<1>4. CASE /\ MoreInBatch
           /\ received' = [received EXCEPT ![o] = @ + 1]
           /\ frame' = [frame EXCEPT !.batch = @ - 1]
           /\ UNCHANGED <<handler, deadlineTimer, op, emitted, posted>>
  <2>a. frame.batch \in Nat /\ frame.batch > 0
    BY <1>4 DEF StateOK, MoreInBatch
  <2>1. frame.batch - 1 \in Nat
    BY <2>a
  <2>2. frame' \in [kind : {"none", "connect", "settings", "error", "teardown", "data"},
                    rest : SUBSET Ops, expired : SUBSET Ops,
                    batch : Nat, tail : Tails, slot : BOOLEAN]
    BY <1>4, <2>1 DEF StateOK
  <2>3. received' \in [Ops -> Nat]
    BY <1>2, <1>4 DEF StateOK
  <2> QED BY <1>3, <1>4, <2>2, <2>3 DEF StateOK, chan
<1>5. NoFrame \in [kind : {"none", "connect", "settings", "error", "teardown", "data"},
                   rest : SUBSET Ops, expired : SUBSET Ops,
                   batch : Nat, tail : Tails, slot : BOOLEAN]
  BY DEF NoFrame, Tails
<1>6. CASE DataTail(o, frame.tail) /\ frame' = NoFrame /\ UNCHANGED received
  BY <1>2, <1>3, <1>5, <1>6, DataTailType DEF StateOK, chan
<1>7. CASE frame' = NoFrame /\ UNCHANGED <<handler, deadlineTimer, op, emitted, received, posted>>
  BY <1>3, <1>5, <1>7 DEF StateOK, chan
<1> QED BY <1>1, <1>4, <1>6, <1>7

\* RST_STREAM or an error of the stream.
LEMMA StreamErrorType == ASSUME StateOK, NEW o \in Ops, StreamErrorOccurred(o) PROVE StateOK'
<1>1. Finish(o, handler[o], posted) /\ posted \in Seq(Events)
  BY DEF StreamErrorOccurred, StateOK
<1> QED BY <1>1, FinishType DEF StreamErrorOccurred, StateOK, chan

\* The deadline timer of an RPC.
LEMMA DeadlineType == ASSUME StateOK, NEW o \in Ops, DeadlineFires(o) PROVE StateOK'
BY CancelType DEF DeadlineFires, StateOK, chan

\* Every step keeps the types.
LEMMA StepType == ASSUME StateOK, [Next]_vars PROVE StateOK'
<1>1. CASE User
  BY <1>1, StartType, CancelOpType, DestroyType DEF User
<1>2. CASE Peer
  BY <1>2, ConnectionType, HeadersType, DataType, StreamErrorType DEF Peer
<1>3. CASE Library
  BY <1>3, DispatchType, ConnectLoopStepType, SettingsLoopStepType, ErrorLoopStepType, DataStepType,
     ConnectionType, DeadlineType DEF Library
<1>4. CASE DestroyChannel
  BY <1>4, ConnectionType
<1>5. CASE UNCHANGED vars
  BY <1>5 DEF StateOK, vars, chan, rpc
<1> QED BY <1>1, <1>2, <1>3, <1>4, <1>5 DEF Next

LEMMA StateTyped == Spec => []StateOK
BY InitType, StepType, PTL DEF Spec

-----------------------------------------------------------------------------
(* FinishedOnce.  The early return isFinished() is enough only because an  *)
(* RPC that has finished never becomes Valid again: its context is not     *)
(* Unused any more, and Start is the only way to Valid.                    *)

OnceInv == \A o \in Ops : /\ emitted[o] = IF op[o] = "Finished" THEN 1 ELSE 0
                          /\ context[o] = "Unused" => op[o] = "Invalid"

\* finish() emits finished() only for an operation that has not finished.
LEMMA FinishKeepsOnce ==
    ASSUME StateOK, OnceInv, NEW o \in Ops, NEW s, NEW q, Finish(o, s, q), UNCHANGED context
    PROVE  OnceInv'
<1>1. CASE UNCHANGED <<op, emitted>>
  BY <1>1 DEF OnceInv
<1>2. CASE context[o] = "Alive" /\ EmitFinished(o)
  BY <1>2 DEF OnceInv, EmitFinished, StateOK
<1> QED BY <1>1, <1>2 DEF Finish, HandleContextExpired, AlreadyFinished, FinishNow

\* start() creates a handler for an operation that has emitted nothing.
LEMMA StartKeepsOnce == ASSUME StateOK, OnceInv, NEW o \in Ops, Start(o) PROVE OnceInv'
<1>1. /\ context[o] = "Unused" /\ context' = [context EXCEPT ![o] = "Alive"]
      /\ UNCHANGED emitted
      /\ op' = op \/ op' = [op EXCEPT ![o] = "Valid"]
  BY DEF Start, RefuseUnwritable, RefuseNoChannel, WaitForConnection, WaitForSettings,
         SendAtOnce, CreateFails, SendFails
<1> QED BY <1>1 DEF OnceInv, StateOK

\* A posted call finishes only an operation that has not finished; a deletion emits nothing.
LEMMA DispatchKeepsOnce == ASSUME StateOK, OnceInv, Dispatch PROVE OnceInv'
<1> DEFINE e == Head(posted)
<1>1. e.op \in Ops
  <2>1. posted \in Seq(Events) /\ posted # <<>>
    BY DEF Dispatch, StateOK
  <2>2. e \in Events
    BY <2>1
  <2> QED BY <2>2 DEF Events
<1>2. UNCHANGED context
  BY DEF Dispatch
<1>3. CASE DispatchFinished(e)
  <2>1. context[e.op] = "Alive" /\ EmitFinished(e.op)
    BY <1>3 DEF DispatchFinished, Void
  <2> QED BY <1>1, <1>2, <2>1 DEF OnceInv, EmitFinished, StateOK
<1>4. CASE DispatchAsyncFinish(e) /\ Finish(e.op, handler[e.op], Tail(posted))
  BY <1>1, <1>2, <1>4, FinishKeepsOnce
<1>5. CASE UNCHANGED <<op, emitted>>
  BY <1>2, <1>5 DEF OnceInv
<1> QED BY <1>3, <1>4, <1>5 DEF Dispatch, DispatchVoid, DispatchAsyncFinish, DispatchDelete

\* Every step keeps OnceInv.
LEMMA StepOnce == ASSUME StateOK, OnceInv, [Next]_vars PROVE OnceInv'
<1>1. ASSUME NEW o \in Ops, Start(o) PROVE OnceInv'
  BY <1>1, StartKeepsOnce
<1>2. ASSUME NEW o \in Ops, Cancel(o) \/ DeadlineFires(o) PROVE OnceInv'
  BY <1>2, FinishKeepsOnce DEF Cancel, DeadlineFires, CancelWithStatus
<1>3. ASSUME NEW o \in Ops, Destroy(o) PROVE OnceInv'
  BY <1>3 DEF Destroy, OnceInv, StateOK
<1>4. CASE Dispatch
  BY <1>4, DispatchKeepsOnce
<1>5. CASE ErrorLoopStep
  <2>1. PICK o \in frame.rest : SkipExpired(o) \/ Finish(o, handler[o], posted)
    BY <1>5 DEF ErrorLoopStep
  <2>2. o \in Ops /\ UNCHANGED context
    BY <1>5 DEF StateOK, ErrorLoopStep
  <2>3. CASE SkipExpired(o)
    BY <2>2, <2>3 DEF SkipExpired, OnceInv
  <2>4. CASE Finish(o, handler[o], posted)
    BY <2>2, <2>4, FinishKeepsOnce
  <2> QED BY <2>1, <2>3, <2>4
<1>6. ASSUME NEW o \in Ops, NEW endStream, NEW valid, HeadersReceived(o, endStream, valid)
      PROVE  OnceInv'
  <2>1. UNCHANGED context
    BY <1>6 DEF HeadersReceived
  <2>2. CASE FinalHeaders(o, endStream, valid)
    BY <2>1, <2>2, FinishKeepsOnce DEF FinalHeaders
  <2>3. CASE UNCHANGED <<op, emitted>>
    BY <2>1, <2>3 DEF OnceInv
  <2> QED BY <1>6, <2>2, <2>3
          DEF HeadersReceived, IgnoreHeaders, UnexpectedHeaders, InitialHeaders
<1>7. ASSUME NEW o \in Ops, NEW tail, DataTail(o, tail), UNCHANGED context PROVE OnceInv'
  <2>1. CASE UNCHANGED <<op, emitted>>
    BY <1>7, <2>1 DEF OnceInv
  <2>2. CASE Finish(o, handler[o], posted)
    BY <1>7, <2>2, FinishKeepsOnce
  <2> QED BY <1>7, <2>1, <2>2 DEF DataTail
<1>8. ASSUME NEW o \in Ops, NEW batch, NEW tail, DataReceived(o, batch, tail) PROVE OnceInv'
  <2>1. UNCHANGED context
    BY <1>8 DEF DataReceived
  <2>2. CASE UNCHANGED <<op, emitted>>
    BY <2>1, <2>2 DEF OnceInv
  <2> QED BY <1>7, <1>8, <2>1, <2>2 DEF DataReceived
<1>9. CASE DataStep
  <2>1. PICK o \in frame.rest : UNCHANGED <<op, emitted>> \/ DataTail(o, frame.tail)
    BY <1>9 DEF DataStep
  <2>2. o \in Ops /\ UNCHANGED context
    BY <1>9 DEF StateOK, DataStep
  <2> QED BY <1>7, <2>1, <2>2 DEF OnceInv
<1>10. ASSUME NEW o \in Ops, StreamErrorOccurred(o) PROVE OnceInv'
  BY <1>10, FinishKeepsOnce DEF StreamErrorOccurred
<1>11. CASE UNCHANGED <<context, op, emitted>>
  BY <1>11 DEF OnceInv
<1>12. CASE User
  BY <1>1, <1>2, <1>3, <1>12 DEF User
<1>13. CASE Peer \/ DestroyChannel
  <2>1. CASE SocketConnected \/ SettingsFrameReceived \/ SocketErrorOccurred \/ DestroyChannel
    BY <1>11, <2>1 DEF SocketConnected, SettingsFrameReceived, SocketErrorOccurred,
                       DestroyChannel, rpc
  <2> QED BY <1>6, <1>8, <1>10, <1>13, <2>1 DEF Peer
<1>14. CASE Library
  <2>1. CASE ConnectLoopStep \/ SettingsLoopStep
    BY <1>11, <2>1 DEF ConnectLoopStep, SettingsLoopStep, SkipExpired
  <2>2. CASE SettingsLoopEnd \/ ErrorLoopEnd \/ TeardownEnd
    BY <1>11, <2>2 DEF SettingsLoopEnd, ErrorLoopEnd, TeardownEnd
  <2>3. CASE ConnectTimeoutFires \/ ReconnectTimerFires
    BY <1>11, <2>3 DEF ConnectTimeoutFires, ReconnectTimerFires, rpc
  <2> QED BY <1>2, <1>4, <1>5, <1>9, <1>14, <2>1, <2>2, <2>3 DEF Library
<1> QED BY <1>11, <1>12, <1>13, <1>14 DEF Next, vars, rpc

\* finished() is emitted at most once per RPC, whatever cancel, deadline,
\* socket errors, the peer and the teardown do and in whatever order.
THEOREM FinishedAtMostOnce == Spec => []FinishedOnce
<1>1. Init => OnceInv
  BY DEF Init, OnceInv
<1>2. StateOK /\ OnceInv /\ [Next]_vars => OnceInv'
  BY StepOnce
<1>3. OnceInv => FinishedOnce
  BY DEF OnceInv, FinishedOnce
<1> QED BY <1>1, <1>2, <1>3, StateTyped, PTL DEF Spec

-----------------------------------------------------------------------------
(* NothingLeftOver and HeadersAfterSettings.  Neither is inductive: that a *)
(* stream needs a connection, and that a socket which is not connected has *)
(* none outside handleSocketError(), is what carries them from the failure *)
(* of one connection to the SETTINGS of the next.                          *)

StreamInv ==
    /\ \A o \in Ops : stream[o] # "Null" => connection
    /\ \A o \in Ops : stream[o] \in {"Open", "Closed"} => state = "SettingsReceived"
    /\ frame.kind = "connect" => connection
    /\ frame.kind = "settings" => (connection /\ state = "SettingsReceived")
    /\ (socket \in {"Connecting", "Unconnected"} /\ frame.kind # "error") => ~connection

\* A step that only closes open streams and leaves the connection alone.
LEMMA ClosingKeepsStreams ==
    ASSUME StateOK, StreamInv, NEW o \in Ops,
           stream' = stream \/ (stream[o] = "Open" /\ stream' = [stream EXCEPT ![o] = "Closed"]),
           UNCHANGED <<state, connection, socket>>,
           frame'.kind = frame.kind \/ frame'.kind \in {"none", "data"},
           frame'.kind = "error" \/ frame.kind # "error"
    PROVE  StreamInv'
BY DEF StreamInv, StateOK

\* start() may open a stream on a connection that is ready for it.
LEMMA StartKeepsStreams == ASSUME StateOK, StreamInv, NEW o \in Ops, Start(o) PROVE StreamInv'
<1> USE DEF Start, StreamInv, StateOK, chan
<1>1. CASE RefuseUnwritable(o)
  BY <1>1 DEF RefuseUnwritable
<1>2. CASE RefuseNoChannel(o)
  BY <1>2 DEF RefuseNoChannel
<1>3. CASE WaitForConnection(o)
  BY <1>3 DEF WaitForConnection, ScheduleReconnect
<1>4. CASE WaitForSettings(o)
  BY <1>4 DEF WaitForSettings
<1>5. CASE SendAtOnce(o)
  BY <1>5 DEF SendAtOnce, MaySend
<1>6. CASE SendFails(o)
  BY <1>6 DEF SendFails, MaySend
<1>7. CASE CreateFails(o)
  BY <1>7 DEF CreateFails
<1> QED BY <1>1, <1>2, <1>3, <1>4, <1>5, <1>6, <1>7

\* The loops over the children, each by one step.
LEMMA LoopKeepsStreams ==
    ASSUME StateOK, StreamInv, ConnectLoopStep \/ SettingsLoopStep \/ ErrorLoopStep
    PROVE  StreamInv'
<1>1. CASE SettingsLoopStep
  <2>1. PICK o \in frame.rest :
           \/ SkipExpired(o)
           \/ SendInitialRequest(o) /\ frame' = [frame EXCEPT !.rest = @ \ {o}]
    BY <1>1 DEF SettingsLoopStep
  <2>2. /\ o \in Ops /\ UNCHANGED chan /\ frame.kind = "settings"
        /\ connection /\ state = "SettingsReceived"
    BY <1>1 DEF StateOK, SettingsLoopStep, StreamInv
  <2>3. frame'.kind = frame.kind
    BY <2>1 DEF SkipExpired, StateOK
  <2>4. stream' = stream \/ stream' = [stream EXCEPT ![o] = "Open"]
    BY <2>1 DEF SkipExpired, SendInitialRequest
  <2> QED BY <2>2, <2>3, <2>4 DEF StreamInv, StateOK, chan
<1>2. CASE ErrorLoopStep
  <2>1. PICK o \in frame.rest :
           \/ SkipExpired(o)
           \/ /\ frame' = [frame EXCEPT !.rest = @ \ {o}, !.slot = (emitted' # emitted)]
              /\ UNCHANGED stream
    BY <1>2 DEF ErrorLoopStep
  <2>2. UNCHANGED <<chan, stream>> /\ frame'.kind = frame.kind
    BY <1>2, <2>1 DEF ErrorLoopStep, SkipExpired, StateOK
  <2> QED BY <2>2 DEF StreamInv, chan
<1>3. CASE ConnectLoopStep
  <2>1. PICK o \in frame.rest :
           \/ SkipExpired(o)
           \/ CreateHttp2Stream(o) /\ frame' = [frame EXCEPT !.rest = @ \ {o}]
    BY <1>3 DEF ConnectLoopStep
  <2>2. o \in Ops /\ UNCHANGED chan /\ frame.kind = "connect" /\ connection
    BY <1>3 DEF StateOK, ConnectLoopStep, StreamInv
  <2>3. frame'.kind = frame.kind
    BY <2>1 DEF SkipExpired, StateOK
  <2>4. stream' = stream \/ stream' = [stream EXCEPT ![o] = "Idle"]
    BY <2>1 DEF SkipExpired, CreateHttp2Stream
  <2> QED BY <2>2, <2>3, <2>4 DEF StreamInv, StateOK, chan
<1> QED BY <1>1, <1>2, <1>3

\* What happens to the connection: made, lost, torn down, made anew.
LEMMA ConnectionKeepsStreams ==
    ASSUME StateOK, StreamInv,
           \/ SocketConnected \/ SettingsFrameReceived \/ SocketErrorOccurred
           \/ ConnectTimeoutFires \/ ReconnectTimerFires \/ DestroyChannel
           \/ SettingsLoopEnd \/ ErrorLoopEnd \/ TeardownEnd
    PROVE  StreamInv'
<1> USE DEF StreamInv, StateOK, rpc
<1>1. CASE SocketConnected
  BY <1>1 DEF SocketConnected, EventLoop, Enter, NoFrame
<1>2. CASE SettingsFrameReceived
  BY <1>2 DEF SettingsFrameReceived, Enter, NoFrame
<1>3. CASE SocketErrorOccurred
  BY <1>3 DEF SocketErrorOccurred, Enter, NoFrame
<1>4. CASE ConnectTimeoutFires
  BY <1>4 DEF ConnectTimeoutFires, Enter, NoFrame
<1>5. CASE ReconnectTimerFires
  BY <1>5 DEF ReconnectTimerFires, EventLoop
<1>6. CASE DestroyChannel
  BY <1>6 DEF DestroyChannel, Enter, NoFrame, EventLoop
<1>7. CASE SettingsLoopEnd
  BY <1>7 DEF SettingsLoopEnd, NoFrame, chan
<1>8. CASE ErrorLoopEnd
  BY <1>8 DEF ErrorLoopEnd, StreamsDeleted, NoFrame
<1>9. CASE TeardownEnd
  BY <1>9 DEF TeardownEnd, StreamsDeleted, NoFrame
<1> QED BY <1>1, <1>2, <1>3, <1>4, <1>5, <1>6, <1>7, <1>8, <1>9

\* The peer's frames, a reset by this side, and what is posted.
LEMMA RestKeepsStreams ==
    ASSUME StateOK, StreamInv, NEW o \in Ops, NEW endStream, NEW valid, NEW batch, NEW tail,
           \/ Cancel(o) \/ DeadlineFires(o) \/ Destroy(o) \/ Dispatch \/ DataStep
           \/ StreamErrorOccurred(o) \/ HeadersReceived(o, endStream, valid)
           \/ DataReceived(o, batch, tail)
    PROVE  StreamInv'
<1>1. CASE Cancel(o) \/ DeadlineFires(o)
  BY <1>1, ClosingKeepsStreams DEF Cancel, DeadlineFires, CancelWithStatus, chan
<1>2. CASE Destroy(o)
  BY <1>2, ClosingKeepsStreams DEF Destroy, chan
<1>3. CASE Dispatch
  <2>1. UNCHANGED <<chan, frame>>
    BY <1>3 DEF Dispatch
  <2>2. stream' = stream \/ \E p \in Ops : stream' = [stream EXCEPT ![p] = "Null"]
    <3>1. posted \in Seq(Events) /\ posted # <<>>
      BY <1>3 DEF Dispatch, StateOK
    <3>2. Head(posted) \in Events
      BY <3>1
    <3>3. Head(posted).op \in Ops
      BY <3>2 DEF Events
    <3> QED BY <1>3, <3>3 DEF Dispatch, DispatchVoid, DispatchFinished,
                             DispatchAsyncFinish, DispatchDelete
  <2> QED BY <2>1, <2>2 DEF StreamInv, StateOK, chan
<1>4. CASE DataStep
  <2>1. UNCHANGED <<chan, stream>> /\ frame.kind = "data"
    BY <1>4 DEF DataStep
  <2>2. frame'.kind \in {"data", "none"}
    BY <1>4 DEF DataStep, NoFrame, StateOK
  <2> QED BY <2>1, <2>2 DEF StreamInv, chan
<1>5. CASE StreamErrorOccurred(o)
  BY <1>5, ClosingKeepsStreams DEF StreamErrorOccurred, chan, EventLoop
<1>6. CASE HeadersReceived(o, endStream, valid)
  BY <1>6, ClosingKeepsStreams DEF HeadersReceived, CloseIf, chan, EventLoop
<1>7. CASE DataReceived(o, batch, tail)
  <2>1. UNCHANGED chan /\ frame.kind = "none" /\ frame'.kind \in {"none", "data"}
    BY <1>7 DEF DataReceived, DataTail, EventLoop, NoFrame
  <2> QED BY <1>7, <2>1, ClosingKeepsStreams DEF DataReceived, CloseIf, chan
<1> QED BY <1>1, <1>2, <1>3, <1>4, <1>5, <1>6, <1>7

\* Every step keeps StreamInv.
LEMMA StepStreams == ASSUME StateOK, StreamInv, [Next]_vars PROVE StreamInv'
<1>1. CASE User
  BY <1>1, StartKeepsStreams, RestKeepsStreams DEF User
<1>2. CASE Peer
  BY <1>2, ConnectionKeepsStreams, RestKeepsStreams DEF Peer
<1>3. CASE Library
  <2>1. CASE Dispatch \/ DataStep
    <3>1. CASE Ops = {}
      BY <2>1, <3>1 DEF Dispatch, DataStep, StateOK, StreamInv, NoFrame, chan
    <3>2. CASE Ops # {}
      BY <2>1, <3>2, RestKeepsStreams
    <3> QED BY <3>1, <3>2
  <2> QED BY <1>3, <2>1, LoopKeepsStreams, ConnectionKeepsStreams, RestKeepsStreams DEF Library
<1>4. CASE DestroyChannel
  BY <1>4, ConnectionKeepsStreams
<1>5. CASE UNCHANGED vars
  BY <1>5 DEF StreamInv, vars, chan, rpc
<1> QED BY <1>1, <1>2, <1>3, <1>4, <1>5 DEF Next

\* StreamInv holds in every reachable state.
LEMMA StreamsInvariant == Spec => []StreamInv
<1>1. Init => StreamInv
  BY DEF Init, StreamInv, NoFrame
<1>2. StateOK /\ StreamInv /\ [Next]_vars => StreamInv'
  BY StepStreams
<1> QED BY <1>1, <1>2, StateTyped, PTL DEF Spec

\* The assertions of createHttp2Connection() and attachStream(): a socket that
\* is about to connect finds no connection and no stream of an earlier one.
THEOREM NoLeftovers == Spec => []NothingLeftOver
<1>1. StreamInv => NothingLeftOver
  BY DEF StreamInv, NothingLeftOver, EventLoop
<1> QED BY <1>1, StreamsInvariant, PTL

\* No stream carries anything before SETTINGS, on any connection.
THEOREM SettingsFirst == Spec => []HeadersAfterSettings
<1>1. StreamInv /\ StateOK => HeadersAfterSettings
  BY DEF StreamInv, HeadersAfterSettings, StateOK
<1> QED BY <1>1, StreamsInvariant, StateTyped, PTL
-----------------------------------------------------------------------------
(* The life of the handlers.                                               *)

EventKinds == {"finished", "asyncFinish", "delete"}

Pending(k, o) == Contains(posted, Event(k, o))

-----------------------------------------------------------------------------
(* The inductive invariants.                                               *)

\* What ties the handler of o to its QGrpcOperation, the events posted for it
\* and the loop that is going over it.
HandlerInv(o) ==
    /\ context[o] = "Unused" => handler[o] = "None" /\ \A k \in EventKinds : ~Pending(k, o)
    /\ o \in frame.rest \cup frame.expired => handler[o] # "None"
    /\ o \in frame.expired => context[o] = "Destroyed"
    /\ stream[o] # "Null" \/ deadlineTimer[o] => handler[o] # "None"
    /\ context[o] = "Alive" /\ handler[o] # "None" =>
           (handler[o] \in Endpoints <=> op[o] = "Finished")
    /\ context[o] = "Alive" /\ Pending("delete", o) => op[o] = "Finished"
    /\ Pending("finished", o) => handler[o] = "None"
    /\ channel /\ context[o] = "Alive" /\ op[o] # "Finished" =>
           handler[o] # "None" \/ Pending("finished", o)

FrameInv == /\ frame.kind = "teardown" => ~channel
            /\ frame.kind = "none" => frame.rest = {} /\ frame.expired = {}

LifeInv == FrameInv /\ \A o \in Ops : HandlerInv(o)

\* A failure posted by asyncFinish() is in the queue before the deletion of the
\* handler it will be called on.
Ordered(q, o) ==
    \A i, j \in 1 .. Len(q) :
        q[i] = Event("delete", o) /\ q[j] = Event("asyncFinish", o) => j < i

FailureBeforeDeletion(o) ==
    context[o] = "Alive" =>
        /\ Ordered(posted, o)
        /\ channel /\ Pending("asyncFinish", o) => handler[o] # "None"

QueueInv == \A o \in Ops : FailureBeforeDeletion(o)

\* The state of the connection agrees with what it is made of, and an attempt
\* to connect is running or scheduled whenever the state says so.
ConnectionInv ==
    /\ socket = "Failed" => frame.kind = "error"
    /\ socket = "Connected" => connection
    /\ channel /\ state \in {"Connected", "SettingsReceived"} => connection
    /\ connection => state \in {"Connected", "SettingsReceived"}
    /\ channel /\ state = "Connecting" /\ frame.kind # "error" =>
           reconnectTimer \/ socket = "Connecting"
    /\ ~channel /\ frame.kind # "teardown" => socket = "Unconnected" /\ ~reconnectTimer
    /\ frame.kind = "connect" => state = "Connected"
    /\ frame.kind = "settings" => state = "SettingsReceived"

\* The connection that o was sent on has not been lost, or will be seen to be
\* lost by the loop that is about to reach o.
OnConnection(o) == state = "SettingsReceived" /\ (frame.kind = "error" => o \in frame.rest)

\* How far an RPC can be, given the state of the connection and the loop that
\* is about to reach it; a caught RPC may have been sent on the connection that
\* is lost, and may wait with no attempt to connect scheduled.
WaitingInv(o) ==
    context[o] = "Alive" =>
        /\ handler[o] # "None" => channel \/ frame.kind = "teardown"
        /\ handler[o] = "RequestHeadersSent" => OnConnection(o) \/ o \in caught
        /\ handler[o] = "Active" => OnConnection(o)
        /\ handler[o] # "None" /\ state = "Connected" =>
               stream[o] # "Null" \/ (frame.kind = "connect" /\ o \in frame.rest)
        /\ frame.kind = "settings" /\ o \in frame.rest => stream[o] # "Null"
        /\ handler[o] = "Idle" /\ frame.kind # "teardown" =>
               \/ Pending("asyncFinish", o)
               \/ frame.kind \in {"settings", "error"} /\ o \in frame.rest
               \/ frame.kind # "error" /\ state \in {"Connecting", "Connected"}
               \/ o \in caught /\ state # "SettingsReceived"

ProgressInv == ConnectionInv /\ \A o \in Ops : WaitingInv(o)

-----------------------------------------------------------------------------
(* The queue of posted events.                                             *)

\* Posting adds one event at the end; asking twice for a deletion adds one.
LEMMA PostPending ==
    ASSUME NEW q \in Seq(Events), NEW k \in EventKinds, NEW o \in Ops, NEW e
    PROVE  /\ Contains(Post(q, k, o), e) <=> Contains(q, e) \/ e = Event(k, o)
           /\ Contains(DeleteLater(q, o), e) <=> Contains(q, e) \/ e = Event("delete", o)
<1>1. ASSUME NEW x \in Events
      PROVE  Contains(Append(q, x), e) <=> Contains(q, e) \/ e = x
  BY DEF Contains
<1>2. \A kk \in EventKinds : Event(kk, o) \in Events
  BY DEF Event, Events, EventKinds
<1>3. "delete" \in EventKinds
  BY DEF EventKinds
<1> QED BY <1>1, <1>2, <1>3 DEF Post, DeleteLater

\* Delivering the oldest event leaves the others.
LEMMA TailPending ==
    ASSUME NEW q \in Seq(Events), q # <<>>, NEW e
    PROVE  Contains(q, e) <=> e = Head(q) \/ Contains(Tail(q), e)
<1>1. Len(q) \in Nat \ {0} /\ Len(Tail(q)) = Len(q) - 1 /\ Head(q) = q[1]
  OBVIOUS
<1>2. \A i \in 1 .. Len(q) - 1 : Tail(q)[i] = q[i + 1]
  OBVIOUS
<1>3. ASSUME NEW i \in 1 .. Len(q), q[i] = e
      PROVE  e = Head(q) \/ Contains(Tail(q), e)
  <2>1. CASE i = 1
    BY <1>1, <1>3, <2>1
  <2>2. CASE i # 1
    <3>1. i - 1 \in 1 .. Len(q) - 1 /\ Tail(q)[i - 1] = e
      BY <1>1, <1>2, <1>3, <2>2
    <3> QED BY <1>1, <3>1 DEF Contains
  <2> QED BY <2>1, <2>2
<1>4. ASSUME NEW i \in 1 .. Len(q) - 1, Tail(q)[i] = e
      PROVE  Contains(q, e)
  BY <1>1, <1>2, <1>4 DEF Contains
<1>5. e = Head(q) => Contains(q, e)
  BY <1>1 DEF Contains
<1> QED BY <1>1, <1>3, <1>4, <1>5 DEF Contains

\* Events of different kinds or operations are different events.
LEMMA EventsDiffer ==
    ASSUME NEW k, NEW l, NEW o, NEW p, Event(k, o) = Event(l, p)
    PROVE  k = l /\ o = p
BY DEF Event

\* The oldest posted event is one.
LEMMA HeadIsEvent ==
    ASSUME StateOK, Dispatch
    PROVE  /\ posted \in Seq(Events) /\ posted # <<>>
           /\ Head(posted).op \in Ops /\ Head(posted).kind \in EventKinds
           /\ Head(posted) = Event(Head(posted).kind, Head(posted).op)
           /\ Tail(posted) \in Seq(Events)
<1>1. posted \in Seq(Events) /\ posted # <<>>
  BY DEF Dispatch, StateOK
<1>2. Head(posted) \in Events /\ Tail(posted) \in Seq(Events)
  BY <1>1
<1> QED BY <1>1, <1>2 DEF Events, EventKinds, Event

-----------------------------------------------------------------------------
(* A step that leaves an RPC alone.                                        *)

Untouched(p) ==
    /\ handler'[p] = handler[p] /\ op'[p] = op[p] /\ context'[p] = context[p]
    /\ stream'[p] # "Null" \/ deadlineTimer'[p] => stream[p] # "Null" \/ deadlineTimer[p]
    /\ \A k \in EventKinds : Contains(posted', Event(k, p)) <=> Pending(k, p)
    /\ p \in frame'.rest \cup frame'.expired => handler[p] # "None"
    /\ p \in frame'.expired => p \in frame.expired
    /\ channel' => channel

\* What is left alone keeps its part of the invariant.
LEMMA UntouchedKeeps ==
    ASSUME NEW p \in Ops, HandlerInv(p), Untouched(p)
    PROVE  HandlerInv(p)'
<1>1. "delete" \in EventKinds /\ "finished" \in EventKinds
  BY DEF EventKinds
<1> QED BY <1>1 DEF Untouched, HandlerInv, Pending

\* So a step that acts on one RPC is judged by that RPC.
LEMMA OneActs ==
    ASSUME LifeInv, NEW o \in Ops, \A p \in Ops \ {o} : Untouched(p), HandlerInv(o)',
           FrameInv'
    PROVE  LifeInv'
<1>1. ASSUME NEW p \in Ops PROVE HandlerInv(p)'
  BY UntouchedKeeps DEF LifeInv
<1> QED BY <1>1 DEF LifeInv

\* Posting for one RPC posts nothing for another.
LEMMA PostedForOthers ==
    ASSUME NEW q \in Seq(Events), NEW k \in EventKinds, NEW o \in Ops, NEW p \in Ops \ {o}, NEW l
    PROVE  /\ Contains(Post(q, k, o), Event(l, p)) <=> Contains(q, Event(l, p))
           /\ Contains(DeleteLater(q, o), Event(l, p)) <=> Contains(q, Event(l, p))
<1>1. \A m : Event(l, p) # Event(m, o)
  BY EventsDiffer
<1> QED BY <1>1, PostPending

\* Http2Handler::finish() acts on one RPC: it ends it, finds it ended, or, when
\* the owner is gone, has its handler deleted.
LEMMA FinishEffect ==
    ASSUME StateOK, NEW o \in Ops, NEW s, NEW q \in Seq(Events), Finish(o, s, q)
    PROVE  /\ \A p \in Ops \ {o} :
                  /\ handler'[p] = handler[p] /\ op'[p] = op[p]
                  /\ deadlineTimer'[p] = deadlineTimer[p]
                  /\ \A k : Contains(posted', Event(k, p)) <=> Contains(q, Event(k, p))
           /\ \A k \in {"finished", "asyncFinish"} :
                  Contains(posted', Event(k, o)) <=> Contains(q, Event(k, o))
           /\ deadlineTimer'[o] => deadlineTimer[o]
           /\ \/ context[o] # "Alive" /\ handler'[o] = "Cancelled" /\ op'[o] = op[o]
              \/ /\ context[o] = "Alive" /\ s = "Finished"
                 /\ handler'[o] = handler[o] /\ op'[o] = op[o] /\ posted' = q
              \/ /\ context[o] = "Alive" /\ s # "Finished"
                 /\ handler'[o] \in Endpoints /\ op'[o] = "Finished"
<1>1. posted' = q \/ posted' = DeleteLater(q, o)
  BY DEF Finish, HandleContextExpired, AlreadyFinished, FinishNow
<1>2. \A p \in Ops \ {o} : \A k : Contains(posted', Event(k, p)) <=> Contains(q, Event(k, p))
  <2>1. "delete" \in EventKinds
    BY DEF EventKinds
  <2> QED BY <1>1, <2>1, PostedForOthers
<1>3. \A k \in {"finished", "asyncFinish"} :
          Contains(posted', Event(k, o)) <=> Contains(q, Event(k, o))
  <2>1. \A k \in {"finished", "asyncFinish"} : Event(k, o) # Event("delete", o)
    BY DEF Event
  <2>2. "delete" \in EventKinds
    BY DEF EventKinds
  <2> QED BY <1>1, <2>1, <2>2, PostPending
<1>4. CASE HandleContextExpired(o, q)
  BY <1>2, <1>3, <1>4 DEF HandleContextExpired, StateOK
<1>5. CASE AlreadyFinished(o, s, q)
  BY <1>2, <1>3, <1>5 DEF AlreadyFinished, StateOK
<1>6. CASE FinishNow(o, s, q)
  BY <1>2, <1>3, <1>6 DEF FinishNow, EmitFinished, Endpoints, StateOK
<1> QED BY <1>4, <1>5, <1>6 DEF Finish

-----------------------------------------------------------------------------
(* LifeInv, action by action.                                              *)

\* Starting an RPC: it has a handler, or its failure is posted.
LEMMA StartKeepsLife == ASSUME StateOK, LifeInv, NEW o \in Ops, Start(o) PROVE LifeInv'
<1>1. /\ context[o] = "Unused" /\ context' = [context EXCEPT ![o] = "Alive"]
      /\ UNCHANGED <<channel, frame>>
  BY DEF Start, RefuseUnwritable, RefuseNoChannel, WaitForConnection, WaitForSettings,
         SendAtOnce, CreateFails, SendFails, chan
<1>2. /\ handler[o] = "None" /\ stream[o] = "Null" /\ ~deadlineTimer[o]
      /\ \A k \in EventKinds : ~Pending(k, o)
      /\ o \notin frame.rest \cup frame.expired
  BY <1>1 DEF LifeInv, HandlerInv, StateOK
<1>3. posted \in Seq(Events)
  BY DEF StateOK
<1>4. "finished" \in EventKinds /\ "asyncFinish" \in EventKinds /\ "delete" \in EventKinds
  BY DEF EventKinds
<1>5. CASE /\ posted' = Post(posted, "finished", o)
           /\ op' = op \/ op' = [op EXCEPT ![o] = "Valid"]
           /\ UNCHANGED <<handler, stream, deadlineTimer>>
  <2>1. \A p \in Ops \ {o} : Untouched(p)
    BY <1>1, <1>3, <1>4, <1>5, PostedForOthers DEF Untouched, LifeInv, HandlerInv, Pending, StateOK
  <2>2. \A k \in EventKinds : Contains(posted', Event(k, o)) <=> k = "finished"
    <3>1. \A k \in EventKinds : Event(k, o) = Event("finished", o) <=> k = "finished"
      BY DEF Event
    <3> QED BY <1>2, <1>3, <1>4, <1>5, <3>1, PostPending DEF Pending
  <2>3. HandlerInv(o)'
    <3>1. context'[o] = "Alive"
      BY <1>1 DEF StateOK
    <3>2. handler'[o] = "None" /\ stream'[o] = "Null" /\ ~deadlineTimer'[o]
      BY <1>2, <1>5
    <3> QED BY <1>1, <1>2, <1>4, <2>2, <3>1, <3>2 DEF HandlerInv, Pending
  <2> QED BY <1>1, <2>1, <2>3, OneActs DEF LifeInv, FrameInv
<1>6. CASE /\ posted' = posted \/ posted' = Post(posted, "asyncFinish", o)
           /\ \E h \in {"Idle", "RequestHeadersSent"} : handler' = [handler EXCEPT ![o] = h]
           /\ op' = [op EXCEPT ![o] = "Valid"]
           /\ stream' = stream \/ \E t : stream' = [stream EXCEPT ![o] = t]
           /\ deadlineTimer' = deadlineTimer \/ \E t : deadlineTimer' = [deadlineTimer EXCEPT ![o] = t]
  <2>1. \A p \in Ops \ {o} : Untouched(p)
    <3>1. \A p \in Ops \ {o}, k \in EventKinds :
              Contains(posted', Event(k, p)) <=> Contains(posted, Event(k, p))
      BY <1>3, <1>4, <1>6, PostedForOthers
    <3> QED BY <1>1, <1>6, <3>1 DEF Untouched, LifeInv, HandlerInv, Pending, StateOK
  <2>2. \A k \in EventKinds \ {"asyncFinish"} : ~Contains(posted', Event(k, o))
    <3>1. \A k \in EventKinds \ {"asyncFinish"} : Event(k, o) # Event("asyncFinish", o)
      BY DEF Event
    <3> QED BY <1>2, <1>3, <1>4, <1>6, <3>1, PostPending DEF Pending
  <2>3. HandlerInv(o)'
    <3>1. context'[o] = "Alive" /\ op'[o] = "Valid"
      BY <1>1, <1>6 DEF StateOK
    <3>2. handler'[o] # "None" /\ handler'[o] \notin Endpoints
      BY <1>6 DEF StateOK, Endpoints
    <3> QED BY <1>1, <1>2, <1>4, <2>2, <3>1, <3>2 DEF HandlerInv, Pending
  <2> QED BY <1>1, <2>1, <2>3, OneActs DEF LifeInv, FrameInv
<1> QED BY <1>5, <1>6
        DEF Start, RefuseUnwritable, RefuseNoChannel, WaitForConnection, WaitForSettings,
            SendAtOnce, CreateFails, SendFails, StartDeadline

\* finish() called on a handler there is: by cancel(), a deadline, the peer, a
\* posted failure or a loop over the handlers.
LEMMA FinishKeepsLife ==
    ASSUME StateOK, LifeInv, NEW o \in Ops, NEW s, NEW q \in Seq(Events), Finish(o, s, q),
           handler[o] # "None",
           s = "Finished" => handler[o] \in Endpoints,
           \A k, p : Contains(q, Event(k, p)) => Pending(k, p),
           \A k, p : p # o /\ Pending(k, p) => Contains(q, Event(k, p)),
           UNCHANGED <<channel, context>>,
           \A p \in Ops : stream'[p] # "Null" => stream[p] # "Null",
           \A p \in frame'.rest : p \in frame.rest,
           frame'.expired \subseteq frame.expired,
           frame'.kind = frame.kind \/ frame' = NoFrame
    PROVE  LifeInv'
<1>1. \A p \in Ops \ {o} : Untouched(p)
  BY FinishEffect DEF Untouched, LifeInv, HandlerInv
<1>2. HandlerInv(o)'
  <2>1. "finished" \in EventKinds /\ "delete" \in EventKinds
    BY DEF EventKinds
  <2>2. ~Contains(posted', Event("finished", o))
    BY <2>1, FinishEffect DEF LifeInv, HandlerInv
  <2>3. handler'[o] # "None" /\ context'[o] # "Unused"
    BY FinishEffect DEF LifeInv, HandlerInv, Endpoints
  <2>4. o \in frame'.expired => context'[o] = "Destroyed"
    BY DEF LifeInv, HandlerInv
  <2>5. context'[o] = "Alive" => handler'[o] \in Endpoints /\ op'[o] = "Finished"
    BY FinishEffect DEF LifeInv, HandlerInv
  <2> QED BY <2>2, <2>3, <2>4, <2>5 DEF HandlerInv, Pending
<1>3. FrameInv'
  BY DEF LifeInv, FrameInv, NoFrame, StateOK
<1> QED BY <1>1, <1>2, <1>3, OneActs

\* cancelWithStatus(), asked for by the user or by the deadline.
LEMMA CancelKeepsLife ==
    ASSUME StateOK, LifeInv, NEW o \in Ops, Cancel(o) \/ DeadlineFires(o)
    PROVE  LifeInv'
<1>1. /\ handler[o] # "None"
      /\ CancelWithStatus(o) /\ UNCHANGED <<channel, context, frame>>
  BY DEF Cancel, DeadlineFires, LifeInv, HandlerInv, chan
<1>2. posted \in Seq(Events) /\ Finish(o, "Cancelled", posted)
  BY <1>1 DEF CancelWithStatus, StateOK
<1>3. \A p \in Ops : stream'[p] # "Null" => stream[p] # "Null"
  BY <1>1 DEF CancelWithStatus, StateOK
<1> QED BY <1>1, <1>2, <1>3, FinishKeepsLife DEF Pending

\* The owner destroys the operation: its handler is to be deleted.
LEMMA DestroyKeepsLife == ASSUME StateOK, LifeInv, NEW o \in Ops, Destroy(o) PROVE LifeInv'
<1>1. /\ context[o] = "Alive" /\ context' = [context EXCEPT ![o] = "Destroyed"]
      /\ UNCHANGED <<channel, frame, handler, stream, deadlineTimer, op>>
      /\ posted' = posted \/ posted' = DeleteLater(posted, o)
  BY DEF Destroy, chan
<1>2. posted \in Seq(Events) /\ "delete" \in EventKinds /\ "finished" \in EventKinds
  BY DEF StateOK, EventKinds
<1>3. \A p \in Ops \ {o} : Untouched(p)
  BY <1>1, <1>2, PostedForOthers DEF Untouched, LifeInv, HandlerInv, Pending, StateOK
<1>4. HandlerInv(o)'
  <2>1. context'[o] = "Destroyed"
    BY <1>1 DEF StateOK
  <2>2. Contains(posted', Event("finished", o)) => Pending("finished", o)
    <3>1. Event("finished", o) # Event("delete", o)
      BY DEF Event
    <3> QED BY <1>1, <1>2, <3>1, PostPending DEF Pending
  <2> QED BY <1>1, <2>1, <2>2 DEF LifeInv, HandlerInv, Pending
<1> QED BY <1>1, <1>3, <1>4, OneActs DEF LifeInv, FrameInv

\* A posted event is delivered.
LEMMA DispatchKeepsLife == ASSUME StateOK, LifeInv, Dispatch PROVE LifeInv'
<1>1. PICK o \in Ops, kind \in EventKinds : Head(posted) = Event(kind, o)
  BY HeadIsEvent
<1> DEFINE e == Event(kind, o)
<1>2. /\ posted \in Seq(Events) /\ posted # <<>> /\ Tail(posted) \in Seq(Events)
      /\ UNCHANGED <<channel, context, frame>> /\ frame.kind = "none"
  BY HeadIsEvent DEF Dispatch, EventLoop, chan
<1>3. \A k, p : Pending(k, p) <=> Event(k, p) = e \/ Contains(Tail(posted), Event(k, p))
  BY <1>1, <1>2, TailPending DEF Pending
<1>4. \A k, p : Event(k, p) = e <=> k = kind /\ p = o
  BY EventsDiffer
<1>5. Pending(kind, o)
  BY <1>3
<1>6. CASE handler[o] # "None" /\ Finish(o, handler[o], Tail(posted)) /\ UNCHANGED stream
  <2>1. \A k, p : Contains(Tail(posted), Event(k, p)) => Pending(k, p)
    BY <1>3
  <2>2. \A k, p : p # o /\ Pending(k, p) => Contains(Tail(posted), Event(k, p))
    BY <1>3, <1>4
  <2>3. handler[o] = "Finished" => handler[o] \in Endpoints
    BY DEF Endpoints
  <2> QED BY <1>2, <1>6, <2>1, <2>2, <2>3, FinishKeepsLife
<1>7. CASE /\ posted' = Tail(posted) /\ UNCHANGED <<handler, stream, deadlineTimer, op>>
           /\ kind = "finished" => context[o] # "Alive"
  <2>1. \A p \in Ops \ {o} : Untouched(p)
    BY <1>2, <1>3, <1>4, <1>7 DEF Untouched, LifeInv, HandlerInv
  <2>2. \A k : Contains(posted', Event(k, o)) => Pending(k, o)
    BY <1>3, <1>7
  <2>3. context[o] = "Alive" /\ Pending("finished", o) => Contains(posted', Event("finished", o))
    BY <1>1, <1>3, <1>7, EventsDiffer
  <2>4. HandlerInv(o)'
    <3>1. HandlerInv(o)
      BY <1>1 DEF LifeInv
    <3>2. /\ context'[o] = context[o] /\ handler'[o] = handler[o] /\ op'[o] = op[o]
          /\ stream'[o] = stream[o] /\ deadlineTimer'[o] = deadlineTimer[o]
          /\ frame' = frame /\ channel' = channel
      BY <1>2, <1>7
    <3> QED BY <2>2, <2>3, <3>1, <3>2 DEF HandlerInv, Pending
  <2> QED BY <1>1, <1>2, <2>1, <2>4, OneActs DEF LifeInv, FrameInv
<1>8. CASE /\ kind = "finished" /\ op' = [op EXCEPT ![o] = "Finished"]
           /\ posted' = Tail(posted) /\ UNCHANGED <<handler, stream, deadlineTimer>>
  <2>1. \A p \in Ops \ {o} : Untouched(p)
    BY <1>1, <1>2, <1>3, <1>4, <1>8 DEF Untouched, LifeInv, HandlerInv, StateOK
  <2>2. \A k : Contains(posted', Event(k, o)) => Pending(k, o)
    BY <1>3, <1>8
  <2>3. HandlerInv(o)'
    <3>1. handler'[o] = "None" /\ op'[o] = "Finished"
      BY <1>1, <1>5, <1>8 DEF LifeInv, HandlerInv, StateOK
    <3> QED BY <1>1, <1>2, <1>8, <2>2, <3>1 DEF LifeInv, HandlerInv, Pending
  <2> QED BY <1>1, <1>2, <2>1, <2>3, OneActs DEF LifeInv, FrameInv
<1>9. CASE /\ kind = "delete" /\ UNCHANGED op
           /\ handler' = [handler EXCEPT ![o] = "None"]
           /\ stream' = [stream EXCEPT ![o] = "Null"]
           /\ deadlineTimer' = [deadlineTimer EXCEPT ![o] = FALSE]
           /\ posted' = Tail(posted)
  <2>1. o \notin frame.rest \cup frame.expired
    BY <1>2 DEF LifeInv, FrameInv
  <2>2. \A p \in Ops \ {o} : Untouched(p)
    BY <1>1, <1>2, <1>3, <1>4, <1>9 DEF Untouched, LifeInv, HandlerInv, StateOK
  <2>3. \A k : Contains(posted', Event(k, o)) => Pending(k, o)
    BY <1>3, <1>9
  <2>4. HandlerInv(o)'
    <3>1. handler'[o] = "None" /\ stream'[o] = "Null" /\ ~deadlineTimer'[o]
      BY <1>1, <1>9 DEF StateOK
    <3>2. context[o] = "Alive" => op[o] = "Finished"
      BY <1>1, <1>5, <1>9 DEF LifeInv, HandlerInv
    <3> QED BY <1>1, <1>2, <1>9, <2>1, <2>3, <3>1, <3>2 DEF LifeInv, HandlerInv, Pending
  <2> QED BY <1>1, <1>2, <2>2, <2>4, OneActs DEF LifeInv, FrameInv
<1>10. Head(posted).kind = kind /\ Head(posted).op = o
  BY <1>1 DEF Event
<1> QED BY <1>6, <1>7, <1>8, <1>9, <1>10
        DEF Dispatch, DispatchVoid, DispatchFinished, DispatchAsyncFinish, DispatchDelete, Void,
            EmitFinished

\* The steps of a handler that do not end its RPC: it gets its stream, sends its
\* headers, receives frames, or has a failure or its deletion posted.
LEMMA ServingKeepsLife ==
    ASSUME StateOK, LifeInv, NEW o \in Ops, handler[o] # "None",
           UNCHANGED <<channel, context, op>>,
           \/ handler' = handler
           \/ /\ handler[o] \notin Endpoints
              /\ \E h \in {"RequestHeadersSent", "Active"} : handler' = [handler EXCEPT ![o] = h],
           \A p \in Ops \ {o} : stream'[p] = stream[p] /\ deadlineTimer'[p] = deadlineTimer[p],
           \/ posted' = posted
           \/ posted' = Post(posted, "asyncFinish", o)
           \/ handler[o] \in Endpoints /\ posted' = DeleteLater(posted, o),
           frame'.rest \subseteq frame.rest \cup {o},
           frame'.expired \subseteq frame.expired,
           FrameInv'
    PROVE  LifeInv'
<1>1. posted \in Seq(Events)
  BY DEF StateOK
<1>2. "finished" \in EventKinds /\ "asyncFinish" \in EventKinds /\ "delete" \in EventKinds
  BY DEF EventKinds
<1>3. \A p \in Ops \ {o} : Untouched(p)
  <2>1. \A p \in Ops \ {o} : \A k : Contains(posted', Event(k, p)) <=> Pending(k, p)
    BY <1>1, <1>2, PostedForOthers DEF Pending
  <2>2. \A p \in Ops \ {o} : handler'[p] = handler[p]
    BY DEF StateOK
  <2> QED BY <2>1, <2>2 DEF Untouched, LifeInv, HandlerInv
<1>4. HandlerInv(o)'
  <2>1. HandlerInv(o)
    BY DEF LifeInv
  <2>2. handler'[o] # "None" /\ (handler'[o] \in Endpoints <=> handler[o] \in Endpoints)
    BY DEF StateOK, Endpoints
  <2>3. Contains(posted', Event("finished", o)) => Pending("finished", o)
    <3>1. \A k \in {"asyncFinish", "delete"} : Event("finished", o) # Event(k, o)
      BY DEF Event
    <3> QED BY <1>1, <1>2, <3>1, PostPending DEF Pending
  <2>4. Contains(posted', Event("delete", o)) => Pending("delete", o) \/ handler[o] \in Endpoints
    <3>1. Event("delete", o) # Event("asyncFinish", o)
      BY DEF Event
    <3> QED BY <1>1, <1>2, <3>1, PostPending DEF Pending
  <2> QED BY <2>1, <2>2, <2>3, <2>4 DEF HandlerInv, Pending
<1> QED BY <1>3, <1>4, OneActs

\* A loop finds a handler expired: its owner has destroyed the operation.
LEMMA SkipKeepsLife ==
    ASSUME StateOK, LifeInv, NEW o \in frame.rest, SkipExpired(o), UNCHANGED <<channel, context>>
    PROVE  LifeInv'
<1>1. o \in Ops /\ HandlerInv(o)
  BY DEF StateOK, LifeInv
<1>2. context[o] = "Destroyed"
  BY <1>1 DEF SkipExpired, HandlerInv, StateOK
<1>3. /\ frame'.kind = frame.kind /\ frame'.rest = frame.rest \ {o}
      /\ frame'.expired = frame.expired \cup {o}
      /\ UNCHANGED <<handler, stream, deadlineTimer, op, posted>>
  BY DEF SkipExpired, StateOK
<1>4. FrameInv'
  BY <1>3 DEF LifeInv, FrameInv
<1>5. \A p \in Ops \ {o} : Untouched(p)
  BY <1>3 DEF Untouched, LifeInv, HandlerInv, Pending
<1>6. HandlerInv(o)'
  BY <1>1, <1>2, <1>3 DEF HandlerInv, Pending
<1> QED BY <1>1, <1>4, <1>5, <1>6, OneActs

\* The loops over the handlers.
LEMMA LoopKeepsLife ==
    ASSUME StateOK, LifeInv, ConnectLoopStep \/ SettingsLoopStep \/ ErrorLoopStep
    PROVE  LifeInv'
<1>1. UNCHANGED <<channel, context>>
  BY DEF ConnectLoopStep, SettingsLoopStep, ErrorLoopStep, chan
<1>2. ASSUME NEW o \in frame.rest PROVE o \in Ops /\ handler[o] # "None" /\ frame.kind # "none"
  BY <1>2 DEF StateOK, LifeInv, HandlerInv, FrameInv
<1>3. ASSUME NEW o \in frame.rest, CreateHttp2Stream(o), frame' = [frame EXCEPT !.rest = @ \ {o}],
             UNCHANGED <<handler, op>>, UNCHANGED deadlineTimer
      PROVE  LifeInv'
  <2>1. \A p \in Ops \ {o} : stream'[p] = stream[p]
    BY <1>3 DEF CreateHttp2Stream, StateOK
  <2>2. frame'.kind = frame.kind /\ frame'.rest \subseteq frame.rest /\ frame'.expired = frame.expired
    BY <1>3 DEF StateOK
  <2>3. FrameInv'
    BY <1>1, <2>2 DEF LifeInv, FrameInv
  <2>4. posted' = posted \/ posted' = Post(posted, "asyncFinish", o)
    BY <1>3 DEF CreateHttp2Stream
  <2> QED BY <1>1, <1>2, <1>3, <2>1, <2>2, <2>3, <2>4, ServingKeepsLife
<1>4. ASSUME NEW o \in frame.rest, SendInitialRequest(o), frame' = [frame EXCEPT !.rest = @ \ {o}],
             UNCHANGED op
      PROVE  LifeInv'
  <2>1. \A p \in Ops \ {o} : stream'[p] = stream[p] /\ deadlineTimer'[p] = deadlineTimer[p]
    BY <1>4 DEF SendInitialRequest, StartDeadline, StateOK
  <2>2. frame'.kind = frame.kind /\ frame'.rest \subseteq frame.rest /\ frame'.expired = frame.expired
    BY <1>4 DEF StateOK
  <2>3. FrameInv'
    BY <1>1, <2>2 DEF LifeInv, FrameInv
  <2>4. /\ posted' = posted \/ posted' = Post(posted, "asyncFinish", o)
        /\ \/ handler' = handler
           \/ /\ handler[o] \notin Endpoints
              /\ \E h \in {"RequestHeadersSent", "Active"} : handler' = [handler EXCEPT ![o] = h]
    BY <1>4 DEF SendInitialRequest
  <2> QED BY <1>1, <1>2, <1>4, <2>1, <2>2, <2>3, <2>4, ServingKeepsLife
<1>5. ASSUME NEW o \in frame.rest, Finish(o, handler[o], posted), UNCHANGED stream,
             frame' = [frame EXCEPT !.rest = @ \ {o}, !.slot = (emitted' # emitted)]
      PROVE  LifeInv'
  <2>1. frame'.kind = frame.kind /\ frame'.rest \subseteq frame.rest /\ frame'.expired = frame.expired
    BY <1>5 DEF StateOK
  <2>2. handler[o] = "Finished" => handler[o] \in Endpoints
    BY DEF Endpoints
  <2>3. posted \in Seq(Events)
    BY DEF StateOK
  <2> QED BY <1>1, <1>2, <1>5, <2>1, <2>2, <2>3, FinishKeepsLife DEF Pending
<1>6. CASE ConnectLoopStep
  BY <1>1, <1>3, <1>6, SkipKeepsLife DEF ConnectLoopStep
<1>7. CASE SettingsLoopStep
  BY <1>1, <1>4, <1>7, SkipKeepsLife DEF SettingsLoopStep
<1>8. CASE ErrorLoopStep
  BY <1>1, <1>5, <1>8, SkipKeepsLife DEF ErrorLoopStep
<1> QED BY <1>6, <1>7, <1>8

\* A loop starts over the handlers there are.
LEMMA EnterKeepsLife ==
    ASSUME StateOK, LifeInv, NEW kind \in {"connect", "settings", "error", "teardown"}, Enter(kind),
           UNCHANGED <<rpc, posted>>, channel' => channel, kind = "teardown" => ~channel'
    PROVE  LifeInv'
<1>1. frame'.kind = kind /\ frame'.rest = Handlers /\ frame'.expired = {}
  BY DEF Enter, NoFrame
<1>2. \A p \in Ops : Untouched(p)
  BY <1>1 DEF Untouched, Handlers, Pending, rpc
<1>3. FrameInv'
  BY <1>1 DEF FrameInv
<1> QED BY <1>2, <1>3, UntouchedKeeps DEF LifeInv

\* The connection, its timers, and the ends of the loops.
LEMMA ConnectionKeepsLife ==
    ASSUME StateOK, LifeInv,
           \/ SocketConnected \/ SettingsFrameReceived \/ SocketErrorOccurred
           \/ ConnectTimeoutFires \/ ReconnectTimerFires \/ DestroyChannel
           \/ SettingsLoopEnd \/ ErrorLoopEnd \/ TeardownEnd
    PROVE  LifeInv'
<1>1. CASE SocketConnected
  BY <1>1, EnterKeepsLife DEF SocketConnected
<1>2. CASE SettingsFrameReceived
  BY <1>2, EnterKeepsLife DEF SettingsFrameReceived
<1>3. CASE SocketErrorOccurred
  BY <1>3, EnterKeepsLife DEF SocketErrorOccurred
<1>4. CASE ConnectTimeoutFires
  BY <1>4, EnterKeepsLife DEF ConnectTimeoutFires
<1>5. CASE DestroyChannel
  BY <1>5, EnterKeepsLife DEF DestroyChannel
<1>6. CASE ReconnectTimerFires
  <2>1. UNCHANGED <<channel, rpc, posted, frame>>
    BY <1>6 DEF ReconnectTimerFires
  <2> QED BY <2>1 DEF LifeInv, FrameInv, HandlerInv, Pending, rpc
<1>7. CASE SettingsLoopEnd \/ ErrorLoopEnd
  <2>1. /\ UNCHANGED <<channel, context, op, posted>> /\ frame' = NoFrame
        /\ DeleteExpired
        /\ \A p \in Ops : stream'[p] = "Null" \/ (stream'[p] = stream[p] /\ p \notin frame.expired)
    BY <1>7 DEF SettingsLoopEnd, ErrorLoopEnd, StreamsDeleted, chan
  <2>2. FrameInv' /\ frame'.rest = {} /\ frame'.expired = {}
    BY <2>1 DEF FrameInv, NoFrame
  <2>3. ASSUME NEW p \in Ops PROVE HandlerInv(p)'
    <3>1. HandlerInv(p)
      BY DEF LifeInv
    <3>2. CASE p \in frame.expired
      <4>1. context[p] = "Destroyed" /\ handler'[p] = "None" /\ stream'[p] = "Null" /\ ~deadlineTimer'[p]
        BY <2>1, <3>1, <3>2 DEF HandlerInv, DeleteExpired
      <4> QED BY <2>1, <2>2, <4>1 DEF HandlerInv
    <3>3. CASE p \notin frame.expired
      <4>1. handler'[p] = handler[p] /\ (deadlineTimer'[p] => deadlineTimer[p])
        BY <2>1, <3>3 DEF DeleteExpired
      <4> QED BY <2>1, <2>2, <3>1, <4>1 DEF HandlerInv, Pending
    <3> QED BY <3>2, <3>3
  <2> QED BY <2>2, <2>3 DEF LifeInv
<1>8. CASE TeardownEnd
  <2>1. /\ UNCHANGED <<channel, context, op, posted>> /\ frame' = NoFrame /\ ~channel
        /\ \A p \in Ops : handler'[p] = "None" /\ stream'[p] = "Null" /\ ~deadlineTimer'[p]
    BY <1>8 DEF TeardownEnd, StreamsDeleted, LifeInv, FrameInv
  <2>2. FrameInv' /\ frame'.rest = {} /\ frame'.expired = {}
    BY <2>1 DEF FrameInv, NoFrame
  <2>3. ASSUME NEW p \in Ops PROVE HandlerInv(p)'
    <3>1. HandlerInv(p)
      BY DEF LifeInv
    <3> QED BY <2>1, <2>2, <3>1 DEF HandlerInv, Pending
  <2> QED BY <2>2, <2>3 DEF LifeInv
<1> QED BY <1>1, <1>2, <1>3, <1>4, <1>5, <1>6, <1>7, <1>8

\* The peer's frames on a stream, which belongs to a handler.
LEMMA PeerKeepsLife ==
    ASSUME StateOK, LifeInv, NEW o \in Ops, NEW endStream, NEW valid, NEW batch, NEW tail,
           \/ StreamErrorOccurred(o) \/ HeadersReceived(o, endStream, valid)
           \/ DataReceived(o, batch, tail)
    PROVE  LifeInv'
<1>1. /\ handler[o] # "None" /\ UNCHANGED <<channel, context>>
      /\ frame.kind = "none" /\ frame.rest = {} /\ frame.expired = {}
  BY DEF StreamErrorOccurred, HeadersReceived, DataReceived, LifeInv, HandlerInv, FrameInv,
         EventLoop, chan
<1>2. posted \in Seq(Events) /\ (handler[o] = "Finished" => handler[o] \in Endpoints)
  BY DEF StateOK, Endpoints
<1>3. /\ \A p \in Ops : stream'[p] # "Null" => stream[p] # "Null"
      /\ \A p \in Ops \ {o} : stream'[p] = stream[p]
  BY DEF StreamErrorOccurred, HeadersReceived, DataReceived, CloseIf, StateOK
<1>4. ASSUME NEW s, Finish(o, s, posted), UNCHANGED frame,
             s = "Finished" => handler[o] \in Endpoints
      PROVE  LifeInv'
  BY <1>1, <1>2, <1>3, <1>4, FinishKeepsLife DEF Pending
<1>5. ASSUME UNCHANGED <<deadlineTimer, op, frame>>,
             \/ handler' = handler
             \/ /\ handler[o] \notin Endpoints
                /\ \E h \in {"RequestHeadersSent", "Active"} : handler' = [handler EXCEPT ![o] = h],
             \/ posted' = posted
             \/ handler[o] \in Endpoints /\ posted' = DeleteLater(posted, o)
      PROVE  LifeInv'
  <2>1. FrameInv' /\ frame'.rest \subseteq frame.rest \cup {o} /\ frame'.expired \subseteq frame.expired
    BY <1>1, <1>5 DEF LifeInv, FrameInv
  <2> QED BY <1>1, <1>3, <1>5, <2>1, ServingKeepsLife
<1>6. CASE StreamErrorOccurred(o)
  BY <1>2, <1>4, <1>6 DEF StreamErrorOccurred
<1>7. CASE HeadersReceived(o, endStream, valid)
  <2>1. CASE FinalHeaders(o, endStream, valid)
    BY <1>4, <1>7, <2>1 DEF FinalHeaders, HeadersReceived
  <2>2. CASE IgnoreHeaders(o)
    BY <1>5, <1>7, <2>2 DEF IgnoreHeaders, HeadersReceived
  <2>3. CASE UnexpectedHeaders(o, endStream)
    BY <1>5, <1>7, <2>3 DEF UnexpectedHeaders, HeadersReceived
  <2>4. CASE InitialHeaders(o, endStream, valid)
    BY <1>5, <1>7, <2>4 DEF InitialHeaders, HeadersReceived, Endpoints
  <2> QED BY <1>7, <2>1, <2>2, <2>3, <2>4 DEF HeadersReceived
<1>8. CASE DataReceived(o, batch, tail)
  <2>1. CASE DataTail(o, tail) /\ UNCHANGED frame
    <3>1. CASE Finish(o, handler[o], posted)
      BY <1>2, <1>4, <2>1, <3>1
    <3>2. CASE UNCHANGED <<handler, deadlineTimer, op, posted>>
      BY <1>5, <2>1, <3>2
    <3> QED BY <2>1, <3>1, <3>2 DEF DataTail
  <2>2. CASE UNCHANGED <<handler, deadlineTimer, op, posted, frame>>
    BY <1>5, <2>2
  <2>3. CASE /\ UNCHANGED <<handler, deadlineTimer, op, posted>>
             /\ frame' = [NoFrame EXCEPT !.kind = "data", !.rest = {o},
                                         !.batch = batch - 1, !.tail = tail, !.slot = TRUE]
    <3>1. FrameInv' /\ frame'.rest = {o} /\ frame'.expired = {}
      BY <2>3 DEF FrameInv, NoFrame
    <3> QED BY <1>1, <1>3, <2>3, <3>1, ServingKeepsLife
  <2> QED BY <1>8, <2>1, <2>2, <2>3 DEF DataReceived
<1> QED BY <1>6, <1>7, <1>8

\* The slot of messageReceived returns to a handler that is still there.
LEMMA DataStepKeepsLife == ASSUME StateOK, LifeInv, DataStep PROVE LifeInv'
<1>1. PICK o \in frame.rest :
         \/ /\ frame' = [frame EXCEPT !.batch = @ - 1] \/ frame' = NoFrame
            /\ UNCHANGED <<handler, deadlineTimer, op, posted>>
         \/ DataTail(o, frame.tail) /\ frame' = NoFrame
  BY DEF DataStep
<1>2. /\ o \in Ops /\ handler[o] # "None" /\ UNCHANGED <<channel, context, stream>>
      /\ posted \in Seq(Events) /\ (handler[o] = "Finished" => handler[o] \in Endpoints)
  BY DEF DataStep, StateOK, LifeInv, HandlerInv, chan, Endpoints
<1>3. /\ FrameInv' /\ frame'.rest \subseteq frame.rest /\ frame'.expired \subseteq frame.expired
      /\ frame'.kind = frame.kind \/ frame' = NoFrame
  <2>1. CASE frame' = [frame EXCEPT !.batch = @ - 1]
    <3>1. /\ frame'.rest = frame.rest /\ frame'.expired = frame.expired
          /\ frame'.kind = frame.kind
      BY <2>1 DEF StateOK
    <3> QED BY <1>2, <3>1 DEF LifeInv, FrameInv
  <2>2. CASE frame' = NoFrame
    BY <2>2 DEF FrameInv, NoFrame
  <2> QED BY <1>1, <2>1, <2>2
<1>4. CASE Finish(o, handler[o], posted)
  BY <1>2, <1>3, <1>4, FinishKeepsLife DEF Pending
<1>5. CASE UNCHANGED <<handler, deadlineTimer, op, posted>>
  BY <1>2, <1>3, <1>5, ServingKeepsLife
<1> QED BY <1>1, <1>4, <1>5 DEF DataTail

\* Every step keeps LifeInv.
LEMMA StepLife == ASSUME StateOK, LifeInv, [Next]_vars PROVE LifeInv'
<1>1. CASE User
  BY <1>1, StartKeepsLife, CancelKeepsLife, DestroyKeepsLife DEF User
<1>2. CASE Peer
  BY <1>2, ConnectionKeepsLife, PeerKeepsLife DEF Peer
<1>3. CASE Library
  BY <1>3, DispatchKeepsLife, LoopKeepsLife, ConnectionKeepsLife, DataStepKeepsLife,
     CancelKeepsLife DEF Library
<1>4. CASE DestroyChannel
  BY <1>4, ConnectionKeepsLife
<1>5. CASE UNCHANGED vars
  <2>1. UNCHANGED <<channel, handler, stream, deadlineTimer, context, op, posted, frame>>
    BY <1>5 DEF vars, chan, rpc
  <2> QED BY <2>1 DEF LifeInv, FrameInv, HandlerInv, Pending
<1> QED BY <1>1, <1>2, <1>3, <1>4, <1>5 DEF Next

\* The handlers, the operations and the posted events always agree.
LEMMA LifeInvariant == Spec => []LifeInv
<1>1. Init => LifeInv
  <2> SUFFICES ASSUME Init PROVE LifeInv
    OBVIOUS
  <2>1. \A k, o : ~Pending(k, o)
    BY DEF Init, Pending, Contains
  <2>2. FrameInv /\ frame.rest = {} /\ frame.expired = {}
    BY DEF Init, FrameInv, NoFrame
  <2> QED BY <2>1, <2>2 DEF Init, LifeInv, HandlerInv
<1>2. StateOK /\ LifeInv /\ [Next]_vars => LifeInv'
  BY StepLife
<1> QED BY <1>1, <1>2, StateTyped, PTL DEF Spec

-----------------------------------------------------------------------------
(* NoHandlerLost.  The lambda of asyncFinish() holds the handler without   *)
(* owning it.  It is safe because the queue is in order: what deletes the  *)
(* handler is posted only when its RPC has finished, and a failure only    *)
(* while it has not.                                                       *)

\* Posting keeps the order, unless it posts a failure after the deletion.
LEMMA PostOrdered ==
    ASSUME NEW q \in Seq(Events), NEW o \in Ops, NEW p \in Ops, NEW k \in EventKinds, Ordered(q, o),
           k = "asyncFinish" /\ p = o => ~Contains(q, Event("delete", o))
    PROVE  Ordered(Post(q, k, p), o)
<1> DEFINE r == Post(q, k, p)
<1>1. /\ Len(r) = Len(q) + 1 /\ Len(q) \in Nat
      /\ r[Len(q) + 1] = Event(k, p) /\ \A i \in 1 .. Len(q) : r[i] = q[i]
  <2>1. Event(k, p) \in Events
    BY DEF Event, Events, EventKinds
  <2> QED BY <2>1 DEF Post
<1> HIDE DEF r
<1> SUFFICES ASSUME NEW i \in 1 .. Len(r), NEW j \in 1 .. Len(r),
                    r[i] = Event("delete", o), r[j] = Event("asyncFinish", o)
             PROVE  j < i
  BY DEF Ordered, r
<1>2. CASE i \in 1 .. Len(q) /\ j \in 1 .. Len(q)
  BY <1>1, <1>2 DEF Ordered
<1>3. CASE i \in 1 .. Len(q) /\ j = Len(q) + 1
  <2>1. k = "asyncFinish" /\ p = o
    BY <1>1, <1>3, EventsDiffer
  <2>2. Contains(q, Event("delete", o))
    BY <1>1, <1>3 DEF Contains
  <2> QED BY <2>1, <2>2
<1>4. CASE i = Len(q) + 1
  <2>1. r[i] # r[j]
    BY DEF Event
  <2> QED BY <1>1, <1>4, <2>1
<1> QED BY <1>1, <1>2, <1>3, <1>4

\* Delivering the oldest event keeps the order; a deletion delivered first has
\* no failure behind it.
LEMMA TailOrdered ==
    ASSUME NEW q \in Seq(Events), q # <<>>, NEW o \in Ops, Ordered(q, o)
    PROVE  /\ Ordered(Tail(q), o)
           /\ Head(q) = Event("delete", o) => ~Contains(q, Event("asyncFinish", o))
<1>1. Len(q) \in Nat \ {0} /\ Len(Tail(q)) = Len(q) - 1 /\ Head(q) = q[1]
  OBVIOUS
<1>2. \A i \in 1 .. Len(q) - 1 : Tail(q)[i] = q[i + 1]
  OBVIOUS
<1>3. Ordered(Tail(q), o)
  <2> SUFFICES ASSUME NEW i \in 1 .. Len(q) - 1, NEW j \in 1 .. Len(q) - 1,
                      Tail(q)[i] = Event("delete", o), Tail(q)[j] = Event("asyncFinish", o)
               PROVE  j < i
    BY <1>1 DEF Ordered
  <2>1. /\ i + 1 \in 1 .. Len(q) /\ j + 1 \in 1 .. Len(q)
        /\ q[i + 1] = Event("delete", o) /\ q[j + 1] = Event("asyncFinish", o)
    BY <1>1, <1>2
  <2>2. j + 1 < i + 1
    BY <2>1 DEF Ordered
  <2> QED BY <2>2
<1>4. ASSUME Head(q) = Event("delete", o), NEW j \in 1 .. Len(q), q[j] = Event("asyncFinish", o)
      PROVE  FALSE
  <2>1. j < 1
    BY <1>1, <1>4 DEF Ordered
  <2> QED BY <2>1
<1> QED BY <1>3, <1>4 DEF Contains

\* A step that posts at most one event, a failure only for a handler that is
\* not to be deleted, and that lets go of no handler it should keep.
LEMMA PostKeepsQueue ==
    ASSUME StateOK, LifeInv, QueueInv, NEW o \in Ops,
           channel' => channel,
           \A p \in Ops : context'[p] = "Alive" => context[p] \in {"Alive", "Unused"},
           \A p \in Ops : channel' /\ context'[p] = "Alive" /\ handler'[p] = "None" => handler[p] = "None",
           \/ posted' = posted
           \/ posted' = DeleteLater(posted, o)
           \/ posted' = Post(posted, "finished", o)
           \/ posted' = Post(posted, "asyncFinish", o) /\ ~Pending("delete", o) /\ handler'[o] # "None"
    PROVE  QueueInv'
<1>1. posted \in Seq(Events) /\ \A k \in {"delete", "finished", "asyncFinish"} : k \in EventKinds
  BY DEF StateOK, EventKinds
<1> SUFFICES ASSUME NEW p \in Ops, context'[p] = "Alive"
             PROVE  /\ Ordered(posted', p)
                    /\ channel' /\ Contains(posted', Event("asyncFinish", p)) => handler'[p] # "None"
  BY DEF QueueInv, FailureBeforeDeletion, Pending
<1>2. context[p] = "Unused" => \A k \in EventKinds : ~Pending(k, p)
  BY DEF LifeInv, HandlerInv
<1>3. Ordered(posted, p)
  BY <1>1, <1>2 DEF QueueInv, FailureBeforeDeletion, Ordered, Pending, Contains
<1>4. Ordered(posted', p)
  <2>1. Ordered(Post(posted, "delete", o), p) /\ Ordered(Post(posted, "finished", o), p)
    <3>1. "delete" # "asyncFinish" /\ "finished" # "asyncFinish"
      OBVIOUS
    <3> QED BY <1>1, <1>3, <3>1, PostOrdered
  <2>2. ~Pending("delete", o) => Ordered(Post(posted, "asyncFinish", o), p)
    BY <1>1, <1>3, PostOrdered DEF Pending
  <2> QED BY <1>3, <2>1, <2>2 DEF DeleteLater
<1>5. Contains(posted', Event("asyncFinish", p)) =>
          Pending("asyncFinish", p) \/ (p = o /\ handler'[o] # "None")
  <2>1. /\ Event("asyncFinish", p) # Event("delete", o)
        /\ Event("asyncFinish", p) # Event("finished", o)
        /\ Event("asyncFinish", p) = Event("asyncFinish", o) => p = o
    BY DEF Event
  <2> QED BY <1>1, <2>1, PostPending DEF Pending
<1>6. channel /\ context[p] = "Alive" /\ Pending("asyncFinish", p) => handler[p] # "None"
  BY DEF QueueInv, FailureBeforeDeletion
<1> QED BY <1>1, <1>2, <1>4, <1>5, <1>6

\* finish() posts at most the deletion of a handler it does not let go.
LEMMA FinishKeepsQueue ==
    ASSUME StateOK, LifeInv, QueueInv, NEW o \in Ops, NEW s, Finish(o, s, posted),
           handler[o] # "None", UNCHANGED <<channel, context>>
    PROVE  QueueInv'
<1>1. posted' = posted \/ posted' = DeleteLater(posted, o)
  BY DEF Finish, HandleContextExpired, AlreadyFinished, FinishNow
<1>2. \A p \in Ops : handler'[p] = "None" => handler[p] = "None"
  <2>1. handler' = handler \/ \E h \in Endpoints : handler' = [handler EXCEPT ![o] = h]
    BY DEF Finish, HandleContextExpired, AlreadyFinished, FinishNow, Endpoints
  <2> QED BY <2>1 DEF StateOK, Endpoints
<1>3. \A p \in Ops : context'[p] = "Alive" => context[p] \in {"Alive", "Unused"}
  OBVIOUS
<1> QED BY <1>1, <1>2, <1>3, PostKeepsQueue

\* What the user calls, and the deadline timer.
LEMMA UserKeepsQueue ==
    ASSUME StateOK, LifeInv, QueueInv, NEW o \in Ops,
           Start(o) \/ Cancel(o) \/ DeadlineFires(o) \/ Destroy(o)
    PROVE  QueueInv'
<1>1. CASE Start(o)
  <2>1. /\ UNCHANGED channel /\ context[o] = "Unused" /\ context' = [context EXCEPT ![o] = "Alive"]
        /\ handler' = handler \/ \E h \in {"Idle", "RequestHeadersSent"} : handler' = [handler EXCEPT ![o] = h]
        /\ \/ posted' = posted \/ posted' = Post(posted, "finished", o)
           \/ posted' = Post(posted, "asyncFinish", o) /\ handler' = [handler EXCEPT ![o] = "Idle"]
    BY <1>1 DEF Start, RefuseUnwritable, RefuseNoChannel, WaitForConnection, WaitForSettings,
                SendAtOnce, CreateFails, SendFails, chan
  <2>2. ~Pending("delete", o)
    BY <2>1 DEF LifeInv, HandlerInv, EventKinds
  <2>3. /\ \A p \in Ops : context'[p] = "Alive" => context[p] \in {"Alive", "Unused"}
        /\ \A p \in Ops : handler'[p] = "None" => handler[p] = "None"
    BY <2>1 DEF StateOK
  <2>4. \/ posted' = posted \/ posted' = Post(posted, "finished", o)
        \/ posted' = Post(posted, "asyncFinish", o) /\ handler'[o] # "None"
    BY <2>1 DEF StateOK
  <2> QED BY <2>1, <2>2, <2>3, <2>4, PostKeepsQueue
<1>2. CASE Cancel(o) \/ DeadlineFires(o)
  <2>1. /\ handler[o] # "None" /\ UNCHANGED <<channel, context>>
        /\ Finish(o, "Cancelled", posted)
    BY <1>2 DEF Cancel, DeadlineFires, CancelWithStatus, LifeInv, HandlerInv, chan
  <2> QED BY <2>1, FinishKeepsQueue
<1>3. CASE Destroy(o)
  <2>1. /\ UNCHANGED <<channel, handler>>
        /\ posted' = posted \/ posted' = DeleteLater(posted, o)
        /\ context' = [context EXCEPT ![o] = "Destroyed"]
    BY <1>3 DEF Destroy, chan
  <2>2. \A p \in Ops : context'[p] = "Alive" => context[p] \in {"Alive", "Unused"}
    BY <2>1 DEF StateOK
  <2> QED BY <2>1, <2>2, PostKeepsQueue
<1> QED BY <1>1, <1>2, <1>3

\* A delivery: the failure behind the event finds the handler it was posted for.
LEMMA DispatchKeepsQueue == ASSUME StateOK, LifeInv, QueueInv, Dispatch PROVE QueueInv'
<1>1. PICK o \in Ops, kind \in EventKinds : Head(posted) = Event(kind, o)
  BY HeadIsEvent
<1>2. /\ posted \in Seq(Events) /\ posted # <<>> /\ Tail(posted) \in Seq(Events)
      /\ UNCHANGED <<channel, context>>
  BY HeadIsEvent DEF Dispatch, chan
<1>3. Head(posted).kind = kind /\ Head(posted).op = o
  BY <1>1 DEF Event
<1>4. posted' = Tail(posted) \/ posted' = DeleteLater(Tail(posted), o)
  BY <1>3 DEF Dispatch, DispatchVoid, DispatchFinished, DispatchAsyncFinish, DispatchDelete,
              Finish, HandleContextExpired, AlreadyFinished, FinishNow
<1>5. \A p \in Ops : handler'[p] = "None" =>
          handler[p] = "None" \/ (p = o /\ Head(posted) = Event("delete", o))
  <2>1. \/ handler' = handler \/ \E h \in Endpoints : handler' = [handler EXCEPT ![o] = h]
        \/ handler' = [handler EXCEPT ![o] = "None"] /\ kind = "delete"
    BY <1>3 DEF Dispatch, DispatchVoid, DispatchFinished, DispatchAsyncFinish, DispatchDelete,
                Finish, HandleContextExpired, AlreadyFinished, FinishNow, Endpoints
  <2> QED BY <1>1, <2>1 DEF StateOK, Endpoints
<1> SUFFICES ASSUME NEW p \in Ops, context[p] = "Alive"
             PROVE  /\ Ordered(posted', p)
                    /\ channel /\ Contains(posted', Event("asyncFinish", p)) => handler'[p] # "None"
  BY <1>2 DEF QueueInv, FailureBeforeDeletion, Pending
<1>6. /\ Ordered(posted, p)
      /\ channel /\ Pending("asyncFinish", p) => handler[p] # "None"
  BY DEF QueueInv, FailureBeforeDeletion
<1>7. /\ Ordered(Tail(posted), p)
      /\ Head(posted) = Event("delete", p) => ~Pending("asyncFinish", p)
  BY <1>2, <1>6, TailOrdered DEF Pending
<1>8. "delete" \in EventKinds /\ "delete" # "asyncFinish"
  BY DEF EventKinds
<1>9. Ordered(posted', p)
  BY <1>2, <1>4, <1>7, <1>8, PostOrdered DEF DeleteLater
<1>10. Contains(posted', Event("asyncFinish", p)) => Pending("asyncFinish", p)
  <2>1. Event("asyncFinish", p) # Event("delete", o)
    BY DEF Event
  <2>2. Contains(posted', Event("asyncFinish", p)) => Contains(Tail(posted), Event("asyncFinish", p))
    <3>1. Contains(DeleteLater(Tail(posted), o), Event("asyncFinish", p)) <=>
              Contains(Tail(posted), Event("asyncFinish", p))
      BY <1>2, <1>8, <2>1, PostPending
    <3> QED BY <1>4, <3>1
  <2> QED BY <1>2, <2>2, TailPending DEF Pending
<1> QED BY <1>5, <1>6, <1>7, <1>9, <1>10

\* The loops and the connection.  A failure is posted only by a loop, for a
\* handler whose RPC has not finished.
LEMMA ConnectionKeepsQueue ==
    ASSUME ~EarlyRefusals, StateOK, LifeInv, QueueInv,
           \/ ConnectLoopStep \/ SettingsLoopStep \/ ErrorLoopStep
           \/ SocketConnected \/ SettingsFrameReceived \/ SocketErrorOccurred
           \/ ConnectTimeoutFires \/ ReconnectTimerFires \/ DestroyChannel
           \/ SettingsLoopEnd \/ ErrorLoopEnd \/ TeardownEnd
    PROVE  QueueInv'
<1>1. CASE Ops = {}
  BY <1>1 DEF QueueInv
<1>2. ASSUME NEW o \in Ops, UNCHANGED <<posted, context>>, channel' => channel,
             \A p \in Ops : channel' /\ context'[p] = "Alive" /\ handler'[p] = "None" => handler[p] = "None"
      PROVE  QueueInv'
  <2>1. \A p \in Ops : context'[p] = "Alive" => context[p] \in {"Alive", "Unused"}
    BY <1>2
  <2> QED BY <1>2, <2>1, PostKeepsQueue
<1>3. CASE \/ SocketConnected \/ SettingsFrameReceived \/ SocketErrorOccurred
           \/ ConnectTimeoutFires \/ ReconnectTimerFires \/ DestroyChannel
  <2>1. UNCHANGED <<handler, posted, context>> /\ (channel' => channel)
    BY <1>3 DEF SocketConnected, SettingsFrameReceived, SocketErrorOccurred, ConnectTimeoutFires,
                ReconnectTimerFires, DestroyChannel, rpc
  <2> QED BY <1>1, <1>2, <2>1
<1>4. CASE SettingsLoopEnd \/ ErrorLoopEnd
  <2>1. UNCHANGED <<channel, posted, context>> /\ DeleteExpired
    BY <1>4 DEF SettingsLoopEnd, ErrorLoopEnd, chan
  <2>2. \A p \in Ops : context'[p] = "Alive" /\ handler'[p] = "None" => handler[p] = "None"
    BY <2>1 DEF DeleteExpired, LifeInv, HandlerInv
  <2> QED BY <1>1, <1>2, <2>1, <2>2
<1>5. CASE TeardownEnd
  <2>1. UNCHANGED <<channel, posted, context>> /\ ~channel
    BY <1>5 DEF TeardownEnd, LifeInv, FrameInv
  <2> QED BY <1>1, <1>2, <2>1
<1>6. ASSUME NEW o \in frame.rest PROVE o \in Ops /\ handler[o] # "None"
  BY <1>6 DEF StateOK, LifeInv, HandlerInv
<1>7. ASSUME NEW o \in frame.rest, UNCHANGED <<channel, context, handler, posted>> PROVE QueueInv'
  BY <1>2, <1>6, <1>7
<1>8. CASE ConnectLoopStep
  <2>1. PICK o \in frame.rest : UNCHANGED <<channel, context, handler, posted>>
    BY <1>8 DEF ConnectLoopStep, SkipExpired, CreateHttp2Stream, chan
  <2> QED BY <1>7, <2>1
<1>9. CASE SettingsLoopStep
  <2>1. PICK o \in frame.rest :
           /\ UNCHANGED <<channel, context>>
           /\ SkipExpired(o) \/ (context[o] = "Alive" /\ SendInitialRequest(o))
    BY <1>9 DEF SettingsLoopStep, chan
  <2>2. CASE UNCHANGED <<handler, posted>>
    BY <1>7, <2>1, <2>2
  <2>3. CASE /\ context[o] = "Alive" /\ handler[o] \notin Endpoints
             /\ posted' = Post(posted, "asyncFinish", o) /\ UNCHANGED handler
    <3>1. ~Pending("delete", o)
      BY <1>6, <2>3 DEF LifeInv, HandlerInv
    <3>2. \A p \in Ops : context'[p] = "Alive" => context[p] \in {"Alive", "Unused"}
      BY <2>1
    <3> QED BY <1>6, <2>1, <2>3, <3>1, <3>2, PostKeepsQueue
  <2>4. CASE handler' = [handler EXCEPT ![o] = "RequestHeadersSent"] /\ UNCHANGED posted
    <3>1. \A p \in Ops : handler'[p] = "None" => handler[p] = "None"
      BY <2>4 DEF StateOK
    <3> QED BY <1>2, <1>6, <2>1, <2>4, <3>1
  <2> QED BY <2>1, <2>2, <2>3, <2>4 DEF SkipExpired, SendInitialRequest
<1>10. CASE ErrorLoopStep
  <2>1. PICK o \in frame.rest :
           /\ UNCHANGED <<channel, context>>
           /\ UNCHANGED <<handler, posted>> \/ Finish(o, handler[o], posted)
    BY <1>10 DEF ErrorLoopStep, SkipExpired, chan
  <2> QED BY <1>6, <1>7, <2>1, FinishKeepsQueue
<1> QED BY <1>3, <1>4, <1>5, <1>8, <1>9, <1>10

\* What the peer sends.
LEMMA PeerKeepsQueue ==
    ASSUME StateOK, LifeInv, QueueInv, NEW o \in Ops, NEW endStream, NEW valid, NEW batch, NEW tail,
           \/ StreamErrorOccurred(o) \/ HeadersReceived(o, endStream, valid)
           \/ DataReceived(o, batch, tail) \/ DataStep
    PROVE  QueueInv'
<1>1. UNCHANGED <<channel, context>>
  BY DEF StreamErrorOccurred, HeadersReceived, DataReceived, DataStep, chan
<1>2. ASSUME NEW p \in Ops, handler' = handler \/ handler' = [handler EXCEPT ![p] = "Active"],
             posted' = posted \/ posted' = DeleteLater(posted, p)
      PROVE  QueueInv'
  <2>1. \A r \in Ops : handler'[r] = "None" => handler[r] = "None"
    BY <1>2 DEF StateOK
  <2>2. \A r \in Ops : context'[r] = "Alive" => context[r] \in {"Alive", "Unused"}
    BY <1>1
  <2> QED BY <1>1, <1>2, <2>1, <2>2, PostKeepsQueue
<1>3. ASSUME NEW p \in Ops, NEW t, DataTail(p, t), handler[p] # "None" PROVE QueueInv'
  BY <1>1, <1>2, <1>3, FinishKeepsQueue DEF DataTail
<1>4. CASE DataStep
  <2>1. PICK p \in frame.rest : UNCHANGED <<handler, posted>> \/ DataTail(p, frame.tail)
    BY <1>4 DEF DataStep
  <2>2. p \in Ops /\ handler[p] # "None"
    BY DEF StateOK, LifeInv, HandlerInv
  <2> QED BY <1>2, <1>3, <2>1, <2>2
<1>5. CASE ~DataStep
  <2>1. handler[o] # "None"
    BY <1>5 DEF StreamErrorOccurred, HeadersReceived, DataReceived, LifeInv, HandlerInv
  <2>2. CASE StreamErrorOccurred(o)
    BY <1>1, <2>1, <2>2, FinishKeepsQueue DEF StreamErrorOccurred
  <2>3. CASE HeadersReceived(o, endStream, valid)
    BY <1>1, <1>2, <2>1, <2>3, FinishKeepsQueue
       DEF HeadersReceived, IgnoreHeaders, UnexpectedHeaders, InitialHeaders, FinalHeaders
  <2>4. CASE DataReceived(o, batch, tail)
    <3>1. UNCHANGED <<handler, posted>> \/ DataTail(o, tail)
      BY <2>4 DEF DataReceived
    <3> QED BY <1>2, <1>3, <2>1, <3>1
  <2> QED BY <1>5, <2>2, <2>3, <2>4
<1> QED BY <1>4, <1>5

\* Every step keeps QueueInv.
LEMMA StepQueue ==
    ASSUME ~EarlyRefusals, StateOK, LifeInv, QueueInv, [Next]_vars PROVE QueueInv'
<1>1. CASE User
  BY <1>1, UserKeepsQueue DEF User
<1>2. CASE Peer
  BY <1>2, ConnectionKeepsQueue, PeerKeepsQueue DEF Peer
<1>3. CASE Library
  <2>1. CASE DataStep
    <3>1. PICK o \in frame.rest : TRUE
      BY <2>1 DEF DataStep
    <3> QED BY <2>1, <3>1, PeerKeepsQueue DEF StateOK
  <2> QED BY <1>3, <2>1, DispatchKeepsQueue, ConnectionKeepsQueue, UserKeepsQueue DEF Library
<1>4. CASE DestroyChannel
  BY <1>4, ConnectionKeepsQueue
<1>5. CASE UNCHANGED vars
  <2>1. UNCHANGED <<channel, handler, context, posted>>
    BY <1>5 DEF vars, chan, rpc
  <2> QED BY <2>1 DEF QueueInv, FailureBeforeDeletion, Pending
<1> QED BY <1>1, <1>2, <1>3, <1>4, <1>5 DEF Next

\* While the channel lives, every RPC its owner has not dropped and that has not
\* finished has a handler that can still finish it, or its end is posted; and a
\* failure posted by asyncFinish() never finds its handler deleted, as long as
\* createStream() is not refused while SETTINGS are awaited.
THEOREM HandlersKept == ASSUME ~EarlyRefusals PROVE Spec => []NoHandlerLost
<1>1. Init => QueueInv
  BY DEF Init, QueueInv, FailureBeforeDeletion, Ordered, Pending, Contains
<1>2. StateOK /\ LifeInv /\ QueueInv /\ [Next]_vars => QueueInv'
  BY StepQueue
<1>3. LifeInv /\ QueueInv => NoHandlerLost
  BY DEF LifeInv, HandlerInv, QueueInv, FailureBeforeDeletion, NoHandlerLost, Pending, Endpoints
<1> QED BY <1>1, <1>2, <1>3, StateTyped, LifeInvariant, PTL DEF Spec

-----------------------------------------------------------------------------
(* NoStrandedRpc.  An RPC that waits is found again: by the next attempt   *)
(* to connect, which is running or scheduled, by SETTINGS, by its posted   *)
(* failure, or by the loop that is under way.                              *)

\* The steps that serve or end RPCs on the connection there is.
Serves ==
    /\ UNCHANGED <<channel, state>> /\ caught \subseteq caught'
    /\ frame'.kind = frame.kind \/ (frame.kind \in {"none", "data"} /\ frame'.kind \in {"none", "data"})

\* A step of Serves that takes nothing from p that p may still need.
LEMMA ServedWaits ==
    ASSUME StateOK, Serves, NEW p \in Ops, WaitingInv(p),
           context'[p] = "Alive" => context[p] = "Alive",
           stream'[p] = "Null" => stream[p] = "Null" \/ (handler'[p] = "None" /\ frame.kind = "none"),
           Pending("asyncFinish", p) /\ handler'[p] = "Idle" => Contains(posted', Event("asyncFinish", p)),
           frame.kind \in {"connect", "settings", "error"} => (p \in frame.rest <=> p \in frame'.rest),
           \/ handler'[p] = handler[p]
           \/ handler'[p] = "None"
           \/ handler[p] # "None" /\ handler'[p] \in Endpoints
           \/ /\ handler[p] = "RequestHeadersSent" /\ handler'[p] = "Active"
              /\ state = "SettingsReceived" /\ frame.kind = "none"
    PROVE  WaitingInv(p)'
<1>1. CASE context'[p] = "Alive"
  <2>0. handler'[p] # "None" => channel' \/ frame'.kind = "teardown"
    BY <1>1 DEF WaitingInv, Serves, Endpoints
  <2>1. /\ handler'[p] = "RequestHeadersSent" => OnConnection(p)' \/ p \in caught'
        /\ handler'[p] = "Active" => OnConnection(p)'
    BY <1>1 DEF WaitingInv, OnConnection, Serves, Endpoints
  <2>2. handler'[p] # "None" /\ state' = "Connected" =>
            stream'[p] # "Null" \/ (frame'.kind = "connect" /\ p \in frame'.rest)
    BY <1>1 DEF WaitingInv, Serves, Endpoints
  <2>3. frame'.kind = "settings" /\ p \in frame'.rest => stream'[p] # "Null"
    BY <1>1 DEF WaitingInv, Serves
  <2>4. handler'[p] = "Idle" /\ frame'.kind # "teardown" =>
           \/ Contains(posted', Event("asyncFinish", p))
           \/ frame'.kind \in {"settings", "error"} /\ p \in frame'.rest
           \/ frame'.kind # "error" /\ state' \in {"Connecting", "Connected"}
           \/ p \in caught' /\ state' # "SettingsReceived"
    BY <1>1 DEF WaitingInv, Serves, Endpoints, Pending
  <2> QED BY <2>0, <2>1, <2>2, <2>3, <2>4 DEF WaitingInv, Pending
<1>2. CASE context'[p] # "Alive"
  BY <1>2 DEF WaitingInv
<1> QED BY <1>1, <1>2

\* finish() called on o: o has ended, and the others wait as before.
LEMMA FinishedWaits ==
    ASSUME StateOK, Serves, NEW o \in Ops, NEW s, NEW q \in Seq(Events), Finish(o, s, q),
           handler[o] # "None",
           s = "Finished" => handler[o] \in Endpoints,
           \A p \in Ops : WaitingInv(p),
           \A p \in Ops : p # o /\ Pending("asyncFinish", p) => Contains(q, Event("asyncFinish", p)),
           UNCHANGED context,
           \A p \in Ops : stream'[p] = "Null" => stream[p] = "Null",
           frame'.rest = frame.rest
             \/ (frame.kind \in {"none", "data", "teardown"})
             \/ (frame.kind = "error" /\ frame'.rest = frame.rest \ {o})
    PROVE  \A p \in Ops : WaitingInv(p)'
<1> SUFFICES ASSUME NEW p \in Ops PROVE WaitingInv(p)'
  OBVIOUS
<1>1. WaitingInv(p)
  OBVIOUS
<1>2. CASE p # o
  <2>1. handler'[p] = handler[p]
    BY <1>2, FinishEffect
  <2>2. Pending("asyncFinish", p) => Contains(posted', Event("asyncFinish", p))
    BY <1>2, FinishEffect
  <2>3. frame.kind \in {"connect", "settings", "error"} => (p \in frame.rest <=> p \in frame'.rest)
    BY <1>2
  <2> QED BY <1>1, <2>1, <2>2, <2>3, ServedWaits
<1>3. CASE p = o
  <2>1. context[o] = "Alive" => handler'[o] \in Endpoints
    BY FinishEffect
  <2>2. CASE context[o] = "Alive"
    <3>1. handler'[o] \notin {"RequestHeadersSent", "Active", "Idle"}
      BY <2>1, <2>2 DEF Endpoints
    <3>2. state' = "Connected" =>
             stream'[o] # "Null" \/ (frame'.kind = "connect" /\ o \in frame'.rest)
      BY <1>1, <1>3, <2>2 DEF WaitingInv, Serves
    <3>3. frame'.kind = "settings" /\ o \in frame'.rest => stream'[o] # "Null"
      BY <1>1, <1>3, <2>2 DEF WaitingInv, Serves
    <3>4. channel' \/ frame'.kind = "teardown"
      BY <1>1, <1>3, <2>2 DEF WaitingInv, Serves
    <3> QED BY <1>3, <3>1, <3>2, <3>3, <3>4 DEF WaitingInv
  <2>3. CASE context[o] # "Alive"
    BY <1>3, <2>3 DEF WaitingInv
  <2> QED BY <2>2, <2>3
<1> QED BY <1>2, <1>3

\* The state of the connection, over the steps that do not change it.
LEMMA ServedConnection ==
    ASSUME ConnectionInv, Serves, UNCHANGED chan PROVE ConnectionInv'
BY DEF ConnectionInv, Serves, chan

\* A started RPC waits for a connection, for SETTINGS or for its posted failure;
\* or a slot started it in the loop of handleSocketError(), and it is caught.
LEMMA StartKeepsProgress ==
    ASSUME ~EarlyRefusals, StateOK, LifeInv, ProgressInv, NEW o \in Ops, Start(o)
    PROVE  ProgressInv'
<1>1. /\ UNCHANGED frame /\ caught \subseteq caught' /\ (frame.kind = "error" => o \in caught')
      /\ context[o] = "Unused" /\ context' = [context EXCEPT ![o] = "Alive"]
  BY DEF Start
<1>2. handler[o] = "None" /\ o \notin frame.rest /\ posted \in Seq(Events)
  BY <1>1 DEF LifeInv, HandlerInv, StateOK
<1>3. ASSUME NEW p \in Ops PROVE WaitingInv(p)
  BY DEF ProgressInv
<1>4. "finished" \in EventKinds /\ "asyncFinish" \in EventKinds
  BY DEF EventKinds
<1>5. ASSUME NEW p \in Ops \ {o}, UNCHANGED <<channel, state>>, handler'[p] = handler[p], stream'[p] = stream[p],
             \/ posted' = posted \/ posted' = Post(posted, "finished", o)
             \/ posted' = Post(posted, "asyncFinish", o)
      PROVE  WaitingInv(p)'
  <2>1. Pending("asyncFinish", p) => Contains(posted', Event("asyncFinish", p))
    BY <1>2, <1>4, <1>5, PostPending DEF Pending
  <2>2. Serves /\ context'[p] = context[p]
    BY <1>1, <1>5 DEF Serves, StateOK
  <2> QED BY <1>1, <1>3, <1>5, <2>1, <2>2, ServedWaits
<1>6. CASE RefuseUnwritable(o) \/ RefuseNoChannel(o)
  <2>1. UNCHANGED <<chan, handler, stream>> /\ posted' = Post(posted, "finished", o)
    BY <1>6 DEF RefuseUnwritable, RefuseNoChannel
  <2>2. ConnectionInv'
    BY <1>1, <2>1 DEF ProgressInv, ConnectionInv, chan
  <2>3. WaitingInv(o)'
    BY <1>1, <1>2, <2>1 DEF WaitingInv
  <2> QED BY <1>5, <2>1, <2>2, <2>3 DEF ProgressInv, chan
<1>7. CASE WaitForConnection(o)
  <2>1. /\ UNCHANGED <<channel, connection, socket, stream, posted>> /\ channel /\ ~connection
        /\ handler' = [handler EXCEPT ![o] = "Idle"]
        /\ \/ state = "Error" /\ reconnectTimer' = TRUE /\ state' = "Connecting"
           \/ state # "Error" /\ UNCHANGED <<reconnectTimer, state>>
    BY <1>7 DEF WaitForConnection, ScheduleReconnect
  <2>2. state' = "Connecting"
    BY <2>1 DEF ProgressInv, ConnectionInv, StateOK, ConnectionStates
  <2>3. ConnectionInv'
    BY <1>1, <2>1, <2>2 DEF ProgressInv, ConnectionInv, StateOK
  <2>4. ASSUME NEW p \in Ops PROVE WaitingInv(p)'
    <3>1. state # "SettingsReceived" /\ frame.kind \notin {"connect", "settings"}
      BY <2>1 DEF ProgressInv, ConnectionInv
    <3>2. CASE p = o
      <4>1. handler'[o] = "Idle" /\ UNCHANGED frame
        BY <1>1, <2>1 DEF StateOK
      <4> QED BY <1>1, <2>1, <2>2, <3>1, <3>2, <4>1 DEF WaitingInv
    <3>3. CASE p # o
      <4>1. handler'[p] = handler[p] /\ context'[p] = context[p] /\ WaitingInv(p)
        BY <1>1, <1>3, <2>1, <3>3 DEF StateOK
      <4> QED BY <1>1, <2>1, <2>2, <3>1, <4>1 DEF WaitingInv, OnConnection, Pending
    <3> QED BY <3>2, <3>3
  <2> QED BY <2>3, <2>4 DEF ProgressInv
<1>8. CASE WaitForSettings(o)
  <2>1. /\ UNCHANGED <<chan, posted>> /\ channel /\ handler' = [handler EXCEPT ![o] = "Idle"]
        /\ stream' = [stream EXCEPT ![o] = "Idle"] /\ state = "Connected"
    BY <1>8 DEF WaitForSettings
  <2>2. ConnectionInv'
    BY <1>1, <2>1 DEF ProgressInv, ConnectionInv, chan
  <2>3. WaitingInv(o)'
    BY <1>1, <1>2, <2>1 DEF WaitingInv, StateOK, chan
  <2>4. \A p \in Ops \ {o} : handler'[p] = handler[p] /\ stream'[p] = stream[p]
    BY <2>1 DEF StateOK
  <2> QED BY <1>5, <2>1, <2>2, <2>3, <2>4 DEF ProgressInv, chan
<1>9. CASE SendAtOnce(o) \/ CreateFails(o) \/ SendFails(o)
  <2>1. /\ UNCHANGED chan /\ channel /\ state = "SettingsReceived"
        /\ \/ handler' = [handler EXCEPT ![o] = "RequestHeadersSent"] /\ posted' = posted
           \/ handler' = [handler EXCEPT ![o] = "Idle"] /\ posted' = Post(posted, "asyncFinish", o)
        /\ stream' = stream \/ \E t : stream' = [stream EXCEPT ![o] = t]
    BY <1>9 DEF SendAtOnce, CreateFails, SendFails, MaySend
  <2>2. ConnectionInv'
    BY <1>1, <2>1 DEF ProgressInv, ConnectionInv, chan
  <2>3. WaitingInv(o)'
    <3>1. handler'[o] = "RequestHeadersSent" \/ Contains(posted', Event("asyncFinish", o))
      BY <1>2, <1>4, <2>1, PostPending DEF StateOK
    <3>2. handler'[o] # "Active" /\ (handler'[o] = "RequestHeadersSent" => OnConnection(o)' \/ o \in caught')
      BY <1>1, <2>1 DEF OnConnection, StateOK, chan
    <3>3. handler'[o] = "Idle" => Contains(posted', Event("asyncFinish", o))
      BY <3>1
    <3> QED BY <1>1, <1>2, <2>1, <3>2, <3>3 DEF WaitingInv, Pending, chan
  <2>4. \A p \in Ops \ {o} : handler'[p] = handler[p] /\ stream'[p] = stream[p]
    BY <2>1 DEF StateOK
  <2> QED BY <1>5, <2>1, <2>2, <2>3, <2>4 DEF ProgressInv, chan
<1> QED BY <1>6, <1>7, <1>8, <1>9 DEF Start

\* The user's other calls, the deadline and the posted events.
LEMMA CallsKeepProgress ==
    ASSUME StateOK, LifeInv, ProgressInv, NEW o \in Ops, Cancel(o) \/ DeadlineFires(o) \/ Destroy(o)
    PROVE  ProgressInv'
<1>1. UNCHANGED <<chan, frame, caught>> /\ posted \in Seq(Events)
  BY DEF Cancel, DeadlineFires, Destroy, StateOK, past
<1>2. Serves /\ ConnectionInv'
  BY <1>1, ServedConnection DEF Serves, ProgressInv, chan
<1>3. CASE Cancel(o) \/ DeadlineFires(o)
  <2>1. handler[o] # "None" /\ CancelWithStatus(o) /\ UNCHANGED context
    BY <1>3 DEF Cancel, DeadlineFires, LifeInv, HandlerInv
  <2>2. \A p \in Ops : stream'[p] = "Null" => stream[p] = "Null"
    BY <2>1 DEF CancelWithStatus, StateOK
  <2> QED BY <1>1, <1>2, <2>1, <2>2, FinishedWaits DEF CancelWithStatus, ProgressInv, Pending
<1>4. CASE Destroy(o)
  <2>1. /\ UNCHANGED <<handler, stream>> /\ context' = [context EXCEPT ![o] = "Destroyed"]
        /\ posted' = posted \/ posted' = DeleteLater(posted, o)
    BY <1>4 DEF Destroy
  <2>2. \A k, p : Pending(k, p) => Contains(posted', Event(k, p))
    BY <1>1, <2>1, PostPending DEF Pending, EventKinds
  <2>3. \A p \in Ops : context'[p] = "Alive" => context[p] = "Alive"
    BY <2>1 DEF StateOK
  <2> QED BY <1>1, <1>2, <2>1, <2>2, <2>3, ServedWaits DEF ProgressInv
<1> QED BY <1>3, <1>4

\* The event loop delivers an event: whoever waited for it has what it waited for.
LEMMA DispatchKeepsProgress == ASSUME StateOK, LifeInv, ProgressInv, Dispatch PROVE ProgressInv'
<1>1. PICK o \in Ops, kind \in EventKinds : Head(posted) = Event(kind, o)
  BY HeadIsEvent
<1>2. /\ posted \in Seq(Events) /\ posted # <<>> /\ Tail(posted) \in Seq(Events)
      /\ UNCHANGED <<chan, context, frame, caught>> /\ frame.kind = "none"
  BY HeadIsEvent DEF Dispatch, EventLoop, past
<1>3. Serves /\ ConnectionInv'
  BY <1>2, ServedConnection DEF Serves, ProgressInv, chan
<1>4. Head(posted).kind = kind /\ Head(posted).op = o
  BY <1>1 DEF Event
<1>5. \A k, p : Pending(k, p) => (k = kind /\ p = o) \/ Contains(Tail(posted), Event(k, p))
  BY <1>1, <1>2, TailPending, EventsDiffer DEF Pending
<1>6. CASE handler[o] # "None" /\ Finish(o, handler[o], Tail(posted)) /\ UNCHANGED stream
  <2>1. handler[o] = "Finished" => handler[o] \in Endpoints
    BY DEF Endpoints
  <2> QED BY <1>2, <1>3, <1>5, <1>6, <2>1, FinishedWaits DEF ProgressInv
<1>7. CASE /\ posted' = Tail(posted) /\ UNCHANGED <<handler, stream>>
           /\ kind = "asyncFinish" => context[o] # "Alive" \/ handler[o] = "None"
  <2>1. ASSUME NEW p \in Ops, context[p] = "Alive" PROVE WaitingInv(p)'
    BY <1>2, <1>3, <1>5, <1>7, <2>1, ServedWaits DEF ProgressInv
  <2>2. ASSUME NEW p \in Ops, context[p] # "Alive" PROVE WaitingInv(p)'
    BY <1>2, <2>2 DEF WaitingInv
  <2> QED BY <1>3, <2>1, <2>2 DEF ProgressInv
<1>8. CASE /\ kind = "delete" /\ posted' = Tail(posted)
           /\ handler' = [handler EXCEPT ![o] = "None"] /\ stream' = [stream EXCEPT ![o] = "Null"]
  <2>1. ASSUME NEW p \in Ops PROVE WaitingInv(p)'
    <3>1. /\ handler'[p] = handler[p] \/ handler'[p] = "None"
          /\ stream'[p] = "Null" => stream[p] = "Null" \/ handler'[p] = "None"
      BY <1>8 DEF StateOK
    <3>2. WaitingInv(p)
      BY DEF ProgressInv
    <3> QED BY <1>2, <1>3, <1>5, <1>8, <3>1, <3>2, ServedWaits
  <2> QED BY <1>3, <2>1 DEF ProgressInv
<1> QED BY <1>4, <1>6, <1>7, <1>8
        DEF Dispatch, DispatchVoid, DispatchFinished, DispatchAsyncFinish, DispatchDelete, Void

\* What the peer sends ends an RPC or leaves it something to wait for.
LEMMA PeerKeepsProgress ==
    ASSUME StateOK, LifeInv, StreamInv, ProgressInv,
           NEW o \in Ops, NEW endStream, NEW valid, NEW batch, NEW tail,
           \/ StreamErrorOccurred(o) \/ HeadersReceived(o, endStream, valid)
           \/ DataReceived(o, batch, tail)
    PROVE  ProgressInv'
<1>1. /\ UNCHANGED <<chan, context, caught>> /\ frame.kind = "none" /\ posted \in Seq(Events)
      /\ handler[o] # "None" /\ state = "SettingsReceived"
  BY DEF StreamErrorOccurred, HeadersReceived, DataReceived, EventLoop, LifeInv, HandlerInv, StateOK,
         StreamInv, past
<1>2. frame'.kind \in {"none", "data"}
  BY <1>1 DEF StreamErrorOccurred, HeadersReceived, DataReceived, NoFrame
<1>3. Serves /\ ConnectionInv'
  BY <1>1, <1>2, ServedConnection DEF Serves, ProgressInv, chan
<1>4. \A p \in Ops : stream'[p] = "Null" => stream[p] = "Null"
  BY DEF StreamErrorOccurred, HeadersReceived, DataReceived, CloseIf, StateOK
<1>5. ASSUME NEW s, Finish(o, s, posted), s = "Finished" => handler[o] \in Endpoints PROVE ProgressInv'
  BY <1>1, <1>3, <1>4, <1>5, FinishedWaits DEF ProgressInv, Pending
<1>6. ASSUME \/ handler' = handler
             \/ handler[o] = "RequestHeadersSent" /\ handler' = [handler EXCEPT ![o] = "Active"],
             posted' = posted \/ posted' = DeleteLater(posted, o)
      PROVE  ProgressInv'
  <2>1. \A k, p : Pending(k, p) => Contains(posted', Event(k, p))
    BY <1>1, <1>6, PostPending DEF Pending, EventKinds
  <2>2. ASSUME NEW p \in Ops PROVE WaitingInv(p)'
    <3>1. WaitingInv(p) /\ \/ handler'[p] = handler[p]
                           \/ handler[p] = "RequestHeadersSent" /\ handler'[p] = "Active"
      BY <1>6 DEF ProgressInv, StateOK
    <3> QED BY <1>1, <1>3, <1>4, <2>1, <3>1, ServedWaits
  <2> QED BY <1>3, <2>2 DEF ProgressInv
<1>7. handler[o] = "Finished" => handler[o] \in Endpoints
  BY DEF Endpoints
<1>8. CASE StreamErrorOccurred(o)
  BY <1>5, <1>7, <1>8 DEF StreamErrorOccurred
<1>9. CASE HeadersReceived(o, endStream, valid)
  BY <1>5, <1>6, <1>9 DEF HeadersReceived, IgnoreHeaders, UnexpectedHeaders, InitialHeaders, FinalHeaders
<1>10. CASE DataReceived(o, batch, tail)
  <2>1. UNCHANGED <<handler, posted>> \/ Finish(o, handler[o], posted)
    BY <1>10 DEF DataReceived, DataTail
  <2> QED BY <1>5, <1>6, <1>7, <2>1
<1> QED BY <1>8, <1>9, <1>10

\* One message of a DATA frame, or what follows the last.
LEMMA DataStepKeepsProgress == ASSUME StateOK, LifeInv, ProgressInv, DataStep PROVE ProgressInv'
<1>1. PICK o \in frame.rest : UNCHANGED <<handler, posted>> \/ Finish(o, handler[o], posted)
  BY DEF DataStep, DataTail
<1>2. /\ o \in Ops /\ handler[o] # "None" /\ UNCHANGED <<chan, context, stream, caught>>
      /\ posted \in Seq(Events) /\ frame.kind = "data"
  BY DEF DataStep, StateOK, LifeInv, HandlerInv, past
<1>3. frame'.kind \in {"none", "data"}
  BY DEF DataStep, NoFrame, StateOK
<1>4. Serves /\ ConnectionInv'
  BY <1>2, <1>3, ServedConnection DEF Serves, ProgressInv, chan
<1>5. CASE UNCHANGED <<handler, posted>>
  BY <1>2, <1>4, <1>5, ServedWaits DEF ProgressInv, Pending
<1>6. CASE Finish(o, handler[o], posted)
  <2>1. handler[o] = "Finished" => handler[o] \in Endpoints
    BY DEF Endpoints
  <2> QED BY <1>2, <1>4, <1>6, <2>1, FinishedWaits DEF ProgressInv, Pending
<1> QED BY <1>1, <1>5, <1>6

\* The step of a loop for o, given what it does for o; the others still wait.
LEMMA LoopStepWaits ==
    ASSUME StateOK, ProgressInv, NEW o \in Ops, UNCHANGED <<chan, context, caught>>, frame'.kind = frame.kind,
           frame'.rest = frame.rest \ {o},
           \A p \in Ops \ {o} : handler'[p] = handler[p] /\ stream'[p] = stream[p],
           \A p \in Ops \ {o} : Pending("asyncFinish", p) => Contains(posted', Event("asyncFinish", p)),
           WaitingInv(o)'
    PROVE  ProgressInv'
<1>1. Serves /\ ConnectionInv'
  BY ServedConnection DEF Serves, ProgressInv, chan
<1>2. ASSUME NEW p \in Ops \ {o} PROVE WaitingInv(p)'
  BY <1>1, <1>2, ServedWaits DEF ProgressInv
<1> QED BY <1>1, <1>2 DEF ProgressInv

\* A loop over the children serves one of them and still has the others to do.
LEMMA LoopKeepsProgress ==
    ASSUME ~EarlyRefusals, StateOK, LifeInv, ProgressInv,
           ConnectLoopStep \/ SettingsLoopStep \/ ErrorLoopStep
    PROVE  ProgressInv'
<1>1. posted \in Seq(Events) /\ "asyncFinish" \in EventKinds /\ UNCHANGED <<chan, context, caught>>
  BY DEF StateOK, EventKinds, ConnectLoopStep, SettingsLoopStep, ErrorLoopStep, past
<1>2. ASSUME NEW o \in frame.rest PROVE o \in Ops /\ handler[o] # "None" /\ WaitingInv(o)
  BY <1>2 DEF StateOK, LifeInv, HandlerInv, ProgressInv
<1>3. ASSUME NEW o \in frame.rest, SkipExpired(o) PROVE ProgressInv'
  <2>1. /\ UNCHANGED <<handler, stream, posted>> /\ context[o] # "Alive"
        /\ frame'.kind = frame.kind /\ frame'.rest = frame.rest \ {o}
    BY <1>3 DEF SkipExpired, StateOK
  <2>2. WaitingInv(o)'
    BY <1>1, <2>1 DEF WaitingInv
  <2> QED BY <1>1, <1>2, <2>1, <2>2, LoopStepWaits DEF Pending
<1>4. CASE ConnectLoopStep
  <2>1. PICK o \in frame.rest :
           \/ SkipExpired(o)
           \/ /\ context[o] = "Alive" /\ stream' = [stream EXCEPT ![o] = "Idle"]
              /\ frame' = [frame EXCEPT !.rest = @ \ {o}]
              /\ UNCHANGED <<handler, posted>>
    BY <1>4 DEF ConnectLoopStep, CreateHttp2Stream
  <2>2. CASE /\ context[o] = "Alive" /\ stream' = [stream EXCEPT ![o] = "Idle"]
             /\ frame' = [frame EXCEPT !.rest = @ \ {o}]
             /\ UNCHANGED <<handler, posted>>
    <3>1. /\ frame'.kind = frame.kind /\ frame'.rest = frame.rest \ {o} /\ frame.kind = "connect"
          /\ stream'[o] = "Idle" /\ \A p \in Ops \ {o} : stream'[p] = stream[p]
      BY <1>2, <1>4, <2>2 DEF StateOK, ConnectLoopStep
    <3>2. WaitingInv(o)'
      BY <1>1, <1>2, <2>2, <3>1 DEF WaitingInv, OnConnection, Pending, chan
    <3> QED BY <1>1, <1>2, <2>2, <3>1, <3>2, LoopStepWaits DEF Pending
  <2> QED BY <1>3, <2>1, <2>2
<1>5. CASE SettingsLoopStep
  <2>1. PICK o \in frame.rest :
           \/ SkipExpired(o)
           \/ /\ context[o] = "Alive" /\ SendInitialRequest(o)
              /\ frame' = [frame EXCEPT !.rest = @ \ {o}]
    BY <1>5 DEF SettingsLoopStep
  <2>2. CASE /\ context[o] = "Alive" /\ SendInitialRequest(o)
             /\ frame' = [frame EXCEPT !.rest = @ \ {o}]
    <3>1. /\ frame'.kind = frame.kind /\ frame'.rest = frame.rest \ {o} /\ frame.kind = "settings"
          /\ state = "SettingsReceived" /\ stream[o] # "Null"
      BY <1>2, <1>5, <2>2 DEF StateOK, SettingsLoopStep, ProgressInv, ConnectionInv, WaitingInv
    <3>2. \A p \in Ops \ {o} : handler'[p] = handler[p] /\ stream'[p] = stream[p]
      BY <2>2 DEF SendInitialRequest, StateOK
    <3>3. \A p \in Ops \ {o} : Pending("asyncFinish", p) => Contains(posted', Event("asyncFinish", p))
      BY <1>1, <1>2, <2>2, PostPending DEF SendInitialRequest, Pending
    <3>4. \/ handler'[o] \in Endpoints \cup {"RequestHeadersSent"}
          \/ Contains(posted', Event("asyncFinish", o))
      BY <1>1, <1>2, <2>2, <3>1, PostPending DEF SendInitialRequest, StateOK
    <3>5. WaitingInv(o)'
      BY <1>1, <1>2, <2>2, <3>1, <3>4 DEF WaitingInv, OnConnection, Pending, Endpoints, chan
    <3> QED BY <1>1, <1>2, <3>1, <3>2, <3>3, <3>5, LoopStepWaits
  <2> QED BY <1>3, <2>1, <2>2
<1>6. CASE ErrorLoopStep
  <2>1. PICK o \in frame.rest :
           \/ SkipExpired(o)
           \/ /\ Finish(o, handler[o], posted) /\ UNCHANGED stream
              /\ frame' = [frame EXCEPT !.rest = @ \ {o}, !.slot = (emitted' # emitted)]
    BY <1>6 DEF ErrorLoopStep
  <2>2. CASE /\ Finish(o, handler[o], posted) /\ UNCHANGED stream
             /\ frame' = [frame EXCEPT !.rest = @ \ {o}, !.slot = (emitted' # emitted)]
    <3>1. /\ frame'.kind = frame.kind /\ frame'.rest = frame.rest \ {o}
          /\ frame.kind \in {"error", "teardown"} /\ (handler[o] = "Finished" => handler[o] \in Endpoints)
      BY <1>6, <2>2 DEF StateOK, ErrorLoopStep, Endpoints
    <3>2. Serves /\ ConnectionInv'
      BY <1>1, <3>1, ServedConnection DEF Serves, ProgressInv, chan
    <3> QED BY <1>1, <1>2, <2>2, <3>1, <3>2, FinishedWaits DEF ProgressInv, Pending
  <2> QED BY <1>3, <2>1, <2>2
<1> QED BY <1>4, <1>5, <1>6

\* The connection changes: the RPCs wait for the loop that the change starts, or for the timer.
LEMMA ConnectionKeepsProgress ==
    ASSUME StateOK, LifeInv, StreamInv, ProgressInv,
           \/ SocketConnected \/ SettingsFrameReceived \/ SocketErrorOccurred
           \/ ConnectTimeoutFires \/ ReconnectTimerFires \/ DestroyChannel
           \/ SettingsLoopEnd \/ ErrorLoopEnd \/ TeardownEnd
    PROVE  ProgressInv'
<1>1. ConnectionInv /\ \A p \in Ops : WaitingInv(p)
  BY DEF ProgressInv
<1>0. UNCHANGED caught
  BY DEF SocketConnected, SettingsFrameReceived, SocketErrorOccurred, ConnectTimeoutFires,
         ReconnectTimerFires, DestroyChannel, SettingsLoopEnd, ErrorLoopEnd, TeardownEnd, past
<1>2. ASSUME NEW kind, Enter(kind) PROVE frame'.kind = kind /\ frame'.rest = Handlers
  BY <1>2 DEF Enter, NoFrame
<1>3. CASE SocketConnected
  <2>1. /\ UNCHANGED <<channel, reconnectTimer, handler, stream, context, posted>>
        /\ frame.kind = "none" /\ frame'.kind = "connect" /\ frame'.rest = Handlers
        /\ socket = "Connecting" /\ socket' = "Connected" /\ connection' /\ state' = "Connected"
    BY <1>2, <1>3 DEF SocketConnected, EventLoop, rpc
  <2>2. channel /\ ~connection /\ state # "SettingsReceived"
    BY <1>1, <2>1 DEF ConnectionInv, StreamInv
  <2>3. ConnectionInv'
    BY <2>1, <2>2 DEF ConnectionInv
  <2>4. ASSUME NEW p \in Ops PROVE WaitingInv(p)'
    BY <1>0, <1>1, <2>1, <2>2 DEF WaitingInv, OnConnection, Handlers
  <2> QED BY <2>3, <2>4 DEF ProgressInv
<1>4. CASE SettingsFrameReceived
  <2>1. /\ UNCHANGED <<channel, connection, socket, reconnectTimer, handler, stream, context, posted>>
        /\ frame.kind = "none" /\ frame'.kind = "settings" /\ frame'.rest = Handlers
        /\ state = "Connected" /\ state' = "SettingsReceived" /\ connection
    BY <1>2, <1>4 DEF SettingsFrameReceived, EventLoop, rpc
  <2>2. ConnectionInv'
    BY <1>1, <2>1 DEF ConnectionInv
  <2>3. ASSUME NEW p \in Ops PROVE WaitingInv(p)'
    BY <1>0, <1>1, <2>1 DEF WaitingInv, OnConnection, Handlers
  <2> QED BY <2>2, <2>3 DEF ProgressInv
<1>5. CASE SocketErrorOccurred \/ ConnectTimeoutFires
  <2>1. /\ UNCHANGED <<channel, connection, state, reconnectTimer, handler, stream, context, posted>>
        /\ frame.kind = "none" /\ frame'.kind = "error" /\ frame'.rest = Handlers
        /\ \/ socket # "Unconnected" /\ socket' = "Failed"
           \/ socket' = "Unconnected"
    BY <1>2, <1>5 DEF SocketErrorOccurred, ConnectTimeoutFires, EventLoop, rpc
  <2>2. ConnectionInv'
    BY <1>1, <2>1 DEF ConnectionInv
  <2>3. ASSUME NEW p \in Ops PROVE WaitingInv(p)'
    BY <1>0, <1>1, <2>1 DEF WaitingInv, OnConnection, Handlers
  <2> QED BY <2>2, <2>3 DEF ProgressInv
<1>6. CASE ReconnectTimerFires
  <2>1. /\ UNCHANGED <<channel, connection, state, handler, stream, context, posted, frame>>
        /\ frame.kind = "none" /\ reconnectTimer /\ ~reconnectTimer'
        /\ socket' = IF socket = "Unconnected" THEN "Connecting" ELSE socket
    BY <1>6 DEF ReconnectTimerFires, EventLoop, rpc
  <2>2. ConnectionInv'
    BY <1>1, <2>1 DEF ConnectionInv, StateOK
  <2>3. ASSUME NEW p \in Ops PROVE WaitingInv(p)'
    BY <1>0, <1>1, <2>1 DEF WaitingInv, OnConnection, Pending
  <2> QED BY <2>2, <2>3 DEF ProgressInv
<1>7. CASE DestroyChannel
  <2>1. /\ UNCHANGED <<connection, socket, state, reconnectTimer, handler, stream, context, posted>>
        /\ frame.kind = "none" /\ frame'.kind = "teardown" /\ ~channel'
    BY <1>2, <1>7 DEF DestroyChannel, EventLoop, rpc
  <2>2. ConnectionInv'
    BY <1>1, <2>1 DEF ConnectionInv
  <2>3. ASSUME NEW p \in Ops PROVE WaitingInv(p)'
    BY <1>0, <1>1, <2>1 DEF WaitingInv, OnConnection
  <2> QED BY <2>2, <2>3 DEF ProgressInv
<1>8. CASE SettingsLoopEnd
  <2>1. /\ UNCHANGED <<chan, context, posted>> /\ DeleteExpired
        /\ stream' = [o \in Ops |-> IF o \in frame.expired THEN "Null" ELSE stream[o]]
        /\ frame.kind \in {"connect", "settings"} /\ frame.rest = {} /\ frame'.kind = "none"
    BY <1>8 DEF SettingsLoopEnd, NoFrame
  <2>2. ConnectionInv'
    BY <1>1, <2>1 DEF ConnectionInv, chan
  <2>3. ASSUME NEW p \in Ops PROVE WaitingInv(p)'
    <3>1. CASE p \in frame.expired
      <4>1. context'[p] = "Destroyed"
        BY <2>1, <3>1 DEF LifeInv, HandlerInv
      <4> QED BY <4>1 DEF WaitingInv
    <3>2. CASE p \notin frame.expired
      <4>1. handler'[p] = handler[p] /\ stream'[p] = stream[p]
        BY <2>1, <3>2 DEF DeleteExpired
      <4> QED BY <1>0, <1>1, <2>1, <4>1 DEF WaitingInv, OnConnection, Pending, chan
    <3> QED BY <3>1, <3>2
  <2> QED BY <2>2, <2>3 DEF ProgressInv
<1>9. CASE ErrorLoopEnd
  <2>1. /\ UNCHANGED <<channel, reconnectTimer, context, posted>> /\ DeleteExpired
        /\ ~connection' /\ state' = "Error" /\ socket' = "Unconnected"
        /\ frame.kind = "error" /\ frame.rest = {} /\ frame'.kind = "none"
    BY <1>9 DEF ErrorLoopEnd, NoFrame
  <2>2. ConnectionInv'
    BY <1>1, <2>1 DEF ConnectionInv
  <2>3. ASSUME NEW p \in Ops PROVE WaitingInv(p)'
    <3>1. handler'[p] \in {"None", handler[p]}
      BY <2>1 DEF DeleteExpired
    <3> QED BY <1>0, <1>1, <2>1, <3>1 DEF WaitingInv, OnConnection, Pending
  <2> QED BY <2>2, <2>3 DEF ProgressInv
<1>10. CASE TeardownEnd
  <2>1. /\ UNCHANGED <<channel, state, context, posted>> /\ ~channel
        /\ ~connection' /\ ~reconnectTimer' /\ socket' = "Unconnected"
        /\ frame'.kind = "none" /\ \A p \in Ops : handler'[p] = "None"
        /\ frame'.rest = {}
    BY <1>10 DEF TeardownEnd, NoFrame, LifeInv, FrameInv
  <2>2. ConnectionInv'
    BY <2>1 DEF ConnectionInv
  <2>3. ASSUME NEW p \in Ops PROVE WaitingInv(p)'
    BY <2>1 DEF WaitingInv
  <2> QED BY <2>2, <2>3 DEF ProgressInv
<1> QED BY <1>3, <1>4, <1>5, <1>6, <1>7, <1>8, <1>9, <1>10

\* Every step keeps ProgressInv.
LEMMA StepProgress ==
    ASSUME ~EarlyRefusals, StateOK, LifeInv, StreamInv, ProgressInv, [Next]_vars
    PROVE  ProgressInv'
<1>1. CASE User
  BY <1>1, StartKeepsProgress, CallsKeepProgress DEF User
<1>2. CASE Peer
  BY <1>2, ConnectionKeepsProgress, PeerKeepsProgress DEF Peer
<1>3. CASE Library
  BY <1>3, DispatchKeepsProgress, LoopKeepsProgress, ConnectionKeepsProgress, DataStepKeepsProgress,
     CallsKeepProgress DEF Library
<1>4. CASE DestroyChannel
  BY <1>4, ConnectionKeepsProgress
<1>5. CASE UNCHANGED vars
  <2>1. UNCHANGED <<chan, handler, stream, context, posted, frame, caught>>
    BY <1>5 DEF vars, rpc, past
  <2> QED BY <2>1 DEF ProgressInv, ConnectionInv, WaitingInv, OnConnection, Pending, chan
<1> QED BY <1>1, <1>2, <1>3, <1>4, <1>5 DEF Next

\* An RPC that has not been sent is never forgotten, and SETTINGS find every
\* handler ready: whatever fails, and whatever slots start, cancel and destroy.
\* The RPCs that a slot of finished() starts while handleSocketError() runs, and
\* no others, may wait until another RPC is started.  That createStream() is not
\* refused before SETTINGS is assumed.
THEOREM NobodyStranded == ASSUME ~EarlyRefusals PROVE Spec => []NoStrandedRpc
<1>1. Init => ProgressInv
  BY DEF Init, ProgressInv, ConnectionInv, WaitingInv, NoFrame
<1>2. StateOK /\ LifeInv /\ StreamInv /\ ProgressInv /\ [Next]_vars => ProgressInv'
  BY StepProgress
<1>3. StateOK /\ LifeInv /\ ProgressInv => NoStrandedRpc
  <2> SUFFICES ASSUME StateOK, LifeInv, ProgressInv, EventLoop, NEW o \in NonExpired
               PROVE  /\ state = "Connected" =>
                             /\ stream[o] # "Null"
                             /\ \/ handler[o] \in {"Idle"} \cup Endpoints
                                \/ handler[o] = "RequestHeadersSent" /\ o \in caught
                      /\ handler[o] = "Idle" =>
                             \/ state = "Connecting" /\ (reconnectTimer \/ socket = "Connecting")
                             \/ state = "Connected"
                             \/ state = "Error" /\ o \in caught
                             \/ Contains(posted, Event("asyncFinish", o))
    BY DEF NoStrandedRpc, ReadyForSettings
  <2>1. /\ o \in Ops /\ context[o] = "Alive" /\ handler[o] # "None" /\ frame.kind = "none"
        /\ frame.rest = {} /\ WaitingInv(o) /\ ConnectionInv
    BY DEF NonExpired, Expired, Handlers, EventLoop, ProgressInv, LifeInv, FrameInv
  <2>2. handler[o] \in {"Idle", "RequestHeadersSent", "Active"} \cup Endpoints
    BY <2>1 DEF StateOK, HandlerStates, Endpoints
  <2>3. state = "Connected" =>
            /\ stream[o] # "Null"
            /\ \/ handler[o] \in {"Idle"} \cup Endpoints
               \/ handler[o] = "RequestHeadersSent" /\ o \in caught
    BY <2>1, <2>2 DEF WaitingInv, OnConnection
  <2>4. channel
    BY <2>1 DEF WaitingInv
  <2>5. state \in ConnectionStates
    BY DEF StateOK
  <2> QED BY <2>1, <2>3, <2>4, <2>5 DEF WaitingInv, ConnectionInv, ConnectionStates, Pending
<1> QED BY <1>1, <1>2, <1>3, StateTyped, LifeInvariant, StreamsInvariant, PTL DEF Spec

-----------------------------------------------------------------------------
(* What reaches the user.                                                  *)

\* What a step adds to the histories: cancelWithStatus() of one RPC, or the
\* start of one.
LEMMA PastChanges ==
    ASSUME LifeInv, [Next]_vars
    PROVE  /\ \/ UNCHANGED <<cancelled, allowed>>
              \/ \E o \in Ops : /\ CancelWithStatus(o) /\ handler[o] # "None"
                                /\ UNCHANGED <<context, received, frame>>
           /\ UNCHANGED caught \/ \E o \in Ops : caught' = caught \cup {o}
<1>1. CASE User
  <2>1. ASSUME NEW o \in Ops, Start(o)
        PROVE  UNCHANGED <<cancelled, allowed>> /\ (UNCHANGED caught \/ caught' = caught \cup {o})
    BY <2>1 DEF Start
  <2>2. ASSUME NEW o \in Ops, Cancel(o)
        PROVE  /\ CancelWithStatus(o) /\ handler[o] # "None"
               /\ UNCHANGED <<context, received, frame, caught>>
    BY <2>2 DEF Cancel
  <2>3. ASSUME NEW o \in Ops, Destroy(o) PROVE UNCHANGED past
    BY <2>3 DEF Destroy
  <2> QED BY <1>1, <2>1, <2>2, <2>3 DEF User, past
<1>2. CASE Peer \/ DestroyChannel
  <2>1. UNCHANGED past
    BY <1>2 DEF Peer, DestroyChannel, SocketConnected, SettingsFrameReceived, SocketErrorOccurred,
                HeadersReceived, DataReceived, StreamErrorOccurred
  <2> QED BY <2>1 DEF past
<1>3. CASE Library
  <2>1. ASSUME NEW o \in Ops, DeadlineFires(o)
        PROVE  /\ CancelWithStatus(o) /\ handler[o] # "None"
               /\ UNCHANGED <<context, received, frame, caught>>
    BY <2>1 DEF DeadlineFires, LifeInv, HandlerInv
  <2>2. CASE ~\E o \in Ops : DeadlineFires(o)
    <3>1. UNCHANGED past
      BY <1>3, <2>2
         DEF Library, Dispatch, ConnectLoopStep, SettingsLoopStep, SettingsLoopEnd, ErrorLoopStep,
             ErrorLoopEnd, TeardownEnd, DataStep, ConnectTimeoutFires, ReconnectTimerFires
    <3> QED BY <3>1 DEF past
  <2> QED BY <2>1, <2>2
<1>4. CASE UNCHANGED vars
  BY <1>4 DEF vars, past
<1> QED BY <1>1, <1>2, <1>3, <1>4 DEF Next

\* The variables have their types, the histories included.
THEOREM TypeCorrect == Spec => []TypeOK
<1>1. Init => PastOK
  BY DEF Init, PastOK
<1>2. StateOK /\ LifeInv /\ PastOK /\ [Next]_vars => PastOK'
  <2> SUFFICES ASSUME StateOK, LifeInv, PastOK, [Next]_vars PROVE PastOK'
    OBVIOUS
  <2>1. caught' \subseteq Ops
    BY PastChanges DEF PastOK
  <2>2. ASSUME NEW o \in Ops, CancelWithStatus(o)
        PROVE  cancelled' \subseteq Ops /\ allowed' \in [Ops -> Nat]
    <3>1. received[o] + InSuspendedFrame(o) \in Nat
      BY DEF StateOK, InSuspendedFrame
    <3> QED BY <2>2, <3>1 DEF CancelWithStatus, PastOK
  <2> QED BY <2>1, <2>2, PastChanges DEF PastOK
<1>3. StateOK /\ PastOK => TypeOK
  BY DEF TypeOK
<1> QED BY <1>1, <1>2, <1>3, StateTyped, LifeInvariant, PTL DEF Spec

\* Nothing more is given to the user of o: its handler is Cancelled or gone, or
\* the operation is.
Silenced(o) == /\ context[o] # "Unused"
               /\ handler[o] \in {"Cancelled", "None"} \/ context[o] = "Destroyed"

\* finish() changes no handler that is Cancelled.
LEMMA FinishKeepsCancelled ==
    ASSUME StateOK, NEW o \in Ops, NEW p \in Ops, NEW q, Silenced(p),
           Finish(o, handler[o], q), handler[o] # "None", UNCHANGED context
    PROVE  Silenced(p)'
<1>1. CASE HandleContextExpired(o, q)
  BY <1>1 DEF HandleContextExpired, Silenced, StateOK
<1>2. CASE AlreadyFinished(o, handler[o], q)
  BY <1>2 DEF AlreadyFinished, Silenced
<1>3. CASE FinishNow(o, handler[o], q)
  BY <1>3 DEF FinishNow, Silenced, StateOK
<1> QED BY <1>1, <1>2, <1>3 DEF Finish

\* cancelWithStatus() silences an RPC.
LEMMA CancelSilencesIt ==
    ASSUME StateOK, LifeInv, NEW o \in Ops, handler[o] # "None", CancelWithStatus(o), UNCHANGED context
    PROVE  Silenced(o)' /\ \A p \in Ops : Silenced(p) => Silenced(p)'
<1>1. context[o] # "Unused" /\ Finish(o, "Cancelled", posted)
  BY DEF CancelWithStatus, LifeInv, HandlerInv
<1>2. handler' = [handler EXCEPT ![o] = "Cancelled"]
  BY <1>1 DEF Finish, HandleContextExpired, AlreadyFinished, FinishNow
<1> QED BY <1>1, <1>2 DEF Silenced, StateOK

\* And nothing that follows gives it back its voice.
LEMMA StaysSilenced ==
    ASSUME StateOK, LifeInv, [Next]_vars, NEW p \in Ops, Silenced(p)
    PROVE  Silenced(p)'
<1>1. ASSUME NEW o \in Ops, handler[o] # "None", handler[o] # "Cancelled" \/ handler'[o] = "Cancelled",
             \E h : handler' = [handler EXCEPT ![o] = h], UNCHANGED context
      PROVE  Silenced(p)'
  BY <1>1 DEF Silenced, StateOK
<1>2. ASSUME UNCHANGED <<handler, context>> PROVE Silenced(p)'
  BY <1>2 DEF Silenced
<1>3. ASSUME \A o \in Ops : handler'[o] \in {"None", handler[o]}, UNCHANGED context PROVE Silenced(p)'
  BY <1>3 DEF Silenced
<1>4. CASE User
  <2>1. ASSUME NEW o \in Ops, Start(o) PROVE Silenced(p)'
    <3>1. /\ o # p /\ context' = [context EXCEPT ![o] = "Alive"]
          /\ handler' = handler \/ \E h : handler' = [handler EXCEPT ![o] = h]
      BY <2>1 DEF Start, RefuseUnwritable, RefuseNoChannel, WaitForConnection, WaitForSettings,
                  SendAtOnce, CreateFails, SendFails, Silenced
    <3> QED BY <3>1 DEF Silenced, StateOK
  <2>2. ASSUME NEW o \in Ops, Cancel(o) PROVE Silenced(p)'
    BY <2>2, CancelSilencesIt DEF Cancel
  <2>3. ASSUME NEW o \in Ops, Destroy(o) PROVE Silenced(p)'
    BY <2>3 DEF Destroy, Silenced, StateOK
  <2> QED BY <1>4, <2>1, <2>2, <2>3 DEF User
<1>5. CASE Peer
  <2>1. ASSUME NEW o \in Ops, NEW endStream, NEW valid, HeadersReceived(o, endStream, valid)
        PROVE  Silenced(p)'
    <3>1. handler[o] # "None" /\ UNCHANGED context
      BY <2>1 DEF HeadersReceived, LifeInv, HandlerInv
    <3>2. CASE FinalHeaders(o, endStream, valid)
      <4>1. handler[o] \in {"RequestHeadersSent", "Active"} /\ Finish(o, "Active", posted)
        BY <3>2 DEF FinalHeaders
      <4>2. \E h : handler' = [handler EXCEPT ![o] = h]
        BY <4>1 DEF Finish, HandleContextExpired, AlreadyFinished, FinishNow
      <4> QED BY <1>1, <3>1, <4>1, <4>2
    <3>3. CASE InitialHeaders(o, endStream, valid)
      <4>1. handler[o] = "RequestHeadersSent" /\ handler' = [handler EXCEPT ![o] = "Active"]
        BY <3>3 DEF InitialHeaders
      <4> QED BY <1>1, <3>1, <4>1
    <3> QED BY <1>2, <2>1, <3>1, <3>2, <3>3 DEF HeadersReceived, IgnoreHeaders, UnexpectedHeaders
  <2>2. ASSUME NEW o \in Ops, NEW batch, NEW tail, DataReceived(o, batch, tail) PROVE Silenced(p)'
    <3>1. handler[o] # "None" /\ UNCHANGED context
      BY <2>2 DEF DataReceived, LifeInv, HandlerInv
    <3> QED BY <1>2, <2>2, <3>1, FinishKeepsCancelled DEF DataReceived, DataTail
  <2>3. ASSUME NEW o \in Ops, StreamErrorOccurred(o) PROVE Silenced(p)'
    <3>1. handler[o] # "None" /\ UNCHANGED context
      BY <2>3 DEF StreamErrorOccurred, LifeInv, HandlerInv
    <3> QED BY <2>3, <3>1, FinishKeepsCancelled DEF StreamErrorOccurred
  <2>4. CASE SocketConnected \/ SettingsFrameReceived \/ SocketErrorOccurred
    BY <1>2, <2>4 DEF SocketConnected, SettingsFrameReceived, SocketErrorOccurred, rpc
  <2> QED BY <1>5, <2>1, <2>2, <2>3, <2>4 DEF Peer
<1>6. CASE Library
  <2>1. CASE Dispatch
    <3>1. Head(posted).op \in Ops /\ UNCHANGED context
      BY <2>1, HeadIsEvent DEF Dispatch
    <3>2. CASE DispatchAsyncFinish(Head(posted))
      BY <1>2, <3>1, <3>2, FinishKeepsCancelled DEF DispatchAsyncFinish
    <3>3. CASE DispatchDelete(Head(posted))
      BY <1>3, <3>1, <3>3 DEF DispatchDelete, StateOK
    <3> QED BY <1>2, <2>1, <3>1, <3>2, <3>3 DEF Dispatch, DispatchVoid, DispatchFinished
  <2>2. CASE ConnectLoopStep \/ SettingsLoopStep \/ ErrorLoopStep \/ DataStep
    <3>1. UNCHANGED context
      BY <2>2 DEF ConnectLoopStep, SettingsLoopStep, ErrorLoopStep, DataStep
    <3>2. PICK o \in frame.rest :
             \/ handler' = handler
             \/ handler[o] \notin Endpoints /\ handler' = [handler EXCEPT ![o] = "RequestHeadersSent"]
             \/ Finish(o, handler[o], posted)
      BY <2>2 DEF ConnectLoopStep, SettingsLoopStep, ErrorLoopStep, DataStep, SkipExpired,
                  SendInitialRequest, DataTail
    <3>3. o \in Ops /\ handler[o] # "None"
      BY DEF StateOK, LifeInv, HandlerInv
    <3> QED BY <1>1, <1>2, <3>1, <3>2, <3>3, FinishKeepsCancelled DEF Endpoints
  <2>3. CASE SettingsLoopEnd \/ ErrorLoopEnd \/ TeardownEnd
    BY <1>3, <2>3 DEF SettingsLoopEnd, ErrorLoopEnd, TeardownEnd, DeleteExpired
  <2>4. CASE ConnectTimeoutFires \/ ReconnectTimerFires
    BY <1>2, <2>4 DEF ConnectTimeoutFires, ReconnectTimerFires, rpc
  <2>5. ASSUME NEW o \in Ops, DeadlineFires(o) PROVE Silenced(p)'
    <3>1. handler[o] # "None"
      BY <2>5 DEF DeadlineFires, LifeInv, HandlerInv
    <3> QED BY <2>5, <3>1, CancelSilencesIt DEF DeadlineFires
  <2> QED BY <1>6, <2>1, <2>2, <2>3, <2>4, <2>5 DEF Library
<1>7. CASE DestroyChannel \/ UNCHANGED vars
  BY <1>2, <1>7 DEF DestroyChannel, vars, rpc
<1> QED BY <1>4, <1>5, <1>6, <1>7 DEF Next

\* A silenced RPC receives what is left of the frame being parsed, no more.
LEMMA SilencedReceives ==
    ASSUME StateOK, LifeInv, [Next]_vars, NEW p \in Ops, Silenced(p)
    PROVE  received'[p] + InSuspendedFrame(p)' <= received[p] + InSuspendedFrame(p)
<1>1. received[p] \in Nat /\ InSuspendedFrame(p) \in Nat
  BY DEF StateOK, InSuspendedFrame
<1>2. ASSUME UNCHANGED received, UNCHANGED frame \/ frame'.kind # "data" PROVE
         received'[p] + InSuspendedFrame(p)' <= received[p] + InSuspendedFrame(p)
  BY <1>1, <1>2 DEF InSuspendedFrame
<1>3. CASE DataStep
  <2>1. PICK o \in frame.rest :
           \/ /\ MoreInBatch /\ received' = [received EXCEPT ![o] = @ + 1]
              /\ frame' = [frame EXCEPT !.batch = @ - 1]
           \/ UNCHANGED received /\ frame' = NoFrame
    BY <1>3 DEF DataStep
  <2>2. CASE UNCHANGED received /\ frame' = NoFrame
    BY <1>2, <2>2 DEF NoFrame
  <2>3. CASE /\ MoreInBatch /\ received' = [received EXCEPT ![o] = @ + 1]
             /\ frame' = [frame EXCEPT !.batch = @ - 1]
    <3>1. /\ frame.kind = "data" /\ frame.batch \in Nat /\ frame.batch > 0 /\ o \in Ops
          /\ frame'.kind = "data" /\ frame'.rest = frame.rest /\ frame'.batch = frame.batch - 1
      BY <1>3, <2>3 DEF DataStep, MoreInBatch, StateOK
    <3>2. received'[p] = IF p = o THEN received[p] + 1 ELSE received[p]
      BY <2>3 DEF StateOK
    <3> QED BY <1>1, <3>1, <3>2 DEF InSuspendedFrame
  <2> QED BY <2>1, <2>2, <2>3
<1>4. ASSUME NEW o \in Ops, NEW batch, NEW tail, DataReceived(o, batch, tail) PROVE
         received'[p] + InSuspendedFrame(p)' <= received[p] + InSuspendedFrame(p)
  <2>1. CASE UNCHANGED <<received, frame>>
    BY <1>2, <2>1
  <2>2. CASE /\ ~DataIsIgnored(o)
             /\ received' = [received EXCEPT ![o] = @ + 1]
             /\ frame' = [NoFrame EXCEPT !.kind = "data", !.rest = {o},
                                         !.batch = batch - 1, !.tail = tail, !.slot = TRUE]
    <3>1. p # o
      BY <1>4, <2>2 DEF DataReceived, DataIsIgnored, Silenced, LifeInv, HandlerInv
    <3>2. received'[p] = received[p] /\ p \notin frame'.rest
      BY <2>2, <3>1 DEF StateOK, NoFrame
    <3> QED BY <1>1, <3>2 DEF InSuspendedFrame
  <2> QED BY <1>4, <2>1, <2>2 DEF DataReceived
<1>5. CASE User
  BY <1>2, <1>5 DEF User, Start, Cancel, Destroy
<1>6. CASE Peer \/ DestroyChannel
  <2>1. CASE \/ SocketConnected \/ SettingsFrameReceived \/ SocketErrorOccurred \/ DestroyChannel
             \/ \E o \in Ops : \/ \E endStream, valid \in BOOLEAN : HeadersReceived(o, endStream, valid)
                               \/ StreamErrorOccurred(o)
    BY <1>2, <2>1 DEF SocketConnected, SettingsFrameReceived, SocketErrorOccurred, DestroyChannel,
                      HeadersReceived, StreamErrorOccurred, Enter, NoFrame, rpc
  <2> QED BY <1>4, <1>6, <2>1 DEF Peer
<1>7. CASE Library /\ ~DataStep
  <2>1. CASE ConnectLoopStep \/ SettingsLoopStep \/ ErrorLoopStep
    <3>1. UNCHANGED received /\ frame'.kind = frame.kind /\ frame.kind # "data"
      BY <2>1 DEF ConnectLoopStep, SettingsLoopStep, ErrorLoopStep, SkipExpired, StateOK
    <3> QED BY <1>2, <3>1
  <2>2. CASE Dispatch \/ ReconnectTimerFires \/ \E o \in Ops : DeadlineFires(o)
    <3>1. UNCHANGED <<received, frame>>
      BY <2>2 DEF Dispatch, ReconnectTimerFires, DeadlineFires, rpc
    <3> QED BY <1>2, <3>1
  <2>3. CASE SettingsLoopEnd \/ ErrorLoopEnd \/ TeardownEnd \/ ConnectTimeoutFires
    <3>1. UNCHANGED received
      BY <2>3 DEF SettingsLoopEnd, ErrorLoopEnd, TeardownEnd, ConnectTimeoutFires, rpc
    <3>2. frame' = NoFrame \/ Enter("error")
      BY <2>3 DEF SettingsLoopEnd, ErrorLoopEnd, TeardownEnd, ConnectTimeoutFires
    <3>3. ASSUME Enter("error") PROVE frame'.kind = "error"
      BY <3>3 DEF Enter, NoFrame
    <3>4. ASSUME frame' = NoFrame PROVE frame'.kind = "none"
      BY <3>4 DEF NoFrame
    <3> QED BY <1>2, <3>1, <3>2, <3>3, <3>4
  <2> QED BY <1>7, <2>1, <2>2, <2>3 DEF Library
<1>8. CASE UNCHANGED vars
  BY <1>2, <1>8 DEF vars, rpc
<1> QED BY <1>3, <1>5, <1>6, <1>7, <1>8 DEF Next

\* What is left for a cancelled RPC to receive, now and from the frame that is
\* being parsed, is within what it was allowed when it was cancelled.
SilenceInv == \A o \in cancelled :
                  Silenced(o) /\ received[o] + InSuspendedFrame(o) <= allowed[o]

\* Every step keeps SilenceInv.
LEMMA StepSilence ==
    ASSUME StateOK, PastOK, LifeInv, SilenceInv, [Next]_vars PROVE SilenceInv'
<1>1. ASSUME NEW p \in cancelled
      PROVE  Silenced(p)' /\ received'[p] + InSuspendedFrame(p)' <= allowed[p]
  <2>1. p \in Ops /\ Silenced(p) /\ received[p] + InSuspendedFrame(p) <= allowed[p]
    BY DEF SilenceInv, PastOK
  <2>2. Silenced(p)' /\ received'[p] + InSuspendedFrame(p)' <= received[p] + InSuspendedFrame(p)
    BY <2>1, StaysSilenced, SilencedReceives
  <2>3. /\ received[p] \in Nat /\ InSuspendedFrame(p) \in Nat /\ allowed[p] \in Nat
        /\ received'[p] \in Nat /\ InSuspendedFrame(p)' \in Nat
    BY <2>1, StepType DEF StateOK, PastOK, InSuspendedFrame
  <2> QED BY <2>1, <2>2, <2>3
<1>2. CASE UNCHANGED <<cancelled, allowed>>
  BY <1>1, <1>2 DEF SilenceInv
<1>3. ASSUME NEW o \in Ops, CancelWithStatus(o), handler[o] # "None",
             UNCHANGED <<context, received, frame>>
      PROVE  SilenceInv'
  <2>1. /\ cancelled' = cancelled \cup {o}
        /\ allowed' = [allowed EXCEPT ![o] = received[o] + InSuspendedFrame(o)]
    BY <1>3 DEF CancelWithStatus
  <2>2. InSuspendedFrame(o)' = InSuspendedFrame(o) /\ received[o] + InSuspendedFrame(o) \in Nat
    BY <1>3 DEF InSuspendedFrame, StateOK
  <2>3. allowed'[o] = received'[o] + InSuspendedFrame(o)' /\ allowed'[o] \in Nat
    BY <1>3, <2>1, <2>2 DEF PastOK
  <2>4. Silenced(o)'
    BY <1>3, CancelSilencesIt
  <2>5. \A p \in cancelled \ {o} : allowed'[p] = allowed[p]
    BY <2>1 DEF PastOK
  <2> QED BY <1>1, <2>1, <2>3, <2>4, <2>5 DEF SilenceInv
<1> QED BY <1>2, <1>3, PastChanges

\* Once cancelled by its user or its deadline, an RPC gives its user no message
\* but those of the frame whose parsing the cancel interrupted.
THEOREM CancelSilences == Spec => []NoMessageAfterCancel
<1>1. Init => SilenceInv
  BY DEF Init, SilenceInv
<1>2. TypeOK /\ LifeInv /\ SilenceInv /\ [Next]_vars => SilenceInv'
  BY StepSilence DEF TypeOK
<1>3. TypeOK /\ SilenceInv => NoMessageAfterCancel
  <2> SUFFICES ASSUME TypeOK, SilenceInv, NEW o \in cancelled PROVE received[o] <= allowed[o]
    BY DEF NoMessageAfterCancel
  <2>1. /\ received[o] \in Nat /\ InSuspendedFrame(o) \in Nat /\ allowed[o] \in Nat
        /\ received[o] + InSuspendedFrame(o) <= allowed[o]
    BY DEF TypeOK, StateOK, PastOK, SilenceInv, InSuspendedFrame
  <2> QED BY <2>1
<1> QED BY <1>1, <1>2, <1>3, TypeCorrect, LifeInvariant, PTL DEF Spec

-----------------------------------------------------------------------------
(* The safety half of ImplementsContract, step by step.                    *)

\* The phase of an RPC, from its owner and its outcome.
LEMMA PhaseValue ==
    ASSUME NEW o \in Ops
    PROVE  /\ context[o] = "Unused" => Phase(o) = "unused"
           /\ context[o] = "Destroyed" => Phase(o) = "dropped"
           /\ context[o] = "Alive" /\ op[o] = "Finished" => Phase(o) = "finished"
           /\ context[o] = "Alive" /\ op[o] # "Finished" => Phase(o) = "running"
BY DEF Phase

\* The phases after a step that touches one RPC.
LEMMA PhaseMoves ==
    ASSUME NEW o \in Ops, NEW v, Phase(o)' = v, \A p \in Ops \ {o} : Phase(p)' = Phase(p)
    PROVE  phase' = [phase EXCEPT ![o] = v]
BY DEF phase

\* Neither the owners nor the outcome of the RPCs change.
LEMMA SamePhase ==
    ASSUME UNCHANGED context,
           \A p \in Ops : context[p] = "Alive" => (op'[p] = "Finished" <=> op[p] = "Finished")
    PROVE  phase' = phase
<1>1. ASSUME NEW p \in Ops PROVE Phase(p)' = Phase(p)
  BY DEF Phase
<1> QED BY <1>1 DEF phase

\* finish() is Finish of the contract, or the RPC was finished or dropped before.
LEMMA FinishImplements ==
    ASSUME StateOK, NEW o \in Ops, NEW s, NEW q \in Seq(Events), Finish(o, s, q),
           UNCHANGED <<context, received>>
    PROVE  Contract!Finish(o) \/ UNCHANGED <<phase, received>>
<1>1. CASE op'[o] = "Finished" /\ op[o] # "Finished" /\ context[o] = "Alive"
  <2>1. \A p \in Ops \ {o} : op'[p] = op[p]
    BY FinishEffect
  <2>2. phase[o] = "running"
    BY <1>1, PhaseValue DEF phase
  <2>3. Phase(o)' = "finished" /\ \A p \in Ops \ {o} : Phase(p)' = Phase(p)
    BY <1>1, <2>1 DEF Phase
  <2>4. phase' = [phase EXCEPT ![o] = "finished"]
    BY <2>3, PhaseMoves
  <2> QED BY <2>2, <2>4 DEF Contract!Finish
<1>2. CASE ~(op'[o] = "Finished" /\ op[o] # "Finished" /\ context[o] = "Alive")
  <2>1. \A p \in Ops : context[p] = "Alive" => (op'[p] = "Finished" <=> op[p] = "Finished")
    BY <1>2, FinishEffect
  <2> QED BY <2>1, SamePhase
<1> QED BY <1>1, <1>2

\* Start and Destroy are Start and Drop of the contract.
LEMMA OwnerImplements ==
    ASSUME StateOK, OnceInv, NEW o \in Ops, Start(o) \/ Destroy(o)
    PROVE  Contract!Start(o) \/ Contract!Drop(o)
<1>1. CASE Start(o)
  <2>1. /\ context[o] = "Unused" /\ context' = [context EXCEPT ![o] = "Alive"] /\ UNCHANGED received
        /\ op' = op \/ op' = [op EXCEPT ![o] = "Valid"]
    BY <1>1 DEF Start, RefuseUnwritable, RefuseNoChannel, WaitForConnection, WaitForSettings,
                SendAtOnce, CreateFails, SendFails
  <2>2. op'[o] # "Finished" /\ \A p \in Ops \ {o} : op'[p] = op[p] /\ context'[p] = context[p]
    BY <2>1 DEF StateOK, OnceInv
  <2>3. context'[o] = "Alive"
    BY <2>1 DEF StateOK
  <2>4. phase[o] = "unused"
    BY <2>1, PhaseValue DEF phase
  <2>5. Phase(o)' = "running" /\ \A p \in Ops \ {o} : Phase(p)' = Phase(p)
    BY <2>2, <2>3 DEF Phase
  <2>6. phase' = [phase EXCEPT ![o] = "running"]
    BY <2>5, PhaseMoves
  <2> QED BY <2>1, <2>4, <2>6 DEF Contract!Start
<1>2. CASE Destroy(o)
  <2>1. /\ context[o] = "Alive" /\ context' = [context EXCEPT ![o] = "Destroyed"]
        /\ UNCHANGED <<op, received>>
    BY <1>2 DEF Destroy
  <2>2. context'[o] = "Destroyed" /\ \A p \in Ops \ {o} : context'[p] = context[p]
    BY <2>1 DEF StateOK
  <2>3. phase[o] \in {"running", "finished"}
    BY <2>1, PhaseValue DEF phase
  <2>4. Phase(o)' = "dropped" /\ \A p \in Ops \ {o} : Phase(p)' = Phase(p)
    BY <2>1, <2>2 DEF Phase
  <2>5. phase' = [phase EXCEPT ![o] = "dropped"]
    BY <2>4, PhaseMoves
  <2> QED BY <2>1, <2>3, <2>5 DEF Contract!Drop
<1> QED BY <1>1, <1>2

\* A frame is over with its only message.
BatchInv == frame.batch = 0

\* No step leaves a message of a frame for later.
LEMMA StepBatch ==
    ASSUME MaxBatch <= 1, StateOK, BatchInv, [Next]_vars PROVE BatchInv'
<1>1. CASE User
  BY <1>1 DEF User, Start, Cancel, Destroy, BatchInv
<1>2. CASE Peer \/ DestroyChannel
  <2>1. ASSUME NEW o \in Ops, NEW batch \in 0..MaxBatch, NEW tail, DataReceived(o, batch, tail)
        PROVE  BatchInv'
    <3>1. CASE UNCHANGED frame
      BY <3>1 DEF BatchInv
    <3>2. CASE batch > 0 /\ frame'.batch = batch - 1
      BY <3>2, ChannelAssumption DEF BatchInv
    <3> QED BY <2>1, <3>1, <3>2 DEF DataReceived, NoFrame
  <2>2. CASE SocketConnected \/ SettingsFrameReceived \/ SocketErrorOccurred \/ DestroyChannel
    BY <2>2 DEF SocketConnected, SettingsFrameReceived, SocketErrorOccurred, DestroyChannel,
                Enter, NoFrame, BatchInv
  <2> QED BY <1>2, <2>1, <2>2 DEF Peer, HeadersReceived, StreamErrorOccurred, BatchInv
<1>3. CASE Library
  <2>1. CASE DataStep
    BY <2>1 DEF DataStep, MoreInBatch, NoFrame, BatchInv
  <2>2. CASE ConnectLoopStep \/ SettingsLoopStep \/ ErrorLoopStep
    <3>1. PICK o \in frame.rest :
             \/ SkipExpired(o)
             \/ frame' = [frame EXCEPT !.rest = @ \ {o}]
             \/ frame' = [frame EXCEPT !.rest = @ \ {o}, !.slot = (emitted' # emitted)]
      BY <2>2 DEF ConnectLoopStep, SettingsLoopStep, ErrorLoopStep
    <3>2. frame'.batch = frame.batch
      BY <3>1 DEF SkipExpired, StateOK
    <3> QED BY <3>2 DEF BatchInv
  <2>3. CASE SettingsLoopEnd \/ ErrorLoopEnd \/ TeardownEnd \/ ConnectTimeoutFires
    <3>1. CASE frame' = NoFrame
      BY <3>1 DEF NoFrame, BatchInv
    <3>2. CASE Enter("error")
      BY <3>2 DEF Enter, NoFrame, BatchInv
    <3> QED BY <2>3, <3>1, <3>2 DEF SettingsLoopEnd, ErrorLoopEnd, TeardownEnd, ConnectTimeoutFires
  <2>4. CASE Dispatch \/ ReconnectTimerFires \/ \E o \in Ops : DeadlineFires(o)
    BY <2>4 DEF Dispatch, ReconnectTimerFires, DeadlineFires, BatchInv
  <2> QED BY <1>3, <2>1, <2>2, <2>3, <2>4 DEF Library
<1>4. CASE UNCHANGED vars
  BY <1>4 DEF vars, BatchInv
<1> QED BY <1>1, <1>2, <1>3, <1>4 DEF Next

\* A message is delivered to an RPC that runs, unless DATA may come late.
LEMMA DeliveryImplements ==
    ASSUME ~LateFrames, StateOK, LifeInv, NEW o \in Ops, NEW batch, NEW tail \in Tails,
           DataReceived(o, batch, tail)
    PROVE  Contract!Deliver(o) \/ Contract!Finish(o) \/ UNCHANGED <<phase, received>>
<1>1. /\ context[o] = "Alive" /\ stream[o] = "Open" /\ handler[o] # "Finished"
      /\ UNCHANGED context
  BY DEF DataReceived
<1>2. CASE UNCHANGED <<op, received>>
  <2>1. phase' = phase
    BY <1>1, <1>2, SamePhase
  <2> QED BY <1>2, <2>1
<1>3. CASE UNCHANGED received /\ \E s : Finish(o, s, posted)
  <2>1. posted \in Seq(Events)
    BY DEF StateOK
  <2> QED BY <1>1, <1>3, <2>1, FinishImplements
<1>4. CASE /\ ~DataIsIgnored(o) /\ UNCHANGED op
           /\ received' = [received EXCEPT ![o] = @ + 1]
  <2>1. handler[o] \notin Endpoints \cup {"None"}
    BY <1>1, <1>4 DEF DataIsIgnored, Endpoints, LifeInv, HandlerInv
  <2>2. op[o] # "Finished"
    BY <1>1, <2>1 DEF LifeInv, HandlerInv
  <2>3. phase[o] = "running"
    BY <1>1, <2>2, PhaseValue DEF phase
  <2>4. phase' = phase
    BY <1>1, <1>4, SamePhase
  <2> QED BY <1>4, <2>3, <2>4 DEF Contract!Deliver
<1> QED BY <1>2, <1>3, <1>4 DEF DataReceived, DataTail

\* finish() called by a loop, a posted failure, a timer or the peer; or an RPC
\* whose only end was posted is told of it.
LEMMA DispatchImplements ==
    ASSUME StateOK, Dispatch
    PROVE  (\E o \in Ops : Contract!Finish(o)) \/ UNCHANGED <<phase, received>>
<1> DEFINE e == Head(posted)
<1>1. e.op \in Ops /\ Tail(posted) \in Seq(Events)
  BY HeadIsEvent
<1>2. PICK o \in Ops : o = e.op
  BY <1>1
<1>3. UNCHANGED <<context, received>>
  BY DEF Dispatch
<1>4. CASE UNCHANGED op
  BY <1>3, <1>4, SamePhase
<1>5. CASE DispatchFinished(e)
  <2>1. context[o] = "Alive" /\ op' = [op EXCEPT ![o] = "Finished"]
    BY <1>2, <1>5 DEF DispatchFinished, Void, EmitFinished
  <2>2. op'[o] = "Finished" /\ \A p \in Ops \ {o} : op'[p] = op[p]
    BY <2>1 DEF StateOK
  <2>3. CASE op[o] = "Finished"
    BY <1>3, <2>2, <2>3, SamePhase
  <2>4. CASE op[o] # "Finished"
    <3>1. phase[o] = "running"
      BY <2>1, <2>4, PhaseValue DEF phase
    <3>2. Phase(o)' = "finished" /\ \A p \in Ops \ {o} : Phase(p)' = Phase(p)
      BY <1>3, <2>1, <2>2 DEF Phase
    <3>3. phase' = [phase EXCEPT ![o] = "finished"]
      BY <3>2, PhaseMoves
    <3> QED BY <1>3, <3>1, <3>3 DEF Contract!Finish
  <2> QED BY <2>3, <2>4
<1>6. CASE \E s : Finish(o, s, Tail(posted))
  BY <1>1, <1>3, <1>6, FinishImplements
<1>7. DispatchAsyncFinish(e) => UNCHANGED op \/ \E s : Finish(o, s, Tail(posted))
  BY <1>2 DEF DispatchAsyncFinish
<1>8. DispatchVoid(e) \/ DispatchDelete(e) => UNCHANGED op
  BY DEF DispatchVoid, DispatchDelete
<1> HIDE DEF e
<1>9. DispatchVoid(e) \/ DispatchFinished(e) \/ DispatchAsyncFinish(e) \/ DispatchDelete(e)
  BY DEF Dispatch, e
<1> QED BY <1>4, <1>5, <1>6, <1>7, <1>8, <1>9

\* The loops over the handlers finish RPCs, one at a time, or leave the outcomes
\* alone.
LEMMA LibraryImplements ==
    ASSUME StateOK, BatchInv, Library
    PROVE  (\E o \in Ops : Contract!Finish(o)) \/ UNCHANGED <<phase, received>>
<1>1. posted \in Seq(Events) /\ frame.rest \subseteq Ops
  BY DEF StateOK
<1>2. CASE Dispatch
  BY <1>2, DispatchImplements
<1>3. CASE UNCHANGED <<context, op, received>>
  BY <1>3, SamePhase
<1>4. ASSUME NEW o \in Ops, NEW s, Finish(o, s, posted), UNCHANGED <<context, received>>
      PROVE  Contract!Finish(o) \/ UNCHANGED <<phase, received>>
  BY <1>1, <1>4, FinishImplements
<1>5. CASE DataStep
  <2>1. PICK o \in frame.rest : /\ DataTail(o, frame.tail)
                                /\ UNCHANGED <<context, received>>
    BY <1>5 DEF DataStep, MoreInBatch, BatchInv
  <2> QED BY <1>1, <1>3, <1>4, <2>1 DEF DataTail
<1>6. CASE ErrorLoopStep
  <2>1. PICK o \in frame.rest : /\ SkipExpired(o) \/ Finish(o, handler[o], posted)
                                /\ UNCHANGED <<context, received>>
    BY <1>6 DEF ErrorLoopStep
  <2> QED BY <1>1, <1>3, <1>4, <2>1 DEF SkipExpired
<1>7. CASE \E o \in Ops : DeadlineFires(o)
  BY <1>4, <1>7 DEF DeadlineFires, CancelWithStatus
<1>8. CASE ConnectLoopStep \/ SettingsLoopStep
  BY <1>3, <1>8 DEF ConnectLoopStep, SettingsLoopStep, SkipExpired
<1>9. CASE SettingsLoopEnd \/ ErrorLoopEnd \/ TeardownEnd \/ ConnectTimeoutFires \/ ReconnectTimerFires
  BY <1>3, <1>9 DEF SettingsLoopEnd, ErrorLoopEnd, TeardownEnd, ConnectTimeoutFires,
                    ReconnectTimerFires, rpc
<1> QED BY <1>2, <1>5, <1>6, <1>7, <1>8, <1>9 DEF Library

\* Every step of the channel is a step of the contract, or none.
LEMMA StepContract ==
    ASSUME ~LateFrames, StateOK, OnceInv, LifeInv, BatchInv, [Next]_vars
    PROVE  [Contract!Next]_<<phase, received>>
<1>1. posted \in Seq(Events)
  BY DEF StateOK
<1>2. ASSUME NEW o \in Ops, NEW s, Finish(o, s, posted), UNCHANGED <<context, received>>
      PROVE  Contract!Finish(o) \/ UNCHANGED <<phase, received>>
  BY <1>1, <1>2, FinishImplements
<1>3. CASE UNCHANGED <<context, op, received>>
  BY <1>3, SamePhase
<1>4. CASE User
  <2>1. PICK o \in Ops : Start(o) \/ Cancel(o) \/ Destroy(o)
    BY <1>4 DEF User
  <2>2. CASE Start(o) \/ Destroy(o)
    BY <2>2, OwnerImplements DEF Contract!Next
  <2>3. CASE Cancel(o)
    BY <1>2, <2>3 DEF Cancel, CancelWithStatus, Contract!Next
  <2> QED BY <2>1, <2>2, <2>3
<1>5. CASE Library
  BY <1>5, LibraryImplements DEF Contract!Next
<1>6. CASE SocketConnected \/ SettingsFrameReceived \/ SocketErrorOccurred \/ DestroyChannel
  BY <1>3, <1>6 DEF SocketConnected, SettingsFrameReceived, SocketErrorOccurred, DestroyChannel,
                    rpc
<1>7. ASSUME NEW o \in Ops, NEW endStream, NEW valid, HeadersReceived(o, endStream, valid)
      PROVE  [Contract!Next]_<<phase, received>>
  <2>1. UNCHANGED <<context, received>>
    BY <1>7 DEF HeadersReceived
  <2>2. UNCHANGED op \/ Finish(o, "Active", posted)
    BY <1>7 DEF HeadersReceived, IgnoreHeaders, UnexpectedHeaders, InitialHeaders, FinalHeaders
  <2> QED BY <1>2, <1>3, <2>1, <2>2 DEF Contract!Next
<1>8. ASSUME NEW o \in Ops, NEW batch, NEW tail \in Tails, DataReceived(o, batch, tail)
      PROVE  [Contract!Next]_<<phase, received>>
  BY <1>8, DeliveryImplements DEF Contract!Next
<1>9. ASSUME NEW o \in Ops, StreamErrorOccurred(o)
      PROVE  [Contract!Next]_<<phase, received>>
  BY <1>2, <1>9 DEF StreamErrorOccurred, Contract!Next
<1>10. CASE Peer
  BY <1>6, <1>7, <1>8, <1>9, <1>10 DEF Peer
<1>11. CASE UNCHANGED vars
  BY <1>3, <1>11 DEF vars, rpc
<1> QED BY <1>4, <1>5, <1>6, <1>10, <1>11 DEF Next

\* The channel implements the contract: an RPC gives messages only while it runs,
\* ends at most once and never comes back, whatever the slots of its signals do.
\* Two things are assumed of the peer, as in the run that checks it: no DATA frame
\* follows the end of an RPC, and none holds more than one message.
THEOREM ContractKept ==
    ASSUME ~LateFrames, MaxBatch <= 1 PROVE Spec => Contract!Spec
<1>1. Init => OnceInv /\ BatchInv
  BY DEF Init, OnceInv, BatchInv, NoFrame
<1>2. Init => Contract!Init
  <2> SUFFICES ASSUME Init PROVE Contract!Init
    OBVIOUS
  <2>1. \A o \in Ops : Phase(o) = "unused"
    BY PhaseValue DEF Init
  <2> QED BY <2>1 DEF Contract!Init, phase, Init
<1>3. StateOK /\ OnceInv /\ [Next]_vars => OnceInv'
  BY StepOnce
<1>4. StateOK /\ BatchInv /\ [Next]_vars => BatchInv'
  BY StepBatch
<1>5. StateOK /\ OnceInv /\ LifeInv /\ BatchInv /\ [Next]_vars
          => [Contract!Next]_<<phase, received>>
  BY StepContract
<1>6. Contract!Spec <=> Contract!Init /\ [][Contract!Next]_<<phase, received>>
  BY DEF Contract!Spec, Contract!vars
<1> QED BY <1>1, <1>2, <1>3, <1>4, <1>5, <1>6, StateTyped, LifeInvariant, PTL DEF Spec
=============================================================================
