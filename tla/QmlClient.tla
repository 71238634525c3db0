------------------------------ MODULE QmlClient ------------------------------
(***************************************************************************)
(* RPCs that a script starts through the generated QML client.  The        *)
(* script passes callbacks; the RPC object belongs to the slot of its own  *)
(* finished() that calls them, so it is destroyed within the emission, in  *)
(* the loop of attachChannel() too, or when the script engine goes away    *)
(* with its connections.  For streams it may write to, the script owns a   *)
(* sender, which outlives the RPC.                                         *)
(*                                                                         *)
(* A script that runs in a callback may start RPCs and attach a channel,   *)
(* also within attachChannel(), so the slots of finished() form a stack.   *)
(***************************************************************************)
EXTENDS ClientBase, Sequences

CONSTANTS JsOps,        \* the RPCs of the script; the others are the program's
          Callbacks,    \* which callbacks scripts pass: sets of names
          MaxMessages   \* bound: messages received by an RPC

ASSUME JsAssumption ==
    /\ JsOps \subseteq Ops
    /\ Callbacks \subseteq SUBSET {"message", "finish", "error"}
    /\ MaxMessages \in Nat

VARIABLES engine,   \* the QJSEngine: "Alive", "Dying", "Gone"
          js,       \* what the script and the slots know of each RPC
          slots,    \* RPCs whose slot for finished() runs, innermost last
          bases     \* how deep in that stack each attachChannel() runs, innermost first

jsVars == <<engine, js, slots, bases>>
qmlVars == <<vars, jsVars>>

Kinds == {"call", "client", "server", "bidi"}
NoSender == [object |-> FALSE, stream |-> FALSE, late |-> FALSE]
Unknown == [kind |-> "None", callable |-> {}, owned |-> FALSE, sender |-> NoSender,
            came |-> <<>>, status |-> "None", heard |-> <<>>]

QmlInit ==
    /\ Init
    /\ engine = "Alive"
    /\ js = [o \in JsOps |-> Unknown]
    /\ slots = <<>>
    /\ bases = <<>>

InEventLoop == slots = <<>> /\ ~loop.on /\ engine # "Dying"

\* The loop of attachChannel() goes on once the slots it called have returned.
SlotsReturned == bases # <<>> => Len(slots) = Head(bases)

\* The script runs: from the event loop, or in a callback.
ScriptRuns == engine = "Alive" /\ (loop.on => ~SlotsReturned)

\* So does the program, called from a script or in a slot of its own.
ProgramRuns ==
    \/ InEventLoop
    \/ ScriptRuns /\ slots # <<>>
    \/ loop.on /\ SlotsReturned /\ loop.slot \in Ops \ JsOps
-----------------------------------------------------------------------------
(* The callbacks.  A callback that is not callable is passed over.         *)

Call(callable, name, what) == IF name \in callable THEN <<what>> ELSE <<>>

handleDeserializationError(callable) == Call(callable, "error", "unreadable")

\* Without a callback for the message, nothing is said of an unreadable one.
handleReceivedMessage(callable, name, readable) ==
    IF name \notin callable THEN <<>>
    ELSE IF readable THEN <<"message">>
    ELSE handleDeserializationError(callable)

SlipCheckReceivedStatus(callable, status, then) == Call(callable, "error", "status") \o then

checkReceivedStatus(callable, status, then) ==
    IF status = "Ok" THEN then ELSE Call(callable, "error", "status")

\* Streams of the server: the message callback has had the messages.
MultipleReceiveFinished(callable, status) ==
    checkReceivedStatus(callable, status, Call(callable, "finish", "finish"))

\* One answer: read() takes the message that came last.
SingleReceiveFinished(callable, status, readable) ==
    checkReceivedStatus(callable, status, handleReceivedMessage(callable, "finish", readable))

Streams == {"server", "bidi"}   \* kinds that hear of each message

ReadableLast(came) == came = <<>> \/ came[Len(came)]

HeardAtEnd(r, status) ==
    IF r.kind \in Streams THEN MultipleReceiveFinished(r.callable, status)
    ELSE SingleReceiveFinished(r.callable, status, ReadableLast(r.came))
-----------------------------------------------------------------------------
(* The generated methods. *)

MakeConnections(o, kind, callable, sender) ==
    js' = [js EXCEPT ![o] = [Unknown EXCEPT !.kind = kind, !.callable = callable,
                                            !.owned = TRUE, !.sender = sender]]

NewSender == [NoSender EXCEPT !.object = TRUE, !.stream = TRUE]

JsCall(o, callable) == MakeConnections(o, "call", callable, NoSender)
JsServerStream(o, callable) == MakeConnections(o, "server", callable, NoSender)
JsClientStream(o, callable) == MakeConnections(o, "client", callable, NewSender)
JsBidiStream(o, callable) == MakeConnections(o, "bidi", callable, NewSender)

JsStart(o, callable) ==
    /\ ScriptRuns
    /\ Start(o)
    /\ \/ JsCall(o, callable)
       \/ JsServerStream(o, callable)
       \/ JsClientStream(o, callable)
       \/ JsBidiStream(o, callable)
    /\ UNCHANGED <<engine, slots, bases>>

\* messageReceived(), which only the streams of the server are connected to.
JsMessageReceived(o, readable) ==
    /\ InEventLoop
    /\ op[o] = "Tracked" /\ js[o].owned
    /\ Len(js[o].came) < MaxMessages
    /\ js' = [js EXCEPT ![o].came = Append(@, readable),
                        ![o].heard = IF js[o].kind \in Streams
                                     THEN @ \o handleReceivedMessage(js[o].callable, "message", readable)
                                     ELSE @]
    /\ UNCHANGED <<vars, engine, slots, bases>>

\* The slot of finished() is called.
FinishedSlot(o, status) ==
    /\ js' = [js EXCEPT ![o].status = status,
                        ![o].heard = @ \o HeardAtEnd(js[o], status)]
    /\ slots' = Append(slots, o)
    /\ UNCHANGED <<engine, bases>>

JsFinishes(o) ==
    /\ InEventLoop
    /\ js[o].owned
    /\ OpFinishes(o)
    /\ \E status \in {"Ok", "Failed"} : /\ op[o] # "Tracked" => status = "Failed"
                                        /\ FinishedSlot(o, status)

\* The sender's slot for destroyed().
ForgetStream(sender) == [sender EXCEPT !.stream = FALSE]

\* The slot object and with it the RPC is deleted.
SlotDeleted(o) ==
    /\ op' = [op EXCEPT ![o] = "Destroyed"]
    /\ RemoveDestroyed(o)
    /\ js' = [js EXCEPT ![o].owned = FALSE, ![o].sender = ForgetStream(@)]
    /\ UNCHANGED <<channel, loop, outer, bases>>

\* A slot that is connected once is gone when it has returned.
SlotReturns ==
    /\ slots # <<>>
    /\ loop.on => ~SlotsReturned
    /\ SlotDeleted(slots[Len(slots)])
    /\ slots' = SubSeq(slots, 1, Len(slots) - 1)
    /\ UNCHANGED engine

EngineDestroyed ==
    /\ InEventLoop /\ engine = "Alive"
    /\ engine' = "Dying"
    /\ UNCHANGED <<vars, js, slots, bases>>

\* The connections with the engine as receiver go one by one.
ConnectionDeleted(o) ==
    /\ engine = "Dying"
    /\ js[o].owned
    /\ SlotDeleted(o)
    /\ UNCHANGED <<engine, slots>>

EngineGone ==
    /\ engine = "Dying"
    /\ \A o \in JsOps : ~js[o].owned
    /\ engine' = "Gone"
    /\ js' = [o \in JsOps |-> [js[o] EXCEPT !.sender.object = FALSE]]
    /\ UNCHANGED <<vars, slots, bases>>

\* Slip: only the pointer is looked at.
SlipIsValidStream(o) == js[o].sender.stream

isValidStream(o) == js[o].sender.stream /\ op[o] # "Finished"

\* writeMessage() on the stream the pointer leads to.
SenderWrites(o) ==
    /\ ScriptRuns
    /\ js[o].sender.object
    /\ isValidStream(o)
    /\ js' = [js EXCEPT ![o].sender.late = @ \/ op[o] \in {"Finished", "Destroyed"}]
    /\ UNCHANGED <<vars, engine, slots, bases>>

SenderCollected(o) ==
    /\ ScriptRuns
    /\ js[o].sender.object
    /\ js' = [js EXCEPT ![o].sender = NoSender]
    /\ UNCHANGED <<vars, engine, slots, bases>>

\* attachChannel() of the client, by the program or by a callback.
QmlAttachChannel(ch) ==
    /\ ProgramRuns
    /\ AttachChannel(ch)
    /\ bases' = <<Len(slots)>> \o bases
    /\ UNCHANGED <<engine, js, slots>>

QmlCancelNext ==
    /\ SlotsReturned
    /\ CancelNext
    /\ LET o == memory[loop.it] IN
         \/ /\ op[o] = "Tracked" /\ o \in JsOps
            /\ FinishedSlot(o, "Failed")
         \/ /\ op[o] # "Tracked" \/ o \notin JsOps
            /\ UNCHANGED jsVars

QmlChannelChanged ==
    /\ SlotsReturned
    /\ ChannelChanged
    /\ bases' = Tail(bases)
    /\ UNCHANGED <<engine, js, slots>>

\* The program's own RPCs: it may cancel and destroy them in any slot.
ProgramStep(o) ==
    /\ ProgramRuns
    /\ \/ Start(o) \/ Destroy(o)
       \/ OpFinishes(o) /\ (InEventLoop \/ op[o] = "Tracked")
    /\ UNCHANGED jsVars

QmlNext ==
    \/ \E o \in JsOps :
          \/ \E callable \in Callbacks : JsStart(o, callable)
          \/ \E readable \in BOOLEAN : JsMessageReceived(o, readable)
          \/ JsFinishes(o) \/ ConnectionDeleted(o)
          \/ SenderWrites(o) \/ SenderCollected(o)
    \/ \E o \in Ops \ JsOps : ProgramStep(o)
    \/ \E ch \in Channels : QmlAttachChannel(ch)
    \/ QmlCancelNext \/ QmlChannelChanged
    \/ SlotReturns \/ EngineDestroyed \/ EngineGone

QmlSpec == QmlInit /\ [][QmlNext]_qmlVars
-----------------------------------------------------------------------------
(* Properties. *)

\* A script with all callbacks hears every RPC to its end: each message as it
\* came, and then, once and last, how the RPC ended, while it ran in the engine;
\* nothing before the end is taken for it.
HeardToTheEnd ==
    \A o \in JsOps :
        LET r == js[o]
            told == IF r.kind \in Streams THEN Len(r.came) ELSE 0
            ends == IF r.status = "None" THEN 0 ELSE 1
        IN  Cardinality(r.callable) = 3 =>
              /\ Len(r.heard) = told + ends
              /\ \A i \in 1..told : r.heard[i] = IF r.came[i] THEN "message" ELSE "unreadable"
              /\ r.status = "Failed" => r.heard[told + 1] = "status"
              /\ r.status = "Ok" =>
                    r.heard[told + 1] = IF r.kind \in Streams THEN "finish"
                                        ELSE IF ReadableLast(r.came) THEN "message" ELSE "unreadable"
              /\ op[o] \in {"Finished", "Destroyed"} => ends = 1 \/ engine # "Alive"

\* No message the script writes to a sender reaches an RPC that is gone or that
\* has finished, from the callbacks of its own end included, however the RPC
\* ended and however long the script keeps the sender; the RPC itself lives
\* exactly as long as its slot is connected or runs.
SenderKnowsEnd ==
    \A o \in JsOps :
        /\ js[o].sender.stream => op[o] # "Destroyed"
        /\ ~js[o].sender.late
        /\ js[o].owned <=> op[o] \notin {"Unused", "Destroyed"}
=============================================================================
