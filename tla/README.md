# Qt GRPC and Qt Protobuf: a verification model

TLA+ modules that model Qt GRPC (`src/src/grpc`, `src/src/grpcquick`), the Qt
Protobuf run time (`src/src/protobuf`, `src/src/wellknown`,
`src/src/protobufqttypes`) and the code generators (`src/src/tools`), TLC
configurations that check them on small instances, and proofs, checked by
TLAPS, of the safety of the run time of Qt GRPC and of the registration of types
for all values of the constants.
Source paths are relative to the directory that holds `src/`; a file is named
in full once and by its last part afterwards.

## 1. Inventory

The client of Qt GRPC runs on one thread, driven by an event loop:
`attachChannel()` and the start of an RPC refuse other threads. What makes it
hard is not parallelism but order: socket, timer and posted events come in any
order, objects are deleted later (`deleteLater()`) than they stop being useful,
and signals are synchronous calls, so a slot of the user runs in the middle of
library code and may call back into it. The serializers are sequential, but one
object serves many calls and keeps stacks and caches between them. Message and
option objects are values with explicitly shared payloads, where every single
accessor has to detach by itself. Only the registries of types are used by
several threads.

| Component | State | Operations | Interacts with |
| --- | --- | --- | --- |
| `QGrpcHttp2ChannelPrivate` (connection) | `m_state`, `m_connection`, `m_socket`, reconnect and connect-timeout timers, backoff | `processOperation`, `attemptConnect`, `createHttp2Connection`, SETTINGS, `handleSocketError`, destruction | creates the handlers as its children, loops over them with `for_each_non_expired_handler` |
| `Http2Handler` (one RPC) | `m_state`, `m_stream`, `m_context`, `m_deadlineTimer` | `attachStream`, `sendInitialRequest`, `handleHeaders`, `dataReceived`, `finish`, `asyncFinish`, `cancelWithStatus` | slots of the HTTP/2 stream below it and of the operation context above it |
| `Http2Handler` (outgoing) | `m_queue`, `m_writesDoneSent`, `m_drainingQueue`, `m_inFlightUserWrite`, `m_queuedBytes`, `m_bytesToWrite` | `writeMessage`, `writesDone`, `processQueue`, `bytesWritten`, `uploadFinished`, `scheduleMessageWritten` | `QHttp2Stream::sendDATA`, which calls back synchronously |
| `GrpcDataParser`, decompressor | buffer of unparsed bytes, decoder | `feed`, `parseNextFrame`, inflating | fed by `dataReceived` |
| Headers and compression | the channel's options, cached `grpc-accept-encoding`, the deflate stream of a handler | `constructInitialHeaders`, `handleHeaders`, `tryCompressMessage`, `setChannelOptions` | finish the RPC, set metadata |
| Options, limits, backoff | shared payloads of `QGrpcChannelOptions` and `QGrpcCallOptions`; what the channel made of them | setters, copies, resolution against the environment, `ReconnectBackoff`, window sizes, transport and content-type | constructor of the channel |
| Interceptor chain and engine | the chain with owned and raw entries; per capability the ordered handlers | `add`, `set`, `clear`, `onStart` ... `onFinished` | between client base, operation and channel |
| `QGrpcOperation`, its context, streams, call reply | `state`, metadata | `cancel`, `writeMessage`, `writesDone`, the relay of `finished` | owned by the user, observed by the handler |
| `QGrpcClientBase` | `channel`, `activeStreams` | start of an RPC, `addStream`, `attachChannel` | slots of `finished` and `destroyed` |
| QML: generated clients, stream senders, options and metadata elements | the RPCs owned by slots, pointers of the senders, bound elements | calls with callbacks, writing, assignments to properties | `QGrpcClientBase`, the option objects, the script engine |
| Wire serializer | stack of ends, cached property value, bytes to write | `serializeMessage`, `deserializeMessage`, unknown fields, size limit | generated messages through their orderings |
| JSON serializer | stacks of objects and of remaining keys | the same two, custom handlers of well-known types | as above |
| Message objects, oneof, lazy pointers | `dptr`, `d_ptr`: shared payloads, unknown entries | every kind of generated accessor, copy, move, swap, compare | users and deserializers |
| `Any` and Qt types | shared `AnyPrivate`; handlers for Qt types | `fromMessage`, `unpack`, setters; `convert()` in both directions | serializers |
| Registries | list of functions, mutex, converters, handlers, orderings by name | `ProtoTypeRegistrar`, `qRegisterProtobufTypes`, `constructByName` | static objects of each library, all threads |
| `qtprotobufgen`, `qtgrpcgen` | descriptors, options of the command line | the printers of declarations, definitions, tables, registrations, clients | C++ compiler, moc, `QProtobufPropertyOrdering` |

What makes each component correct:

- Connection: an RPC waits for SETTINGS and is sent when they come; a failed
  connection ends every RPC on it and leaves nothing behind for the next one; an
  RPC that waits is never forgotten; reconnecting slows down.
- RPC: `finished()` exactly once, whoever ends it; the handler lives until then;
  it ends with what the server said: with a status of headers or trailers if
  there is one, with Ok if the stream ends after DATA without trailers
  (`finish({})`, `qgrpchttp2channel.cpp:1132`).
- Outgoing: messages in order, END_STREAM last, no DATA before HEADERS; one
  `messageWritten()` per message, none after `finished()`; byte counters that
  neither drift nor wrap; a message flagged as compressed can be decoded.
- Incoming: the messages delivered are those sent, however DATA frames cut them.
- Interceptors: each call reaches those it concerns, in order, and every one
  that saw the start sees the end.
- Client base and QML: exactly the running RPCs are tracked and cancelled with
  the channel; a script hears each RPC to its end; elements take effect in
  whatever order they are bound.
- Serializers: exactly the well-formed inputs are accepted, nothing is lost or
  misplaced, what is written is read back.
- Objects: a copy keeps its value; types are known when the call that makes them
  known returns.
- Generators: what one printer declares another defines, counts and registers,
  and every name is found where it is used.

The hazards, each with the line where it bites and the properties that watch
it, are in `PROJECT.json`.

## 2. Modules

| Module | Models | Extends or instantiates |
| --- | --- | --- |
| `Http2Channel` | one channel with its connection, the handlers of its RPCs, the operations of the user | refines `RpcContract` |
| `RpcContract` | abstract: what the owner of an operation is promised | - |
| `Http2Channel_proofs` | theorems about `Http2Channel` | `Http2Channel`, `TLAPS` |
| `Http2SendQueue` | the outgoing side of one handler | - |
| `Http2SendQueue_proofs` | theorems about `Http2SendQueue` | `Http2SendQueue`, `TLAPS` |
| `ReceivePath` | the incoming side of one handler: parser and decompressor | - |
| `ReceivePath_proofs` | theorems about `ReceivePath` | `ReceivePath`, `TLAPS` |
| `GrpcExchange` | header blocks of requests and responses, compression of outgoing messages | - |
| `GrpcExchange_proofs` | theorems about `GrpcExchange` | `GrpcExchange`, `TLAPS` |
| `ChannelConfig` | option objects and what a channel makes of them; backoff | - |
| `QmlOptions` | the QML elements on top of them | `ChannelConfig` |
| `Config_proofs` | theorems about both | `QmlOptions`, `TLAPS` |
| `InterceptedRpc` | interceptor chain, engine, and the stages of an RPC that call it | - |
| `InterceptedRpc_proofs` | theorems about `InterceptedRpc` | `InterceptedRpc`, `TLAPS` |
| `ClientBase` | `QGrpcClientBase` and its set of running RPCs | - |
| `QmlClient` | RPCs of scripts: callbacks, senders, the engine's end | `ClientBase` |
| `Client_proofs` | theorems about both | `QmlClient`, `TLAPS` |
| `WireFormat` | binary serializer and deserializer with their common base classes | - |
| `WireMeaning` | reference: what bytes mean, as a definition by recursion | `WireFormat` |
| `JsonFormat` | JSON serializer and deserializer, well-known types | `WireFormat` |
| `JsonMeaning` | reference: what a document means | `JsonFormat`, `WireMeaning` |
| `MessageObjects` | generated message classes as objects in memory | - |
| `TypeRegistry` | registration of types by several threads | `MessageObjects` |
| `QtTypes` | conversions of Qt's value types, their handlers | `TypeRegistry` |
| `Messages_proofs` | theorems about `MessageObjects` and `TypeRegistry` | `QtTypes`, `TLAPS` |
| `AnyMessage` | `QtProtobuf::Any` | - |
| `MessageGenerator` | `qtprotobufgen` | - |
| `ServiceGenerator` | `qtgrpcgen` | `MessageGenerator` |
| `MC...` | instances for TLC | the module named last in their family |

Definitions named `Slip...` are slips that a programmer could make in the
definition after them; each property is shown to notice one of them (the list
is `mutants` in `PROJECT.json`).

### Http2Channel

One variable per member that controls anything: `state` is `m_state`,
`connection` is `m_connection != nullptr`, `handler[o]` is `m_state` of the
handler of RPC `o` (`"None"` when there is no object), `stream[o]` its
`m_stream`, `op[o]` is `QGrpcOperationPrivate::state`, `context[o]` whether the
operation (and with it the context) is alive. `emitted` and `received` are
histories of what the user saw. Three more histories are written and never read
by an action: `cancelled` and `allowed` remember which RPCs were cancelled while
they ran and how many messages each had been given or had before it in the frame
being parsed at that moment; `caught` remembers those that a slot started while
`handleSocketError()` iterated.

- *The event loop.* `posted` is the queue of posted calls and deferred
  deletions, delivered in order by `Dispatch`. An event whose receiver is gone
  is void.
- *Slots.* When library code emits a signal in the middle of a loop the loop is
  suspended in `frame` with what it still has to do. `frame.slot` says that a
  user's slot is running; the calls it may make are those of `SlotCalls`. This
  covers `messageReceived` inside the parse loop of one DATA frame, and
  `finished` inside `handleSocketError()` and the channel's destructor. A slot
  run at the end of a handler is the same as user code run next.
- *for_each_non_expired_handler* is one step per child (`ConnectLoopStep`,
  `SettingsLoopStep`, `ErrorLoopStep`), in any order, with the expired ones
  remembered and deleted at the end.
- *finish()* is split by its early returns (`HandleContextExpired`,
  `AlreadyFinished`, `FinishNow`), so each caller takes over all of it.
- The peer sends HEADERS that are accepted or rejected, with and without
  END_STREAM, DATA frames (also before any HEADERS) with 0..`MaxBatch` complete
  messages followed by nothing, the end of the stream or an error, RST_STREAM,
  and nothing.

`Deadline` is the set of RPCs with a deadline, `ConnectTimeout` says whether
the connect timeout is enabled. `LateFrames` says whether the peer may send
DATA to a stream whose handler has finished, `EarlyRefusals` whether
`createStream()` may fail before SETTINGS.

Undefined behaviour: `sendInitialRequest()` without a stream does nothing in
the model, and a call posted to a deleted handler has no effect;
`ReadyForSettings` (a part of `NoStrandedRpc`) and `NoHandlerLost` say when
these cannot happen.

### Http2SendQueue

`m_queue` holds sizes, 0 for the empty message that carries END_STREAM.
`sendDATA()` is given the four outcomes it can have: all is within the window
and `bytesWritten` and `uploadFinished` are emitted before it returns; a part
is; the transport fails while it writes; it refuses. The drain loop of
`processQueue()` is one step per `sendDATA()`. `writeMessage()` may be given a
message beyond `GrpcMaxPayloadSize` (`WriteTooLarge`): the RPC ends, and what
was queued before stays. The first message, which the constructor of the handler
writes, is never that large here. The rest of the handler's life is reduced to
what the queue can see.

### ReceivePath

Bytes are positions in the stream of the peer: `ends[k]` is where message `k`
ends, `fed` how far DATA frames have come, `parsed` what `GrpcDataParser` has
taken out of its container. A DATA frame may end at any byte. When `parsed` is
not where a message starts, the length it reads is any of `Garbage` and what it
delivers is 0. One turn of the loop in `dataReceived` is one `ParseStep`, so
that `Cancel` can come from a slot of `messageReceived` between two turns. The
decompressor has three states; inflating is an outcome, not a computation.
`Init` is the state after accepted initial HEADERS.

### GrpcExchange

A header is a pair of a key and a value from a small set. `Loop` is the loop of
`handleHeaders()` over the block in the order of its headers, and `Missing` the
checks after it for what did not come; the phase of a block (initial, trailers,
trailers only) is decided as in the code. The metadata that the user sees is a
`QMultiHash`: for each key its values, the newest first (`Inserted`), and no
order between keys. `zlib` and `QDecompressHelper` are
external and may fail in every call; a deflate stream is remembered by what has
gone into it since it was reset. `HeadersJudged` compares the outcome with
`Offence`, which says for each header by itself whether it ends the RPC, and
with `Hidden`, the headers that are the protocol's own: the user sees all
others, `te` and `user-agent` included, which count as reserved in a request
only. The blocks of the run repeat keys, next to one another and apart.

### ChannelConfig and QmlOptions

An option object is a pointer to a payload; copies share it and setters detach.
The payload keeps the metadata twice, as the code does (all values of a key and,
for the deprecated interface, one). `value` is the history: what each object
should hold. A channel resolves options, environment and defaults when it is
constructed. `configuration` is the optional of an options element for the SSL
configuration, which stays set when the default one is assigned. In `QmlOptions`
an assignment to a property runs along the signals `dataChanged`,
`metadataChanged` and the like up to the channel, in one step each, because they
are synchronous.

### InterceptedRpc

The chain is built, taken over by the channel's engine and then called by the
RPC at each of its stages; what an interceptor answers (continue or drop, a new
status) is chosen in every call. The channel is reduced to what it may do to an
RPC: accept it, refuse it, deliver to it, finish it, go away.

### ClientBase and QmlClient

`activeStreams` is a `QMinimalFlatSet` over a `QList`: `memory` holds its cells,
freed ones included, because the range-for of `attachChannel()` caches
`begin()` and `end()` while every `cancel()` erases. Erasing the first element
moves `begin()`; erasing another one moves the cells behind it. The slots of
`finished()` that run in the loop may cancel and destroy other RPCs and call
`attachChannel()` again, which the code does not guard against: `loop` is the
innermost call, `outer` the calls suspended around it. Two marks of a loop are
histories: `hears`, that every RPC tracked when it began heard its `cancel()`,
and `alone`, that no slot of this loop has ended another RPC or attached a
channel. `QmlClient` adds RPCs that belong to the slot of their own
`finished()`: they are deleted within the emission, which may be inside that
loop. Slots in which a script runs form a stack, and `bases` has how deep in it
each `attachChannel()` runs. A sender writes to its RPC if `isValidStream()`
says so; `late` remembers a write that reached an RPC that had finished or was
gone.

### WireFormat, JsonFormat and their meanings

A type is a sequence of fields with number, kind and flags, as in the property
ordering. The recursion of `deserializeMessage()` is a stack of frames; the stack
of ends, the cached value and the input are variables of their own, since they
are members of an object that outlives a call. One step reads or writes one
field. A message field that comes again is parsed into the value it has; a field
with a handler (a Qt type, an `Any`) is parsed into a new message each time, and
the last one counts. Bytes and varints have small widths; a JSON document is its
tree of values. The reference definitions take a whole input at once and use no
stack: the bytes of a message are divided into fields, each within the message.

### MessageObjects, TypeRegistry, QtTypes, AnyMessage

`heap` holds objects, payloads and nested messages, `value` what each object
should hold. Each accessor template of the generator is one operator, with its
detaching. In `TypeRegistry` a thread takes one step per access to shared
state; the loader runs the static objects of one library at a time. A library's
registrars are those of its messages and those of its enums.
`QtTypes` has the 23 pairs of `convert()` over small values, and a field that is
written, sent (or made by another implementation) and read, with handlers
registered before, in between or not at all. `AnyMessage` has the hand-written
class of `google.protobuf.Any`.

### MessageGenerator and ServiceGenerator

What is printed for a field is the name of a template, in the place and order
where the printer puts it; a name is a sequence of words. The compiler, moc and
`QProtobufPropertyOrdering` are what the properties stand for: the i-th row of
the tables has the number of the property that moc gives it, every declared
function is defined once, every enum that has fields or values to list is
defined once (that of a message without fields is declared and nothing else),
every type that is named is declared before and is the one that C++ lookup finds
from there. The entry of a map has no printed
tables: `buildMetaObject()` and `buildMapEntryOrdering()` make its class and its
table at run time, and they are held to the same.

### RpcContract

Each RPC is unused, running, finished or dropped; messages arrive only while it
runs; with a deadline it does not run for ever. The mapping computes `phase`
from `context` and `op`.

## 3. Runs

| Run | Instance | What it shows |
| --- | --- | --- |
| `channel_safety` | two RPCs, one with a deadline; slots start, cancel and destroy; two socket failures; frames of up to two messages; late DATA | each RPC finishes at most once (`FinishedOnce`); nothing is left over when a connection attempt succeeds (`NothingLeftOver`); HEADERS only after SETTINGS; no handler is lost or dangles; SETTINGS find every handler ready and no RPC is stranded but one that was started while `handleSocketError()` iterated; after `cancel()` only messages of the frame being parsed |
| `channel_progress` | as above without starts from slots and without late DATA, one message per frame, all with deadlines, with fairness | every RPC ends, and the channel implements `RpcContract`, its liveness included |
| `sendqueue` | four messages of two sizes and one too large, with fairness | counters exact, one `messageWritten` per message and none after the end, END_STREAM last, no upload before HEADERS, nothing stalls |
| `receive` | up to three of seven kinds of messages, cut at every byte | delivered in order and at once, within the limits; an RPC is failed by its next message only, and END_STREAM accounts for every byte |
| `exchange` | three channel options, two call options, every block of up to two of twelve headers and longer ones, some with a key several times | an RPC ends with what the server said and shows its metadata; what it announces is what it does; each compressed message can be decoded by itself |
| `config` | three edits by C++, five by QML; three environments; two failures | option objects are values, the channel's limits, windows, URI and backoff are admissible, elements are in effect |
| `interceptors` | chains of up to three of three interceptors, two owned, one raw and repeatable; one RPC | each call in order, the end seen once by all, no RPC without an end (with fairness of its posted event) |
| `client` | three RPCs, two of a script; two channels (interchangeable: symmetry), attached from slots too; two sets of callbacks; no starts inside `attachChannel()` | exactly the running RPCs are tracked, no loop of `attachChannel()` passes over one, a script hears every RPC to its end, nothing written to a sender reaches an RPC that is gone or has finished |
| `serializers` | byte strings over small alphabets for five types, two occurrences of a field with a handler among them; documents for four types with every choice of values for their keys; every message that results | stacks balanced between calls; exactly the well-formed inputs accepted and rightly understood (`MeaningExact`); written and read again the same (`RoundTrips`) |
| `messages` | two objects of three shapes; three threads and two libraries; all Qt types | objects are values and compare by value; types known when the call returns; Qt values kept |
| `generator` | three messages in all nestings, with and without fields, of every kind and label; two services | tables match classes, everything declared is defined, names resolve |
| `any_copies` | two `Any` objects | *violated*, see the finding below |

`CHECK_DEADLOCK FALSE` stands where the system comes to rest: every RPC of the
bound has been used, the edits are used up, the files are printed.

Bounds. Two RPCs suffice for what one does to another over a shared connection.
Two failures give: lose a connection, reconnect, lose it again. Two messages in
a frame are one before and one after a slot; two sizes with the larger above
the smallest window cover whole, partial and resumed uploads. Three RPCs in
`client` are a first, a middle and a last of a set. In `receive` the header has
its five bytes and the limit is two, so that a payload can be empty, cut, at
the limit and beyond it; three messages are a first, one behind another and one
behind a decoded one. In `config` the limits of the code are small numbers in
the same order, with values at and beyond each of them. In `serializers` a wide
varint has 14 bits and a narrow one 7 (two bytes and one), fixed types two and
three bytes, a nanosecond part two digits, of which one is the millisecond;
strings are long enough for a message inside a message inside a message. In
`messages` two objects share payloads, and a third holds what a getter
returned; three threads are one that runs the functions, one that waits and one
that loads a library meanwhile; a day has four milliseconds, a UUID two bytes.
In `generator` two fields of every kind make every pair of branches meet, three
fields of the kinds that differ in their number of properties test the counts.

Fairness. Weak fairness of `Dispatch` and of the loops: the event loop keeps
running. Weak fairness of the timers: a started timer expires unless stopped.
None for the user and none for the peer, except that `sendqueue` assumes the
connection comes up and the peer keeps granting window, without which no
message can be written.

## 4. Findings and known limits of the code

`any_copies`: the setters of `QtProtobuf::Any` (`qprotobufanysupport.cpp:222`,
`:236`) write to a payload that copies share and do not detach, so
`setTypeUrl()` on a copy changes the original.

The following was met while modelling. Each is excluded from the runs by the
constant or the precondition named, so the properties hold without it.

- DATA may reach the user after `finished()`: `dataReceived` returns early in
  the state Cancelled only (`qgrpchttp2channel.cpp:1055`), while
  `qgrpcoperationcontext.cpp:87` says "no further communication should occur
  through this operation context". (`LateFrames`; `NoMessageAfterCancel` and
  `FinishedOnce` are checked with it.)
- A slot of `messageReceived` that cancels and then destroys the operation
  leaves the parse loop with a null `m_context` (`qgrpchttp2channel.cpp:1122`),
  which it uses if the frame has another complete message. The model ends the
  loop there (`DataStep`). A slot that destroys it without cancelling is left out
  (`Destroy`).
- A slot of `finished()` that starts an RPC while `handleSocketError()` iterates
  (`:1869`): `m_state` and `m_connection` are still those of the connection that
  failed, so the RPC waits on it, or is sent on it, and schedules no reconnect;
  then the loop's end sets the Error state. It waits until another RPC is
  started, without end if none is, and even with a deadline if it had not been
  sent. If it had, a reconnect lets SETTINGS find it in the state
  RequestHeadersSent, against the assertion of `sendInitialRequest()` (`:1360`).
  `NoStrandedRpc` says that only these RPCs (`caught`) wait so, and
  `channel_progress` has no starts from slots. The new handler is also appended
  to the list of children that `for_each_non_expired_handler()` (`:922`)
  iterates; what a reallocation of that list does is not modelled.
- The deadline starts with the HEADERS (`:1371`), while
  `qgrpccommonoptions.cpp:87` says "The deadline applies to the entire lifetime
  of an RPC". (`ConnectTimeout`.)
- A slot of `finished()` that starts an RPC while `attachChannel()` cancels
  leaves it on the replaced channel and fails the assertion of
  `qgrpcclientbase.cpp:170` (`Restart`). While a refused RPC waits for its
  posted end, nobody hears its `cancel()`, and the loop can pass over an RPC
  (`NoneRefused`).
- `attachChannel()` does not ask whether it is running (`:151`). A slot of
  `finished()` in its loop (`:166`) that calls it again, or cancels or destroys
  other RPCs, makes the loop go on over cells whose RPCs have ended: it passes
  over none (`LoopReadsAll`), but it reads pointers of RPCs that may have been
  destroyed, which the model lets have no effect. After a nested call the outer
  one replaces the channel that the inner one has just attached, and with it
  leaves the RPCs started since on a replaced channel.
- Once the channel is destroyed, the posted failure of a refused RPC can outlive
  its handler (`qgrpchttp2channel.cpp:1455`): `NoHandlerLost` is stated while the
  channel lives.
- A message refused for its declared length makes the parser lose its place
  (`qgrpchttp2channel.cpp:582`); DATA that arrives before the deferred deletion
  is parsed from there.
- `setChannelOptions()` while an RPC runs: the response's encoding is judged by
  the new options (`:1563`, `ChangeInFlight`), and the content-type negotiated
  by the constructor is not negotiated again (`qabstractgrpcchannel.cpp:142`).
- An RPC started from another thread is refused after it has its channel
  (`qgrpcoperation.cpp:236`): no interceptor sees its start, and those for
  `onFinished()` run in that thread (`:211`), while
  `qtgrpc-interceptors-overview.qdoc:178` names the channel's. The model has the
  thread of every call, and no property asks for it.
- The filter of reserved keys (`qgrpchttp2channel.cpp:1200`) does not have
  `service-name`, which the transport sends itself (`:1188`).
- QML: a message that cannot be read is reported nowhere if the script passed
  only a finish callback (`qqmlgrpcfunctionalhandlers.cpp:55`); every unreadable
  message of a stream calls the error callback, and the end follows all the same;
  assigning null to `metadata` keeps the old metadata and to `options` the
  channel's; a default SSL configuration assigned later does not clear the option
  (`qqmlgrpcchanneloptions.cpp:112`); an element that is destroyed leaves a
  pointer to it behind; an RPC that an interceptor finishes before its slot is
  connected is not heard.
- JSON: a nested message of a type without fields stays on the stack
  (`qprotobufjsonserializer.cpp:425`), and the fields behind it are lost (no
  such type in the run). `deserializeMessage()` returns true after an invalid
  format was noted, although `qabstractprotobufserializer.cpp:119` says
  "Returns \c true if deserialization was successful" (the run looks at
  `lastError()` too). An empty array is no list of scalars, a negative number
  for an unsigned 64-bit field wraps, an enum value without a name and an
  invalid duration are not written, a timestamp loses what is below a
  millisecond.
- Wire: varints longer than their type, lengths beyond `qsizetype` and reads
  behind the data (`qprotobufserializer.cpp:565`, `:579`,
  `protobufscalarserializers_p.h:266`) are outside the model's inputs; the wire
  type of messages and enums is not compared; a packed occurrence replaces the
  list. A field with a handler (Qt types, `Any`) that occurs twice has the value
  of the last occurrence, where Protobuf merges them
  (`qtprotobufqttypescommon_p.h:66`, `qprotobufanysupport.cpp:101`). Required
  messages that require each other: writing stops at the second occurrence of a
  type (`qprotobufserializerbase.cpp:97`), with a warning, and what is written
  lacks a required message; `MeaningExact` does not judge those (`Cyclic`). A
  handler that fails on an element of a repeated `Any` is left out of the model.
- Message objects: getters, comparisons and setters create an absent message in
  the shared payload, so `hasX()` of a copy may become true; the setters of
  optional and oneof floating point fields ignore -0.0 over 0.0; a nested
  message of a oneof that fails to parse leaves the old field number with a
  value of the new type (`Unspecified`).
- Registry: the registrar of an enum outside of messages is in another file than
  the call of `qRegisterProtobufTypes()`, and the order of static objects of
  different files is open: the enum may wait for the next call. Two libraries
  with a message of the same name: the last one wins.
- Qt types: empty sizes and rectangles and null points, vectors and quaternions
  are not written, so the reader keeps its default (`QSize(-1, -1)`, the
  identity); a color of another spec comes back as RGB; the alpha of a peer's
  `rgba` is dropped by `QColor(QRgb)` (`qtprotobufqtguitypes.cpp:44`);
  floating-point images lose precision without TIFF; lists of Qt types have no
  handler.
- Generator: a message without fields has `enum class QtProtobufFieldEnum`
  declared (`messagedeclarationprinter.cpp:40`) but not defined (`:553`); that is
  a complete type without names, so nothing fails (`GeneratedComplete` expects
  exactly that). The error for fields named `x` and `mutX` is only raised for
  singular message fields and one level of nesting
  (`qprotobufgenerator.cpp:187`); includes are collected to one level of nesting
  and for singular Qt types; a type of the file with the simple name of a nested
  one resolves to the nested one; names such as `has_x` or `x_data` may clash
  unnoticed. Services: sender names of different services can coincide (service
  `A` with method `BC`, `AB` with `C`), as can those of methods that differ in
  the case of their first letter.

## 5. Proofs

Each of the eight `_proofs` modules holds the theorems of one component or of
a few that belong together. Every
theorem is about all values of the constants: any number of RPCs, messages,
headers, interceptors, objects, threads, failures. Each starts from the
assumptions in the `ASSUME` of its component's module (finite sets, numbers,
sequences; a deadline has an RPC; the name of an interceptor, which stands for
the status it leaves, is not that of another status). Where a theorem has a
hypothesis of its own it excludes a behaviour of the code in which the property
is false or open; section 4 has those behaviours.

| Theorem | States | Hypothesis |
| --- | --- | --- |
| `Http2Channel_proofs`: `TypeCorrect`, `FinishedAtMostOnce`, `NoLeftovers`, `SettingsFirst` | `TypeOK`, `FinishedOnce`, `NothingLeftOver`, `HeadersAfterSettings` | - |
| `HandlersKept` | `NoHandlerLost` | `~EarlyRefusals` |
| `NobodyStranded` | `NoStrandedRpc`, slots that start RPCs included | `~EarlyRefusals` |
| `CancelSilences` | `NoMessageAfterCancel` | - |
| `ContractKept` | the safety part of `ImplementsContract` | `~LateFrames`, `MaxBatch <= 1` |
| `Http2SendQueue_proofs`: `QueueTypeCorrect`, `Pacing`, `EndStreamIsLast`, `HeadersBeforeData`, `SilentAfterFinished`, `BytesCounted` | `TypeOK`, `PacingExact`, `EndStreamLast`, `UploadNeedsHeaders`, `NoWrittenAfterFinished`, `BytesExact` | - |
| `ReceivePath_proofs`: `ReceiveTypeCorrect`, `MessagesExact`, `NoneWithheld`, `StatusJustified` | `TypeOK`, `DeliveredExact`, `NothingWithheld`, `EndJustified` | `~LateFrames` |
| `GrpcExchange_proofs`: `AnnouncesWhatItDoes`, `EveryMessageDecodable` | `EncodingAgreed`, `CompressedDecodable` | - |
| `EndsWithWhatTheServerSaid` | `HeadersJudged` | `~ChangeInFlight` |
| `Client_proofs`: `SetIsExact`, `SenderSafe`, `EndIsHeard` | `TrackedExactly`, `SenderKnowsEnd`, `HeardToTheEnd` | - |
| `NonePassedOver` | `LoopReadsAll` | `~Restart` |
| `Config_proofs`: `ObjectsHaveTheirValues`, `ChannelWorks`, `ElementsTakeEffect` | `OptionsAreValues`, `ConfigAdmissible`, `ElementsInEffect` | - |
| `InterceptedRpc_proofs`: `TypeCorrect`, `CallsInOrder`, `EndIsSeenOnce` | `TypeOK`, `CalledInOrder`, `EndSeenOnce` | - |
| `Messages_proofs`: `AnnouncedIsKnown`, `ObjectsKeepTheirValues` | `TypesKnown`, `ObjectsAreValues` | - |
| `PointersLeadSomewhere` | every pointer of the heap leads to something | - |

The properties are not inductive; this is what they rest on.

- *Channel.* `OnceInv`: an operation that has not finished has emitted nothing
  and one that has emitted once; the count alone does not tell, since the relay
  decides by `op`. `StreamInv` says which connection states, sockets and streams
  go together *inside* the loops, where the two properties say nothing.
- *Handlers.* `LifeInv` ties the handler of each RPC to its operation, to the
  events posted for it and to the loop that is going over it. `QueueInv`: a
  failure posted by `asyncFinish()` precedes the deletion of the handler it is
  called on; the order of the posted queue is the reason, so the lemmas are about
  that order. `ProgressInv` says how far each RPC can be, given the state of the
  connection and what the loop still has before it, with those RPCs excepted that
  were started in the loop of `handleSocketError()`. `CancelSilences` is about
  the past (`SilenceInv`): an RPC once cancelled has a handler in the state
  Cancelled or none, or its operation is gone, for good, and what it has received
  and what the frame being parsed still has for it stay within what it was
  allowed. For the contract, `BatchInv`: with one message per frame nothing is
  parsed after a slot has cancelled (with more, a message may follow `cancel()`,
  which the contract does not allow).
- *Outgoing queue.* `QueueInv` relates `writesDoneSent`, the end marker, the
  closing upload and the stream's state, and makes `finished` follow the end of
  the state, so that every `sendDATA()` can be judged by itself. The counters
  are sums over the queue: `SumOfAppend` and `SumOfTail` say what enqueuing and
  dequeuing do to them, and `BytesInv` relates them to the running upload.
- *Receive path.* `AlignedInv` is the argument: the container of the parser
  starts at a message of the peer, until the RPC fails. After the end it does
  not, which is why `LateFrames` is excluded.
- *Headers and compression.* `Amounts` is the invariant of the loop of
  `handleHeaders()`: after `m` headers it has the code of the first that offends,
  or exactly what they have and show; for the metadata, `NewestFirst` states for
  a prefix of the block which value stands where among those of its key, and
  `HoldsHeaders` follows from it at the end. `RunningInv` says that a running RPC
  has no end, no trailing metadata and, with `~ChangeInFlight`, the options it
  was started with. `ChannelInv` says for which flags the cached
  `grpc-accept-encoding` is kept; `Compressor`, that a deflate stream is fresh or
  known to need a reset.
- *Client.* `ListInv` describes the cells of the list with those freed at its
  front (their number is bounded by the RPCs that will not come back), `LoopInv`
  the calls of `attachChannel()` on the stack, `ReadInv` that the list lies
  between the iterator and the cached end of each of them, nested calls included
  (taking an RPC out only makes the list shorter at one end), and fills that room
  exactly while the loop is alone, `SlotInv` the stack of slots, and `RpcOK` what
  each script has heard so far.
- *Options.* `ObjectsOK` is about the payloads that objects share, the history
  of values and the agreement of the two containers of metadata; `Works` and
  `BackoffGrows` about a channel; `ElementsInv` says that what is bound is in
  effect between any two assignments.
- *Interceptors.* `ChainInv`: of each owned interceptor exactly one is true, that
  the application holds it, that it is once in the chain or once in the engine's,
  or that it is deleted (`Owners`, which `OwnersOnce` shows to be the sum that
  `OneOwner` checks); the handler lists are the chain, filtered. `RpcOk` joins
  what is known of each entry of a log (`EntryOk`) with `Life`, which the entries
  alone do not tell: an RPC whose end has been seen is finished or destroyed, one
  that the channel runs has no posted end, one that could not be bound to a
  channel has heard nothing but an end, so that a channel created later has
  nothing to answer for. The steps are three kinds of growth of a log: nothing, a
  call (`CallLogged`), the end with or without its interceptors (`EndLogged`).
- *Message objects.* The property says what each object's value is; nothing in it
  says that the pointers it is read through exist or who shares them. `HeapOk`:
  every pointer leads to something, of its type. `Shows`: the value read through
  an object's pointers is that of its history, up to an absent message that a
  getter has made an empty one, and the type in the oneof is that of its field
  (false only in the object of a parse that failed, whose value is unspecified).
  The object that is being parsed has its payload for itself (`Alone`), since the
  parser writes without detaching. All operations are made of a payload written
  in place (`Wrote`), a nested message stored (`Stored`) and a payload detached
  (`Detached`); a lemma for each says which objects can see it, and it is never
  another than the one written through: a nested message is written in place
  only if it is at one place (`InnerPlaces`), else a new one is made.
- *Registry.* `NoneLost`: a type that was announced waits in the list, or in the
  list of the thread that holds the lock, or is complete. `LockInv` and
  `ThreadInv` make one thread the holder and say what each has behind it.

The induction theorems of the library take a predicate as a parameter, which the
provers cannot instantiate. Where a loop is a recursion over a sequence (`Kept`,
`Loop`, `PrefixSums`, `Built`, `Registered`), `SetInduction` takes its place: a
set of numbers that has 0 and every successor has them all, from the least number
outside and the library's `NatLessThanWellFounded`.

Model-checked, not proved:

- liveness: `EveryRpcEnds`, `EveryWriteReported`, `NoneStranded` and the fair
  part of `ImplementsContract` need `ENABLED` and fairness;
- the serializers: their properties compare with definitions by recursion over
  trees (`WireMeaning`, `JsonMeaning`), and modules with `RECURSIVE` operators
  are out of the prover's reach;
- the generators, which fold over declarations, and `AnyMessage`, whose property
  is violated;
- `QtValuesKept`: the conversions are about given types and values and depend on
  no constant, so that the run has all there is.

## 6. What is not modelled, and why

- Payload bytes, texts of statuses and warnings, logging, the lengths of delays:
  no property is about them.
- A slot that destroys the channel; reallocation of the `QList` inside the loop
  of `attachChannel()`, and of the list of children inside
  `for_each_non_expired_handler()`, by an RPC that a slot starts.
- A first message of an RPC beyond `GrpcMaxPayloadSize`: it ends the RPC while
  its handler is being constructed.
- TLS and local sockets beyond the choice between them: they differ in the
  signals only. `QHttp2Connection`, `zlib`, `QDecompressHelper`, `QJsonDocument`,
  `QVariant` and the C++ compiler are external and appear as what the code
  expects of them.
- Reading the text of a JSON document, base64 and number formats: conversions of
  Qt, represented by the values they stand for.
- The wording of templates, comments, file names and export macros of the
  generators: formatting.
- `ServerDeclarationPrinter`, the examples, tests and build files.
