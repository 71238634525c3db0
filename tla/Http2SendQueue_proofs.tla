----------------------- MODULE Http2SendQueue_proofs -----------------------
(***************************************************************************)
(* Safety of the outgoing queue of a handler for messages of any size and  *)
(* for any number of them: the order of END_STREAM, the pacing by          *)
(* messageWritten, what may happen after finished, and the byte counters,  *)
(* which are sums over the queue and need an induction of their own.       *)
(***************************************************************************)
EXTENDS Http2SendQueue, WellFoundedInduction, TLAPS

States == Running \cup {"Cancelled", "Finished", "Deleted"}
Uploads == [on : BOOLEAN, left : Nat, close : BOOLEAN]

\* TypeOK without the two byte counters: that these do not become negative is
\* a consequence of BytesExact, proved at the end.
QueueType ==
    /\ endStreamAtFirstData \in BOOLEAN /\ context \in BOOLEAN
    /\ state \in States
    /\ stream \in {"Null", "Idle", "Open", "HalfClosedLocal", "Closed"}
    /\ queue \in Seq(Nat)
    /\ writesDoneSent \in BOOLEAN
    /\ drainingQueue \in BOOLEAN
    /\ inFlightUserWrite \in BOOLEAN
    /\ upload \in Uploads
    /\ posted \in Nat /\ accepted \in Nat /\ written \in Nat
    /\ finished \in BOOLEAN

-----------------------------------------------------------------------------
(* Facts about the queue.                                                  *)

LEMMA QueueFacts ==
    ASSUME NEW q \in Seq(Nat)
    PROVE  /\ Len(q) \in Nat
           /\ \A n \in Nat : /\ Append(q, n) \in Seq(Nat)
                             /\ Len(Append(q, n)) = Len(q) + 1
                             /\ Append(q, n)[Len(q) + 1] = n
                             /\ Append(q, n) # <<>>
                             /\ \A i \in 1..Len(q) : Append(q, n)[i] = q[i]
           /\ q # <<>> => /\ Len(q) > 0
                          /\ Head(q) = q[1] /\ Head(q) \in Nat
                          /\ Tail(q) \in Seq(Nat)
                          /\ Len(Tail(q)) = Len(q) - 1
                          /\ \A i \in 1..(Len(q) - 1) : Tail(q)[i] = q[i + 1]
           /\ (Len(q) = 0) <=> (q = <<>>)
<1>1. Len(q) \in Nat /\ ((Len(q) = 0) <=> (q = <<>>))
  OBVIOUS
<1>2. ASSUME NEW n \in Nat
      PROVE  /\ Append(q, n) \in Seq(Nat)
             /\ Len(Append(q, n)) = Len(q) + 1
             /\ Append(q, n)[Len(q) + 1] = n
             /\ Append(q, n) # <<>>
             /\ \A i \in 1..Len(q) : Append(q, n)[i] = q[i]
  OBVIOUS
<1>3. ASSUME q # <<>>
      PROVE  /\ Len(q) > 0
             /\ Head(q) = q[1] /\ Head(q) \in Nat
             /\ Tail(q) \in Seq(Nat)
             /\ Len(Tail(q)) = Len(q) - 1
             /\ \A i \in 1..(Len(q) - 1) : Tail(q)[i] = q[i + 1]
  BY <1>3
<1> QED BY <1>1, <1>2, <1>3

-----------------------------------------------------------------------------
(* The inductive invariant.  PacingExact needs to know that processQueue() *)
(* never runs beside an upload (or the flag of one message would be lost   *)
(* to another), EndStreamLast that the marker is only queued once.         *)

MarkerIsLast(q) == \A i \in 1..Len(q) : q[i] = EndMarker => i = Len(q)

QueueInv ==
    /\ drainingQueue => (queue # <<>> /\ ~upload.on)
    /\ UploadNeedsHeaders
    /\ finished => state \notin Running
    /\ state \in {"RequestHeadersSent", "Active"} => stream \in {"Open", "HalfClosedLocal"}
    /\ MarkerIsLast(queue)
    /\ (\E i \in 1..Len(queue) : queue[i] = EndMarker) => writesDoneSent
    /\ endStreamAtFirstData => Len(queue) <= 1
    /\ (stream = "HalfClosedLocal" \/ upload.close) => queue = <<>>
    /\ upload.close => (writesDoneSent \/ endStreamAtFirstData)
    /\ (state \in Running /\ inFlightUserWrite) => upload.on
    /\ PacingExact

Inv == QueueType /\ QueueInv

\* What the queue holds of the user's messages, as the marker comes and goes.
LEMMA AppendCounts ==
    ASSUME NEW q \in Seq(Nat), NEW n \in Nat, MarkerIsLast(q),
           \A i \in 1..Len(q) : q[i] # EndMarker
    PROVE  /\ MarkerIsLast(Append(q, n))
           /\ n # EndMarker => \A i \in 1..Len(Append(q, n)) : Append(q, n)[i] # EndMarker
<1>1. /\ Len(Append(q, n)) = Len(q) + 1 /\ Append(q, n)[Len(q) + 1] = n
      /\ Len(q) \in Nat
      /\ \A i \in 1..Len(q) : Append(q, n)[i] = q[i]
  BY QueueFacts
<1>2. ASSUME NEW i \in 1..(Len(q) + 1)
      PROVE  Append(q, n)[i] = EndMarker => (i = Len(q) + 1 /\ n = EndMarker)
  <2>1. CASE i = Len(q) + 1
    BY <1>1, <2>1
  <2>2. CASE i \in 1..Len(q)
    BY <1>1, <2>2
  <2> QED BY <1>1, <2>1, <2>2
<1> QED BY <1>1, <1>2 DEF MarkerIsLast

\* Behind the head of a queue the end marker is still the last, if it is there at all.
LEMMA TailCounts ==
    ASSUME NEW q \in Seq(Nat), q # <<>>, MarkerIsLast(q)
    PROVE  /\ MarkerIsLast(Tail(q))
           /\ Head(q) = EndMarker => Tail(q) = <<>>
           /\ Len(Tail(q)) = Len(q) - 1
           /\ Tail(q) # <<>> => Tail(q)[Len(Tail(q))] = q[Len(q)]
           /\ (\E i \in 1..Len(Tail(q)) : Tail(q)[i] = EndMarker)
                  => (\E i \in 1..Len(q) : q[i] = EndMarker)
<1>1. /\ Len(q) \in Nat /\ Len(q) > 0 /\ Head(q) = q[1]
      /\ Tail(q) \in Seq(Nat) /\ Len(Tail(q)) = Len(q) - 1
      /\ \A i \in 1..(Len(q) - 1) : Tail(q)[i] = q[i + 1]
  BY QueueFacts
<1>2. (Len(Tail(q)) = 0) <=> (Tail(q) = <<>>)
  BY <1>1, QueueFacts
<1>3. ASSUME NEW i \in 1..(Len(q) - 1), Tail(q)[i] = EndMarker
      PROVE  i = Len(q) - 1 /\ i + 1 \in 1..Len(q) /\ q[i + 1] = EndMarker
  <2>1. i + 1 \in 1..Len(q) /\ q[i + 1] = EndMarker
    BY <1>1, <1>3
  <2>2. i + 1 = Len(q)
    BY <2>1 DEF MarkerIsLast
  <2>3. i \in Nat /\ Len(q) \in Nat
    BY <1>1
  <2>4. i = Len(q) - 1
    BY <2>2, <2>3
  <2> QED BY <2>1, <2>4
<1>4. ASSUME Head(q) = EndMarker PROVE Tail(q) = <<>>
  <2>1. 1 \in 1..Len(q) /\ q[1] = EndMarker
    BY <1>1, <1>4
  <2>2. Len(q) = 1
    BY <2>1 DEF MarkerIsLast
  <2> QED BY <1>1, <1>2, <2>2
<1>5. Tail(q) # <<>> => Tail(q)[Len(Tail(q))] = q[Len(q)]
  BY <1>1, <1>2
<1> QED BY <1>1, <1>3, <1>4, <1>5 DEF MarkerIsLast

-----------------------------------------------------------------------------
\* The queue is empty at first.
LEMMA InitInv == Init => Inv
<1> SUFFICES ASSUME Init PROVE Inv
  OBVIOUS
<1>1. PICK n \in Sizes : queue = <<n>>
  BY DEF Init
<1>2. n \in Nat /\ n # 0
  BY SendQueueAssumption
<1>3. queue \in Seq(Nat) /\ Len(queue) = 1 /\ queue[1] = n /\ queue # <<>>
  BY <1>1, <1>2
<1>4. QueueType
  BY <1>3 DEF Init, QueueType, States, Running, Uploads, NoUpload
<1>5. MarkerIsLast(queue) /\ ~\E i \in 1..Len(queue) : queue[i] = EndMarker
  BY <1>2, <1>3 DEF MarkerIsLast, EndMarker
<1>6. PacingExact
  BY <1>2, <1>3 DEF Init, PacingExact, UserQueued, EndMarker
<1> QED BY <1>3, <1>4, <1>5, <1>6
        DEF Inv, Init, QueueInv, UploadNeedsHeaders, NoUpload, Running

\* A message that is too large ends the RPC as finish() of anyone else does.
LEMMA TooLargeEnds == WriteTooLarge => End
BY DEF WriteTooLarge, Writable, MayWrite, End, lifeUnchanged

\* Actions that leave the queue and what it is counted against alone.
LEMMA LifeKeepsInv ==
    ASSUME Inv, AttachStream \/ SendInitialRequest \/ ResponseHeaders \/ End \/ DestroyContext
    PROVE  Inv'
<1> USE DEF Inv, QueueType, States, Running, Uploads, EventLoop, lifeUnchanged
<1>0. UNCHANGED <<queue, writesDoneSent, endStreamAtFirstData, accepted, written, posted,
                  inFlightUserWrite>>
  BY DEF AttachStream, SendInitialRequest, ResponseHeaders, End, DestroyContext
<1>1. QueueType'
  <2>1. CASE AttachStream
    BY <2>1 DEF AttachStream
  <2>2. CASE SendInitialRequest
    BY <2>2 DEF SendInitialRequest
  <2>3. CASE ResponseHeaders
    BY <2>3 DEF ResponseHeaders
  <2>4. CASE End
    <3>1. finished' \in BOOLEAN
      BY <2>4 DEF End
    <3>2. NoUpload \in Uploads
      BY DEF NoUpload
    <3>3. state' \in States /\ stream' \in {"Null", "Idle", "Open", "HalfClosedLocal", "Closed"}
      BY <2>4 DEF End
    <3>4. upload' \in Uploads
      BY <2>4, <3>2 DEF End
    <3> QED BY <2>4, <3>1, <3>3, <3>4 DEF End
  <2>5. CASE DestroyContext
    BY <2>5 DEF DestroyContext
  <2> QED BY <2>1, <2>2, <2>3, <2>4, <2>5
<1>2. PacingExact'
  BY <1>0 DEF QueueInv, PacingExact, UserQueued, AttachStream, SendInitialRequest,
              ResponseHeaders, End, DestroyContext
<1>3. CASE AttachStream
  BY <1>1, <1>2, <1>3 DEF AttachStream, QueueInv, UploadNeedsHeaders, MarkerIsLast
<1>4. CASE SendInitialRequest
  BY <1>1, <1>2, <1>4 DEF SendInitialRequest, QueueInv, UploadNeedsHeaders, MarkerIsLast
<1>5. CASE ResponseHeaders
  BY <1>1, <1>2, <1>5 DEF ResponseHeaders, QueueInv, UploadNeedsHeaders, MarkerIsLast
<1>6. CASE End
  BY <1>1, <1>2, <1>6 DEF End, QueueInv, UploadNeedsHeaders, MarkerIsLast, NoUpload
<1>7. CASE DestroyContext
  BY <1>1, <1>2, <1>7 DEF DestroyContext, QueueInv, UploadNeedsHeaders, MarkerIsLast
<1> QED BY <1>3, <1>4, <1>5, <1>6, <1>7

\* The handler is deleted with what it had queued.
LEMMA DeleteKeepsInv == ASSUME Inv, DeleteHandler PROVE Inv'
<1>1. QueueType'
  BY DEF Inv, QueueType, States, Running, Uploads, EventLoop, lifeUnchanged,
         DeleteHandler, NoUpload
<1>2. queue' = <<>> /\ Len(queue') = 0
  BY DEF DeleteHandler
<1> QED BY <1>1, <1>2 DEF Inv, QueueType, QueueInv, UploadNeedsHeaders, MarkerIsLast,
           DeleteHandler, EventLoop, NoUpload, Running, PacingExact, lifeUnchanged

-----------------------------------------------------------------------------
(* The user's calls.                                                       *)

\* As long as writesDone() was not called there is no marker in the queue.
LEMMA NoMarkerYet ==
    ASSUME Inv, ~writesDoneSent
    PROVE  /\ \A i \in 1..Len(queue) : queue[i] # EndMarker
           /\ UserQueued = Len(queue)
<1>1. \A i \in 1..Len(queue) : queue[i] # EndMarker
  BY DEF Inv, QueueInv
<1>2. queue # <<>> => Len(queue) \in 1..Len(queue)
  BY QueueFacts DEF Inv, QueueType
<1> QED BY <1>1, <1>2 DEF UserQueued

\* writeMessage() appends a message.
LEMMA WriteKeepsInv == ASSUME Inv, NEW n \in Sizes, Write(n) PROVE Inv'
<1>1. n \in Nat /\ n # EndMarker
  BY SendQueueAssumption DEF EndMarker
<1>2. /\ state \in Running /\ ~writesDoneSent /\ ~endStreamAtFirstData /\ ~drainingQueue
      /\ stream \notin {"HalfClosedLocal", "Closed"}
      /\ queue' = Append(queue, n) /\ accepted' = accepted + 1
      /\ UNCHANGED <<endStreamAtFirstData, context, state, stream, writesDoneSent,
                     inFlightUserWrite, upload, posted, written, finished>>
  BY DEF Write, Writable, MayWrite, ClosedForSending, EventLoop
<1>3. queue \in Seq(Nat) /\ Len(queue) \in Nat /\ MarkerIsLast(queue)
  BY QueueFacts DEF Inv, QueueType, QueueInv
<1>4. /\ queue' \in Seq(Nat) /\ queue' # <<>> /\ Len(queue') = Len(queue) + 1
      /\ queue'[Len(queue')] = n
  BY <1>1, <1>2, <1>3, QueueFacts
<1>5. MarkerIsLast(queue') /\ \A i \in 1..Len(queue') : queue'[i] # EndMarker
  BY <1>1, <1>2, <1>3, NoMarkerYet, AppendCounts
<1>6. drainingQueue' \in BOOLEAN
      /\ (drainingQueue' => (stream # "Null" /\ state # "Idle" /\ ~upload.on))
  BY DEF Write, ProcessQueue
<1>7. QueueType'
  BY <1>2, <1>4, <1>6 DEF Inv, QueueType
<1>8. PacingExact'
  <2>1. UserQueued = Len(queue) /\ UserQueued' = Len(queue) + 1
    BY <1>1, <1>2, <1>4, NoMarkerYet DEF UserQueued
  <2> QED BY <1>2, <1>3, <2>1 DEF Inv, QueueInv, QueueType, PacingExact
<1>9. UploadNeedsHeaders'
  BY <1>2, <1>6 DEF Inv, QueueInv, UploadNeedsHeaders
<1>10. ~upload.close
  BY <1>2 DEF Inv, QueueInv
<1> QED BY <1>2, <1>4, <1>5, <1>6, <1>7, <1>8, <1>9, <1>10 DEF Inv, QueueInv

\* writesDone() appends the end marker, once.
LEMMA WritesDoneKeepsInv == ASSUME Inv, WritesDone PROVE Inv'
<1>1. /\ state \in Running /\ ~writesDoneSent /\ ~endStreamAtFirstData /\ ~drainingQueue
      /\ writesDoneSent' = TRUE
      /\ UNCHANGED <<endStreamAtFirstData, context, state, stream, inFlightUserWrite,
                     upload, posted, accepted, written, finished>>
  BY DEF WritesDone, EventLoop
<1>2. queue \in Seq(Nat) /\ Len(queue) \in Nat /\ MarkerIsLast(queue)
  BY QueueFacts DEF Inv, QueueType, QueueInv
<1>3. CASE ClosedForSending /\ UNCHANGED <<queue, drainingQueue>>
  <2>1. QueueType'
    BY <1>1, <1>3 DEF Inv, QueueType
  <2>2. PacingExact' /\ UploadNeedsHeaders'
    BY <1>1, <1>3 DEF Inv, QueueInv, PacingExact, UserQueued, UploadNeedsHeaders
  <2> QED BY <1>1, <1>3, <2>1, <2>2 DEF Inv, QueueInv, MarkerIsLast
<1>4. CASE /\ ~ClosedForSending
           /\ queue' = Append(queue, EndMarker)
           /\ ProcessQueue(queue', state)
  <2>1. EndMarker \in Nat
    BY DEF EndMarker
  <2>2. /\ queue' \in Seq(Nat) /\ queue' # <<>> /\ Len(queue') = Len(queue) + 1
        /\ queue'[Len(queue')] = EndMarker
    BY <1>2, <1>4, <2>1, QueueFacts
  <2>3. MarkerIsLast(queue')
    BY <1>1, <1>2, <1>4, <2>1, NoMarkerYet, AppendCounts
  <2>4. drainingQueue' \in BOOLEAN
        /\ (drainingQueue' => (stream # "Null" /\ state # "Idle" /\ ~upload.on))
    BY <1>4 DEF ProcessQueue
  <2>5. QueueType'
    BY <1>1, <2>2, <2>4 DEF Inv, QueueType
  <2>6. PacingExact'
    <3>1. UserQueued = Len(queue) /\ UserQueued' = Len(queue)
      BY <1>1, <1>2, <2>2, NoMarkerYet DEF UserQueued
    <3> QED BY <1>1, <1>2, <3>1 DEF Inv, QueueInv, QueueType, PacingExact
  <2>7. UploadNeedsHeaders'
    BY <1>1, <2>4 DEF Inv, QueueInv, UploadNeedsHeaders
  <2>8. ~upload.close /\ stream # "HalfClosedLocal"
    BY <1>1, <1>4 DEF Inv, QueueInv, ClosedForSending
  <2> QED BY <1>1, <2>2, <2>3, <2>4, <2>5, <2>6, <2>7, <2>8 DEF Inv, QueueInv
<1> QED BY <1>3, <1>4 DEF WritesDone

-----------------------------------------------------------------------------
(* The drain loop and the upload.                                          *)

LEMMA CountsAreNat == ASSUME Inv PROVE UserQueued \in Nat
BY QueueFacts DEF Inv, QueueType, UserQueued

\* A message that leaves the queue is reported at once or is in flight.
LEMMA PacingMoves ==
    ASSUME Inv, NEW n, UserQueued \in Nat, UserQueued' \in Nat \cup {UserQueued - 1},
           state \in Running => ~inFlightUserWrite,
           UNCHANGED <<endStreamAtFirstData, context, accepted, written, state>>,
           n = EndMarker => (UserQueued = 0 /\ UserQueued' = 0),
           n # EndMarker => UserQueued' = UserQueued - 1,
           \/ posted' = (IF ClosesStream(n) THEN posted ELSE posted + 1) /\ ~inFlightUserWrite'
           \/ posted' = posted /\ inFlightUserWrite' = ~ClosesStream(n)
    PROVE  PacingExact'
<1> SUFFICES ASSUME context', state' \in Running, ~endStreamAtFirstData'
             PROVE  accepted' = written' + posted' + (IF inFlightUserWrite' THEN 1 ELSE 0)
                                + UserQueued'
  BY DEF PacingExact
<1>1. accepted = written + posted + UserQueued
  BY DEF Inv, QueueInv, QueueType, PacingExact
<1>2. accepted \in Nat /\ written \in Nat /\ posted \in Nat
  BY DEF Inv, QueueType
<1>3. ClosesStream(n) <=> n = EndMarker
  BY DEF ClosesStream
<1>4. CASE n = EndMarker
  <2>1. posted' = posted /\ ~inFlightUserWrite'
    BY <1>3, <1>4
  <2> QED BY <1>1, <1>2, <1>4, <2>1
<1>5. CASE n # EndMarker
  <2>1. \/ posted' = posted + 1 /\ ~inFlightUserWrite'
        \/ posted' = posted /\ inFlightUserWrite'
    BY <1>3, <1>5
  <2>3. UserQueued' = UserQueued - 1 /\ UserQueued' \in Int
    BY <1>5
  <2>4. accepted = written + (posted + 1) + UserQueued'
    BY <1>1, <1>2, <2>3
  <2>5. CASE posted' = posted + 1 /\ ~inFlightUserWrite'
    BY <1>2, <2>3, <2>4, <2>5
  <2>6. CASE posted' = posted /\ inFlightUserWrite'
    BY <1>2, <2>3, <2>4, <2>6
  <2> QED BY <2>1, <2>5, <2>6
<1> QED BY <1>4, <1>5

\* The drain loop: whatever sendDATA() does with the message it is given.
LEMMA DrainKeepsInv == ASSUME Inv, DrainStep PROVE Inv'
<1> DEFINE n == Head(queue)
<1>1. /\ drainingQueue /\ queue' = Tail(queue)
      /\ UNCHANGED <<endStreamAtFirstData, context, writesDoneSent, accepted, written>>
  BY DEF DrainStep, Dequeue
<1>2. queue \in Seq(Nat) /\ queue # <<>> /\ MarkerIsLast(queue) /\ ~upload.on
  BY <1>1 DEF Inv, QueueType, QueueInv
<1>3. /\ n \in Nat /\ n = queue[1] /\ queue' \in Seq(Nat) /\ Len(queue) \in Nat
      /\ Len(queue) > 0 /\ Len(queue') = Len(queue) - 1
      /\ (Len(queue') = 0) <=> (queue' = <<>>)
  BY <1>1, <1>2, QueueFacts
<1>4. /\ MarkerIsLast(queue')
      /\ n = EndMarker => queue' = <<>>
      /\ queue' # <<>> => queue'[Len(queue')] = queue[Len(queue)]
      /\ (\E i \in 1..Len(queue') : queue'[i] = EndMarker) => writesDoneSent
  BY <1>1, <1>2, TailCounts DEF Inv, QueueInv
<1>5. /\ ClosesStream(n) => (queue' = <<>> /\ (writesDoneSent \/ endStreamAtFirstData))
      /\ endStreamAtFirstData => Len(queue') <= 1
  <2>1. endStreamAtFirstData => Len(queue) <= 1
    BY DEF Inv, QueueInv
  <2>2. n = EndMarker => writesDoneSent
    <3>1. 1 \in 1..Len(queue)
      BY <1>3
    <3> QED BY <1>3, <3>1 DEF Inv, QueueInv
  <2> QED BY <1>3, <1>4, <2>1, <2>2 DEF ClosesStream
<1>6. (n = EndMarker => (UserQueued = 0 /\ UserQueued' = 0))
      /\ (n # EndMarker => UserQueued' = UserQueued - 1)
  <2>1. CASE n = EndMarker
    <3>1. queue' = <<>> /\ Len(queue) = 1
      BY <1>3, <1>4, <2>1
    <3> QED BY <1>2, <1>3, <2>1, <3>1 DEF UserQueued
  <2>2. CASE n # EndMarker
    BY <1>2, <1>3, <1>4, <2>2 DEF UserQueued
  <2> QED BY <2>1, <2>2
<1>7. state # "Idle" /\ stream # "Null" /\ ~upload.close
  BY <1>1, <1>2 DEF Inv, QueueInv, UploadNeedsHeaders
<1>8. state \in Running => ~inFlightUserWrite
  BY <1>2 DEF Inv, QueueInv
<1>9. CASE SendDataWhole(n)
  <2>1. QueueType'
    <3>1. drainingQueue' \in BOOLEAN /\ inFlightUserWrite' \in BOOLEAN
      BY <1>9 DEF SendDataWhole, UploadFinished
    <3>2. posted' \in Nat
      BY <1>9 DEF SendDataWhole, UploadFinished, Inv, QueueType
    <3>3. stream' \in {"Null", "Idle", "Open", "HalfClosedLocal", "Closed"}
          /\ UNCHANGED <<state, upload, finished>>
      BY <1>9 DEF SendDataWhole, Inv, QueueType
    <3> QED BY <1>1, <1>3, <3>1, <3>2, <3>3 DEF Inv, QueueType
  <2>2. PacingExact'
    <3>1. posted' = (IF ClosesStream(n) THEN posted ELSE posted + 1) /\ ~inFlightUserWrite'
          /\ state' = state
      BY <1>9 DEF SendDataWhole, UploadFinished
    <3> QED BY <1>1, <1>6, <1>8, <3>1, CountsAreNat, PacingMoves DEF Inv
  <2>3. UploadNeedsHeaders'
    BY <1>7, <1>9 DEF UploadNeedsHeaders, SendDataWhole
  <2> QED BY <1>1, <1>2, <1>4, <1>5, <1>7, <1>8, <1>9, <2>1, <2>2, <2>3
          DEF Inv, QueueInv, QueueType, SendDataWhole, UploadFinished
<1>10. CASE SendDataPart(n)
  <2>1. PICK w \in 0..(n - 1) : upload' = [on |-> TRUE, left |-> n - w, close |-> ClosesStream(n)]
    BY <1>10 DEF SendDataPart
  <2>2. upload' \in Uploads /\ upload'.on /\ upload'.close = ClosesStream(n)
    <3>1. ClosesStream(n) \in BOOLEAN
      BY DEF ClosesStream, Inv, QueueType
    <3>2. n - w \in Nat
      BY <1>3, <2>1
    <3> QED BY <2>1, <3>1, <3>2 DEF Uploads
  <2>3. inFlightUserWrite' = ~ClosesStream(n) /\ ~drainingQueue'
        /\ UNCHANGED <<state, stream, posted, finished>> /\ stream = "Open"
    BY <1>10 DEF SendDataPart
  <2>4. QueueType'
    BY <1>1, <1>3, <1>10, <2>2, <2>3 DEF Inv, QueueType, SendDataPart
  <2>5. PacingExact'
    BY <1>1, <1>6, <1>8, <2>3, CountsAreNat, PacingMoves DEF Inv
  <2>6. UploadNeedsHeaders'
    BY <1>7, <2>3 DEF UploadNeedsHeaders
  <2> QED BY <1>1, <1>4, <1>5, <2>2, <2>3, <2>4, <2>5, <2>6 DEF Inv, QueueInv, QueueType
<1>11. CASE SendDataBreaks(n)
  <2>1. /\ stream' = "Closed" /\ state' \in {"Cancelled", "Finished"} /\ upload' = upload
        /\ posted' = posted /\ drainingQueue' \in BOOLEAN /\ inFlightUserWrite' \in BOOLEAN
        /\ finished' \in BOOLEAN
        /\ drainingQueue' => queue' # <<>>
    BY <1>1, <1>11 DEF SendDataBreaks
  <2>2. QueueType'
    BY <1>1, <1>3, <2>1 DEF Inv, QueueType, States
  <2>3. PacingExact' /\ UploadNeedsHeaders'
    BY <2>1 DEF PacingExact, UploadNeedsHeaders, Running
  <2> QED BY <1>1, <1>2, <1>4, <1>5, <1>7, <2>1, <2>2, <2>3 DEF Inv, QueueInv, Running
<1>12. CASE SendDataFails
  <2>1. /\ stream # "Open" /\ ~inFlightUserWrite' /\ ~drainingQueue'
        /\ inFlightUserWrite' \in BOOLEAN /\ drainingQueue' \in BOOLEAN
        /\ UNCHANGED <<state, stream, upload, posted, finished>>
    BY <1>12 DEF SendDataFails
  <2>2. state \notin Running
    BY <1>2, <1>7, <2>1 DEF Inv, QueueInv, Running
  <2>3. QueueType'
    BY <1>1, <1>3, <2>1 DEF Inv, QueueType
  <2>4. PacingExact' /\ UploadNeedsHeaders'
    BY <1>2, <2>1, <2>2 DEF PacingExact, UploadNeedsHeaders
  <2>5. (stream = "HalfClosedLocal") => queue = <<>>
    BY DEF Inv, QueueInv
  <2> QED BY <1>1, <1>2, <1>4, <1>5, <1>7, <2>1, <2>2, <2>3, <2>4, <2>5
          DEF Inv, QueueInv, Running
<1> QED BY <1>9, <1>10, <1>11, <1>12 DEF DrainStep

\* A wider window lets an upload go on, or finish and restart the queue.
LEMMA UploadKeepsInv == ASSUME Inv, NEW w \in Nat, UploadProgress(w) PROVE Inv'
<1>1. /\ upload.on /\ ~drainingQueue /\ w \in 1..upload.left
      /\ UNCHANGED <<endStreamAtFirstData, context, state, queue, writesDoneSent, accepted,
                     written, finished>>
      /\ UserQueued' = UserQueued /\ UserQueued \in Nat
  BY CountsAreNat DEF UploadProgress, EventLoop, UserQueued
<1>2. state # "Idle" /\ stream # "Null"
  BY <1>1 DEF Inv, QueueInv, UploadNeedsHeaders
<1>3. CASE /\ w < upload.left
           /\ upload' = [upload EXCEPT !.left = @ - w]
           /\ UNCHANGED <<stream, inFlightUserWrite, posted, drainingQueue>>
  <2>1. upload' \in Uploads /\ upload'.on = upload.on /\ upload'.close = upload.close
    <3>1. upload.left \in Nat /\ upload.left - w \in Nat
      BY <1>1, <1>3 DEF Inv, QueueType, Uploads
    <3> QED BY <1>3, <3>1 DEF Inv, QueueType, Uploads
  <2>2. QueueType'
    BY <1>1, <1>3, <2>1 DEF Inv, QueueType
  <2>3. PacingExact' /\ UploadNeedsHeaders'
    BY <1>1, <1>2, <1>3 DEF Inv, QueueInv, PacingExact, UploadNeedsHeaders
  <2> QED BY <1>1, <1>3, <2>1, <2>2, <2>3 DEF Inv, QueueInv, MarkerIsLast
<1>4. CASE /\ upload' = NoUpload
           /\ stream' = IF upload.close THEN "HalfClosedLocal" ELSE stream
           /\ UploadFinished(inFlightUserWrite)
           /\ drainingQueue' = QueueGoesOn
  <2>1. /\ upload' \in Uploads /\ ~upload'.on /\ ~upload'.close
        /\ stream' \in {stream, "HalfClosedLocal"}
        /\ drainingQueue' \in BOOLEAN /\ (drainingQueue' => queue # <<>>)
    BY <1>4 DEF NoUpload, Uploads, QueueGoesOn
  <2>2. posted' \in Nat /\ inFlightUserWrite' = FALSE
    BY <1>4 DEF UploadFinished, Inv, QueueType
  <2>3. QueueType'
    BY <1>1, <2>1, <2>2 DEF Inv, QueueType
  <2>4. PacingExact'
    <3>1. posted' = IF inFlightUserWrite THEN posted + 1 ELSE posted
      BY <1>4 DEF UploadFinished
    <3>2. SUFFICES ASSUME context, state \in Running, ~endStreamAtFirstData
                   PROVE  accepted = written + posted' + 0 + UserQueued
      BY <1>1, <2>2 DEF PacingExact
    <3>3. accepted = written + posted + (IF inFlightUserWrite THEN 1 ELSE 0) + UserQueued
      BY <3>2 DEF Inv, QueueInv, PacingExact
    <3> QED BY <1>1, <3>1, <3>3 DEF Inv, QueueType
  <2>5. UploadNeedsHeaders'
    BY <1>1, <1>2, <2>1 DEF UploadNeedsHeaders
  <2>6. stream' = "HalfClosedLocal" => queue = <<>>
    BY <1>4 DEF Inv, QueueInv
  <2>7. state \in {"RequestHeadersSent", "Active"} => stream' \in {"Open", "HalfClosedLocal"}
    BY <2>1 DEF Inv, QueueInv
  <2> QED BY <1>1, <2>1, <2>2, <2>3, <2>4, <2>5, <2>6, <2>7 DEF Inv, QueueInv, MarkerIsLast
<1> QED BY <1>3, <1>4 DEF UploadProgress

\* The posted signal, emitted or withheld.
LEMMA MessageWrittenKeepsInv == ASSUME Inv, MessageWritten PROVE Inv'
<1>1. /\ posted > 0 /\ posted' = posted - 1 /\ UserQueued' = UserQueued /\ UserQueued \in Nat
      /\ written' = IF MayEmitWritten THEN written + 1 ELSE written
      /\ UNCHANGED <<endStreamAtFirstData, context, state, stream, queue, writesDoneSent,
                     drainingQueue, inFlightUserWrite, upload, accepted, finished>>
  BY CountsAreNat DEF MessageWritten, UserQueued
<1>2. posted' \in Nat /\ written' \in Nat
  BY <1>1 DEF Inv, QueueType
<1>3. QueueType'
  BY <1>1, <1>2 DEF Inv, QueueType
<1>4. PacingExact'
  <2>1. SUFFICES ASSUME context, state \in Running, ~endStreamAtFirstData
                 PROVE  accepted = written' + posted' + (IF inFlightUserWrite THEN 1 ELSE 0)
                                     + UserQueued
    BY <1>1 DEF PacingExact
  <2>2. accepted = written + posted + (IF inFlightUserWrite THEN 1 ELSE 0) + UserQueued
    BY <2>1 DEF Inv, QueueInv, PacingExact
  <2>3. written' = written + 1
    BY <1>1, <2>1 DEF MayEmitWritten
  <2>4. posted \in Nat /\ written \in Nat
    BY DEF Inv, QueueType
  <2>5. CASE inFlightUserWrite
    BY <1>1, <2>2, <2>3, <2>4, <2>5
  <2>6. CASE ~inFlightUserWrite
    BY <1>1, <2>2, <2>3, <2>4, <2>6
  <2> QED BY <2>5, <2>6
<1>5. UploadNeedsHeaders'
  BY <1>1 DEF Inv, QueueInv, UploadNeedsHeaders
<1> QED BY <1>1, <1>3, <1>4, <1>5 DEF Inv, QueueInv, MarkerIsLast

-----------------------------------------------------------------------------
\* Every step keeps the invariant.
LEMMA StepInv == ASSUME Inv, [Next]_vars PROVE Inv'
<1>1. CASE \E n \in Sizes : Write(n)
  BY <1>1, WriteKeepsInv
<1>2. CASE Transport
  <2>1. PICK w \in 1..upload.left : UploadProgress(w)
    BY <1>2 DEF Transport
  <2>2. w \in Nat
    BY <2>1 DEF Inv, QueueType, Uploads
  <2> QED BY <2>1, <2>2, UploadKeepsInv
<1>3. CASE UNCHANGED vars
  BY <1>3 DEF vars, Inv, QueueType, QueueInv, UploadNeedsHeaders, PacingExact, UserQueued,
              MarkerIsLast
<1> QED BY <1>1, <1>2, <1>3, WritesDoneKeepsInv, DrainKeepsInv, MessageWrittenKeepsInv,
           LifeKeepsInv, DeleteKeepsInv, TooLargeEnds DEF Next

\* The invariant holds in every reachable state.
LEMMA QueueInvariant == Spec => []Inv
BY InitInv, StepInv, PTL DEF Spec

\* messageWritten paces exactly: every accepted message of a running streaming
\* RPC is queued, uploading, about to be reported, or reported once.
THEOREM Pacing == Spec => []PacingExact
<1>1. Inv => PacingExact
  BY DEF Inv, QueueInv
<1> QED BY <1>1, QueueInvariant, PTL

\* The end marker of writesDone() never overtakes a message, nor is one left
\* behind on a stream that END_STREAM closed.
THEOREM EndStreamIsLast == Spec => []EndStreamLast
<1>1. Inv => EndStreamLast
  BY DEF Inv, QueueInv, EndStreamLast, MarkerIsLast
<1> QED BY <1>1, QueueInvariant, PTL

\* processQueue() neither runs nor uploads before the HEADERS have been sent.
THEOREM HeadersBeforeData == Spec => []UploadNeedsHeaders
<1>1. Inv => UploadNeedsHeaders
  BY DEF Inv, QueueInv
<1> QED BY <1>1, QueueInvariant, PTL

\* No messageWritten() after finished(), though it is posted and may be
\* delivered long after the upload that earned it.
THEOREM SilentAfterFinished == Spec => NoWrittenAfterFinished
<1>1. Inv /\ [Next]_vars => [written' # written => ~finished]_vars
  <2> SUFFICES ASSUME Inv, Next, written' # written PROVE ~finished
    BY DEF vars
  <2>1. finished => state \notin Running
    BY DEF Inv, QueueInv
  <2>2. CASE MessageWritten
    BY <2>1, <2>2 DEF MessageWritten, MayEmitWritten
  <2>3. CASE \E n \in Sizes : Write(n)
    BY <2>3 DEF Write
  <2>4. CASE WritesDone \/ DrainStep
    BY <2>4 DEF WritesDone, DrainStep
  <2>5. CASE Transport
    BY <2>5 DEF Transport, UploadProgress
  <2>6. CASE AttachStream \/ SendInitialRequest \/ ResponseHeaders \/ End \/ DestroyContext
             \/ DeleteHandler
    BY <2>6 DEF AttachStream, SendInitialRequest, ResponseHeaders, End, DestroyContext,
                DeleteHandler, lifeUnchanged
  <2> QED BY <2>2, <2>3, <2>4, <2>5, <2>6, TooLargeEnds DEF Next
<1> QED BY <1>1, QueueInvariant, PTL DEF Spec, NoWrittenAfterFinished

-----------------------------------------------------------------------------
(* The bytes.  The library's induction theorems have a predicate as a      *)
(* parameter; here induction is over a set, from the least number outside. *)

\* A set of numbers has a least one.
LEMMA NatMin ==
    ASSUME NEW T, T \subseteq Nat, T # {}
    PROVE  \E x \in T : \A y \in T : x <= y
<1>1. PICK R : R = OpToRel(<, Nat)
  OBVIOUS
<1>2. IsWellFoundedOn(R, Nat)
  BY <1>1, NatLessThanWellFounded
<1>3. R = {p \in Nat \X Nat : p[1] < p[2]}
  BY <1>1 DEF OpToRel
<1>4. PICK x \in T : \A y \in T : ~(<<y, x>> \in R)
  BY <1>2, WFMin
<1>5. ASSUME NEW y \in T PROVE x <= y
  <2>1. x \in Nat /\ y \in Nat
    OBVIOUS
  <2>2. <<y, x>> \notin R
    BY <1>4
  <2>3. ~(y < x)
    <3>1. <<y, x>>[1] = y /\ <<y, x>>[2] = x
      OBVIOUS
    <3>2. <<y, x>> \in Nat \X Nat
      BY <2>1
    <3> QED BY <1>3, <2>2, <3>1, <3>2
  <2> QED BY <2>1, <2>3
<1> QED BY <1>5

\* So a set of numbers that has 0 and each successor has them all.
LEMMA SetInduction ==
    ASSUME NEW S, 0 \in S, \A n \in Nat : n \in S => n + 1 \in S
    PROVE  Nat \subseteq S
<1> SUFFICES ASSUME NEW m \in Nat, m \notin S PROVE FALSE
  OBVIOUS
<1> DEFINE T == {n \in Nat : n \notin S}
<1>1. PICK x \in T : \A y \in T : x <= y
  <2>1. T \subseteq Nat /\ T # {}
    OBVIOUS
  <2> HIDE DEF T
  <2> QED BY <2>1, NatMin
<1>2. x \in Nat /\ x # 0
  OBVIOUS
<1>3. x - 1 \in Nat /\ x - 1 \in S
  <2>1. x - 1 \in Nat
    BY <1>2
  <2> QED BY <2>1, <1>1
<1> QED BY <1>2, <1>3
\* f holds the sums of the first 0 to n members of q.
Sums(f, q, n) ==
    /\ f \in [0..n -> Nat] /\ f[0] = 0
    /\ \A i \in 1..n : f[i] = f[i - 1] + q[i]

\* There are such sums.
LEMMA SumsExist ==
    ASSUME NEW q \in Seq(Nat), NEW n \in Nat, n <= Len(q) PROVE \E f : Sums(f, q, n)
<1> DEFINE Good == {m \in Nat : m <= Len(q) => \E f : Sums(f, q, m)}
<1>1. 0 \in Good
  <2>1. Sums([i \in 0..0 |-> 0], q, 0)
    BY DEF Sums
  <2> QED BY <2>1
<1>2. ASSUME NEW m \in Nat, m \in Good PROVE m + 1 \in Good
  <2>1. ASSUME m + 1 <= Len(q) PROVE \E f : Sums(f, q, m + 1)
    <3>1. PICK f : Sums(f, q, m)
      BY <1>2, <2>1
    <3> DEFINE g == [i \in 0..(m + 1) |-> IF i = m + 1 THEN f[m] + q[m + 1] ELSE f[i]]
    <3>2. m + 1 \in 1..Len(q)
      BY <2>1
    <3>3. f[m] + q[m + 1] \in Nat
      BY <3>1, <3>2 DEF Sums
    <3>4. g \in [0..(m + 1) -> Nat] /\ g[0] = 0
      BY <3>1, <3>3 DEF Sums
    <3>5. ASSUME NEW i \in 1..(m + 1) PROVE g[i] = g[i - 1] + q[i]
      <4>1. CASE i = m + 1
        BY <4>1
      <4>2. CASE i \in 1..m
        BY <3>1, <4>2 DEF Sums
      <4> QED BY <4>1, <4>2
    <3>6. Sums(g, q, m + 1)
      BY <3>4, <3>5 DEF Sums
    <3> QED BY <3>6
  <2> QED BY <2>1
<1> HIDE DEF Good
<1>3. n \in Good
  BY <1>1, <1>2, SetInduction
<1> QED BY <1>3 DEF Good

\* PrefixSums is them.
LEMMA PrefixSumsAreSums == ASSUME NEW q \in Seq(Nat) PROVE Sums(PrefixSums(q), q, Len(q))
<1>1. PICK f : Sums(f, q, Len(q))
  BY SumsExist
<1>2. f = [i \in 0..Len(q) |-> IF i = 0 THEN 0 ELSE f[i - 1] + q[i]]
  BY <1>1 DEF Sums
<1>3. PrefixSums(q) = [i \in 0..Len(q) |-> IF i = 0 THEN 0 ELSE PrefixSums(q)[i - 1] + q[i]]
  BY <1>2 DEF PrefixSums
<1>4. PICK p : p = PrefixSums(q)
  OBVIOUS
<1>5. p = [i \in 0..Len(q) |-> IF i = 0 THEN 0 ELSE p[i - 1] + q[i]]
  BY <1>3, <1>4
<1> DEFINE Good == {m \in Nat : m <= Len(q) => p[m] \in Nat}
<1>6. 0 \in Good
  BY <1>5
<1>7. ASSUME NEW m \in Nat, m \in Good PROVE m + 1 \in Good
  BY <1>5, <1>7
<1> HIDE DEF Good
<1>8. \A m \in 0..Len(q) : p[m] \in Nat
  <2>1. Nat \subseteq Good
    BY <1>6, <1>7, SetInduction
  <2> QED BY <2>1 DEF Good
<1>9. Sums(p, q, Len(q))
  <2>1. Len(q) \in Nat
    OBVIOUS
  <2>2. p \in [0..Len(q) -> Nat]
    BY <1>5, <1>8
  <2>3. p[0] = 0 /\ \A i \in 1..Len(q) : p[i] = p[i - 1] + q[i]
    BY <1>5, <2>1
  <2> QED BY <2>2, <2>3 DEF Sums
<1> QED BY <1>4, <1>9

\* What enqueuing and dequeuing do to the sum of the queue.
LEMMA SumOfAppend ==
    ASSUME NEW q \in Seq(Nat), NEW n \in Nat
    PROVE  SumOf(Append(q, n)) = SumOf(q) + n /\ SumOf(q) \in Nat
<1> DEFINE a == Append(q, n)
<1>1. /\ a \in Seq(Nat) /\ Len(a) = Len(q) + 1 /\ a[Len(q) + 1] = n /\ Len(q) \in Nat
      /\ \A i \in 1..Len(q) : a[i] = q[i]
  OBVIOUS
<1> HIDE DEF a
<1>2. PICK f : f = PrefixSums(q) /\ Sums(f, q, Len(q))
  BY PrefixSumsAreSums
<1>3. PICK g : g = PrefixSums(a) /\ Sums(g, a, Len(a))
  BY <1>1, PrefixSumsAreSums
<1> DEFINE Good == {m \in Nat : m <= Len(q) => g[m] = f[m]}
<1>4. 0 \in Good
  BY <1>2, <1>3 DEF Sums
<1>5. ASSUME NEW m \in Nat, m \in Good PROVE m + 1 \in Good
  BY <1>1, <1>2, <1>3, <1>5 DEF Sums
<1> HIDE DEF Good
<1>6. g[Len(q)] = f[Len(q)]
  <2>1. Nat \subseteq Good
    BY <1>4, <1>5, SetInduction
  <2> QED BY <1>1, <2>1 DEF Good
<1>7. g[Len(a)] = f[Len(q)] + n /\ f[Len(q)] \in Nat
  BY <1>1, <1>2, <1>3, <1>6 DEF Sums
<1> QED BY <1>2, <1>3, <1>7 DEF SumOf, a

\* The sum of a queue is its head and the sum of the rest.
LEMMA SumOfTail ==
    ASSUME NEW q \in Seq(Nat), q # <<>>
    PROVE  SumOf(q) = Head(q) + SumOf(Tail(q))
<1> DEFINE t == Tail(q)
<1>1. /\ t \in Seq(Nat) /\ Len(t) = Len(q) - 1 /\ Len(q) \in Nat \ {0} /\ Head(q) = q[1]
      /\ \A i \in 1..Len(t) : t[i] = q[i + 1]
      /\ \A i \in 1..Len(q) : q[i] \in Nat
  OBVIOUS
<1> HIDE DEF t
<1>2. PICK f : f = PrefixSums(q) /\ Sums(f, q, Len(q))
  BY PrefixSumsAreSums
<1>3. PICK g : g = PrefixSums(t) /\ Sums(g, t, Len(t))
  BY <1>1, PrefixSumsAreSums
<1> DEFINE Good == {m \in Nat : m <= Len(t) => f[m + 1] = q[1] + g[m]}
<1>4. 0 \in Good
  BY <1>1, <1>2, <1>3 DEF Sums
<1>5. ASSUME NEW m \in Nat, m \in Good PROVE m + 1 \in Good
  <2>1. ASSUME m + 1 <= Len(t) PROVE f[m + 2] = q[1] + g[m + 1]
    <3>1. f[m + 1] = q[1] + g[m] /\ g[m] \in Nat /\ g[m + 1] = g[m] + t[m + 1]
      <4>1. m <= Len(t) /\ m + 1 \in 1..Len(t) /\ (m + 1) - 1 = m /\ m \in 0..Len(t)
        BY <1>1, <2>1
      <4> QED BY <1>3, <1>5, <4>1 DEF Sums
    <3>2. f[m + 2] = f[m + 1] + q[m + 2]
      <4>1. m + 2 \in 1..Len(q) /\ (m + 2) - 1 = m + 1
        BY <1>1, <2>1
      <4> QED BY <1>2, <4>1 DEF Sums
    <3>3. t[m + 1] = q[m + 2] /\ q[m + 2] \in Nat /\ q[1] \in Nat
      BY <1>1, <2>1
    <3> QED BY <3>1, <3>2, <3>3
  <2> QED BY <2>1
<1> HIDE DEF Good
<1>6. f[Len(t) + 1] = q[1] + g[Len(t)]
  <2>1. Nat \subseteq Good
    BY <1>4, <1>5, SetInduction
  <2> QED BY <1>1, <2>1 DEF Good
<1> QED BY <1>1, <1>2, <1>3, <1>6 DEF SumOf, t

-----------------------------------------------------------------------------
(* The inductive invariant of the byte counters: exact while the RPC runs, *)
(* and afterwards at least what is still queued and uploading, so that no  *)
(* subtraction ever goes below 0.                                          *)

BytesInv ==
    /\ queuedBytes \in Nat /\ bytesToWrite \in Nat
    /\ ~upload.on => upload.left = 0
    /\ drainingQueue => state # "Deleted"
    /\ state # "Deleted" => /\ queuedBytes = SumOf(queue)
                            /\ bytesToWrite >= queuedBytes + upload.left
    /\ state \in Running => bytesToWrite = queuedBytes + upload.left

\* An accepted message is counted when it is queued, the end marker is nothing.
LEMMA EnqueueKeepsBytes ==
    ASSUME Inv, BytesInv, (\E n \in Sizes : Write(n)) \/ WritesDone
    PROVE  BytesInv'
<1>1. queue \in Seq(Nat) /\ queuedBytes \in Nat /\ bytesToWrite \in Nat /\ upload.left \in Nat
  BY DEF Inv, QueueType, Uploads, BytesInv
<1>2. state # "Deleted"
  BY DEF Write, Writable, WritesDone, EventLoop
<1>3. queuedBytes = SumOf(queue)
  BY <1>2 DEF BytesInv
<1>4. ASSUME NEW n \in Nat, queue' = Append(queue, n), queuedBytes' = queuedBytes + n,
             bytesToWrite' = bytesToWrite + n, UNCHANGED <<state, upload>>
      PROVE  BytesInv'
  <2>1. queuedBytes' = SumOf(queue')
    BY <1>1, <1>3, <1>4, SumOfAppend
  <2>2. queuedBytes' \in Nat /\ bytesToWrite' \in Nat
    BY <1>1, <1>4
  <2>3. bytesToWrite >= queuedBytes + upload.left
    BY <1>2 DEF BytesInv
  <2>4. bytesToWrite' >= queuedBytes' + upload'.left
    BY <1>1, <1>4, <2>3
  <2>5. ASSUME state' \in Running PROVE bytesToWrite' = queuedBytes' + upload'.left
    <3>1. bytesToWrite = queuedBytes + upload.left
      BY <1>4, <2>5 DEF BytesInv
    <3>2. bytesToWrite + n = (queuedBytes + n) + upload.left
      BY <1>1, <3>1
    <3> QED BY <1>4, <3>2
  <2>6. (~upload'.on => upload'.left = 0) /\ state' # "Deleted"
    BY <1>2, <1>4 DEF BytesInv
  <2> QED BY <2>1, <2>2, <2>4, <2>5, <2>6 DEF BytesInv
<1>5. CASE \E n \in Sizes : Write(n)
  BY <1>4, <1>5, SendQueueAssumption DEF Write
<1>6. CASE WritesDone
  <2>1. UNCHANGED <<queuedBytes, bytesToWrite, state, upload>>
    BY <1>6 DEF WritesDone
  <2>2. CASE UNCHANGED queue
    BY <1>2, <2>1, <2>2 DEF BytesInv
  <2>3. CASE queue' = Append(queue, 0)
    BY <1>1, <1>4, <2>1, <2>3
  <2> QED BY <1>6, <2>2, <2>3 DEF WritesDone, EndMarker
<1> QED BY <1>5, <1>6

\* What the drain loop takes from the queue is written, uploading or, when the
\* RPC has ended, lost.
LEMMA DrainKeepsBytes == ASSUME Inv, BytesInv, DrainStep PROVE BytesInv'
<1>1. PICK n \in Nat : n = Head(queue)
  BY QueueFacts DEF Inv, QueueType, QueueInv, DrainStep
<1>2. queue \in Seq(Nat) /\ queue # <<>> /\ Tail(queue) \in Seq(Nat) /\ ~upload.on
  BY QueueFacts DEF Inv, QueueType, QueueInv, DrainStep
<1>3. queue' = Tail(queue) /\ queuedBytes' = queuedBytes - n
  BY <1>1 DEF DrainStep, Dequeue
<1>4. SumOf(queue) = n + SumOf(queue') /\ SumOf(queue') \in Nat
  BY <1>1, <1>2, <1>3, SumOfTail, SumOfAppend
<1>5. state # "Deleted" /\ upload.left = 0
  BY <1>2 DEF BytesInv, Inv, QueueInv, DrainStep, UploadNeedsHeaders
<1>6. ASSUME bytesToWrite' = bytesToWrite - n, upload' = upload, state' = state,
             stream = "Open"
      PROVE  BytesInv'
  <2>1. n <= queuedBytes /\ queuedBytes' = SumOf(queue') /\ queuedBytes' \in Nat
    BY <1>3, <1>4, <1>5 DEF BytesInv
  <2>2. bytesToWrite' \in Nat /\ bytesToWrite' >= queuedBytes'
    BY <1>1, <1>3, <1>5, <1>6, <2>1 DEF BytesInv
  <2>3. state \in Running => bytesToWrite' = queuedBytes'
    BY <1>1, <1>3, <1>5, <1>6, <2>1 DEF BytesInv
  <2> QED BY <1>2, <1>5, <1>6, <2>1, <2>2, <2>3 DEF BytesInv
<1>7. CASE SendDataWhole(n)
  BY <1>6, <1>7 DEF SendDataWhole
<1>8. CASE SendDataPart(n)
  <2>1. PICK w \in 0..(n - 1) :
            /\ bytesToWrite' = bytesToWrite - w
            /\ upload' = [on |-> TRUE, left |-> n - w, close |-> ClosesStream(n)]
    BY <1>8 DEF SendDataPart
  <2>2. n <= queuedBytes /\ queuedBytes' = SumOf(queue') /\ queuedBytes' \in Nat
    BY <1>3, <1>4, <1>5 DEF BytesInv
  <2>3. upload'.left = n - w /\ upload'.on /\ state' = state
    BY <1>8, <2>1 DEF SendDataPart
  <2>4. w \in Nat /\ w < n /\ bytesToWrite \in Nat /\ bytesToWrite >= queuedBytes
    BY <1>1, <1>5, <2>1 DEF BytesInv
  <2>5. bytesToWrite' \in Nat /\ bytesToWrite' >= queuedBytes' + upload'.left
    BY <1>1, <1>3, <2>1, <2>2, <2>3, <2>4 DEF BytesInv
  <2>6. state \in Running => bytesToWrite' = queuedBytes' + upload'.left
    BY <1>1, <1>3, <1>5, <2>1, <2>2, <2>3, <2>4 DEF BytesInv
  <2> QED BY <1>5, <2>2, <2>3, <2>5, <2>6 DEF BytesInv
<1>9. CASE SendDataBreaks(n) \/ SendDataFails
  <2>1. n <= queuedBytes /\ queuedBytes' = SumOf(queue') /\ queuedBytes' \in Nat
        /\ queuedBytes' <= queuedBytes
    BY <1>1, <1>3, <1>4, <1>5 DEF BytesInv
  <2>2. UNCHANGED <<bytesToWrite, upload>>
    BY <1>9 DEF SendDataBreaks, SendDataFails
  <2>3. state' \notin Running /\ state' # "Deleted"
    <3>1. CASE SendDataBreaks(n)
      BY <3>1 DEF SendDataBreaks, Running
    <3>2. CASE SendDataFails
      BY <1>5, <3>2 DEF SendDataFails, DrainStep, Inv, QueueInv, UploadNeedsHeaders, Running
    <3> QED BY <1>9, <3>1, <3>2
  <2> QED BY <1>2, <1>5, <2>1, <2>2, <2>3 DEF BytesInv
<1> QED BY <1>1, <1>7, <1>8, <1>9 DEF DrainStep

\* What an upload writes is no longer to write.
LEMMA UploadKeepsBytes == ASSUME Inv, BytesInv, NEW w \in Nat, UploadProgress(w) PROVE BytesInv'
<1>1. /\ state # "Deleted" /\ w \in 1..upload.left /\ upload.left \in Nat
      /\ bytesToWrite' = bytesToWrite - w /\ UNCHANGED <<state, queue, queuedBytes>>
  BY DEF UploadProgress, EventLoop, Inv, QueueType, Uploads
<1>2. upload'.left = upload.left - w /\ (~upload'.on => upload'.left = 0)
  <2>1. CASE w < upload.left /\ upload' = [upload EXCEPT !.left = @ - w]
    BY <2>1 DEF UploadProgress, Inv, QueueType, Uploads
  <2>2. CASE w = upload.left /\ upload' = NoUpload
    BY <1>1, <2>2 DEF NoUpload
  <2> QED BY <2>1, <2>2 DEF UploadProgress
<1>3. queuedBytes \in Nat /\ bytesToWrite \in Nat /\ bytesToWrite >= queuedBytes + upload.left
  BY <1>1 DEF BytesInv
<1>4. bytesToWrite' \in Nat /\ bytesToWrite' >= queuedBytes + upload'.left
  BY <1>1, <1>2, <1>3
<1>5. state \in Running => bytesToWrite' = queuedBytes + upload'.left
  BY <1>1, <1>2, <1>3 DEF BytesInv
<1>6. queuedBytes' = SumOf(queue')
  BY <1>1 DEF BytesInv
<1>7. drainingQueue' => state # "Deleted"
  BY <1>1
<1> QED BY <1>1, <1>2, <1>3, <1>4, <1>5, <1>6, <1>7 DEF BytesInv

\* The rest of the handler's life leaves the counters alone; whoever ends the
\* RPC may take an upload away, never add one.
LEMMA LifeKeepsBytes ==
    ASSUME Inv, BytesInv,
           \/ AttachStream \/ SendInitialRequest \/ ResponseHeaders \/ End
           \/ DestroyContext \/ DeleteHandler \/ MessageWritten
    PROVE  BytesInv'
<1>1. UNCHANGED <<queuedBytes, bytesToWrite>> /\ ~drainingQueue /\ state # "Deleted"
  BY DEF AttachStream, SendInitialRequest, ResponseHeaders, End, DestroyContext, DeleteHandler,
         MessageWritten, EventLoop, lifeUnchanged
<1>2. upload.left \in Nat /\ queuedBytes \in Nat /\ bytesToWrite \in Nat
  BY DEF Inv, QueueType, Uploads, BytesInv
<1>3. CASE UNCHANGED <<queue, upload>> /\ state' # "Deleted" /\ (state' \in Running => state \in Running)
  BY <1>1, <1>3 DEF BytesInv
<1>4. CASE state' \notin Running /\ state' # "Deleted" /\ UNCHANGED queue /\ upload' = NoUpload
  <2>1. upload'.left = 0 /\ ~upload'.on
    BY <1>4 DEF NoUpload
  <2> QED BY <1>1, <1>2, <1>4, <2>1 DEF BytesInv
<1>5. CASE state' = "Deleted" /\ upload' = NoUpload /\ ~drainingQueue'
  <2>1. upload'.left = 0 /\ ~upload'.on
    BY <1>5 DEF NoUpload
  <2> QED BY <1>1, <1>2, <1>5, <2>1 DEF BytesInv, Running
<1>6. End => /\ UNCHANGED queue /\ state' \notin Running /\ state' # "Deleted"
             /\ upload' = upload \/ upload' = NoUpload
  BY DEF End, Running
<1> QED BY <1>1, <1>3, <1>4, <1>5, <1>6
        DEF AttachStream, SendInitialRequest, ResponseHeaders, DestroyContext, DeleteHandler,
            MessageWritten, Running

\* The counters start with the initial message.
LEMMA InitBytes == Init => BytesInv
<1> SUFFICES ASSUME Init PROVE BytesInv
  OBVIOUS
<1>1. PICK n \in Sizes : queue = <<n>> /\ queuedBytes = n /\ bytesToWrite = n
  BY DEF Init
<1>2. n \in Nat /\ <<>> \in Seq(Nat) /\ queue \in Seq(Nat) /\ queue # <<>>
      /\ Head(queue) = n /\ Tail(queue) = <<>>
  BY <1>1, SendQueueAssumption
<1>3. SumOf(queue) = n + SumOf(<<>>)
  BY <1>2, SumOfTail
<1>4. SumOf(<<>>) = 0
  <2>1. Sums(PrefixSums(<<>>), <<>>, Len(<<>>)) /\ Len(<<>>) = 0
    BY <1>2, PrefixSumsAreSums
  <2> QED BY <2>1 DEF Sums, SumOf
<1> QED BY <1>1, <1>2, <1>3, <1>4 DEF Init, BytesInv, NoUpload, Running

\* Every step keeps the counters right.
LEMMA StepBytes == ASSUME Inv, BytesInv, [Next]_vars PROVE BytesInv'
<1>1. CASE Transport
  <2>1. PICK w \in 1..upload.left : UploadProgress(w)
    BY <1>1 DEF Transport
  <2>2. w \in Nat
    BY <2>1 DEF Inv, QueueType, Uploads
  <2> QED BY <2>1, <2>2, UploadKeepsBytes
<1>2. CASE UNCHANGED vars
  BY <1>2 DEF vars, BytesInv
<1> QED BY <1>1, <1>2, EnqueueKeepsBytes, DrainKeepsBytes, LifeKeepsBytes, TooLargeEnds DEF Next

\* The counters are invariant beside the queue.
LEMMA BytesInvariant == Spec => [](Inv /\ BytesInv)
BY InitInv, StepInv, InitBytes, StepBytes, PTL DEF Spec

\* The queue of a handler is well-formed and its byte counters never become
\* negative, whatever is written, however the window opens and whenever the RPC
\* ends.
THEOREM QueueTypeCorrect == Spec => []TypeOK
<1>1. Inv /\ BytesInv => TypeOK
  BY DEF Inv, QueueType, States, Uploads, BytesInv, TypeOK
<1> QED BY <1>1, BytesInvariant, PTL

\* bytesToWrite() is exact while the RPC runs: what is queued plus the rest of
\* the upload, and 0 only when every message has been sent.
THEOREM BytesCounted == Spec => []BytesExact
<1>1. ASSUME Inv, BytesInv, state \in Running
      PROVE  queuedBytes = SumOf(queue) /\ bytesToWrite = queuedBytes + upload.left
  BY <1>1 DEF BytesInv, Running
<1>2. ASSUME Inv, BytesInv, state \in Running, bytesToWrite = 0
      PROVE  UserQueued = 0 /\ upload.left = 0
  <2>1. /\ queuedBytes = 0 /\ upload.left = 0 /\ SumOf(queue) = 0
        /\ queue \in Seq(Nat) /\ MarkerIsLast(queue)
    BY <1>1, <1>2 DEF BytesInv, Inv, QueueType, QueueInv, Uploads
  <2>2. CASE queue = <<>>
    BY <2>1, <2>2 DEF UserQueued
  <2>3. CASE queue # <<>>
    <3>1. /\ Head(queue) \in Nat /\ Tail(queue) \in Seq(Nat) /\ Len(queue) \in Nat \ {0}
          /\ Head(queue) = queue[1]
      BY <2>1, <2>3, QueueFacts
    <3>2. SumOf(queue) = Head(queue) + SumOf(Tail(queue)) /\ SumOf(Tail(queue)) \in Nat
      BY <2>1, <2>3, <3>1, SumOfTail, SumOfAppend
    <3>3. queue[1] = EndMarker /\ 1 \in 1..Len(queue)
      BY <2>1, <3>1, <3>2 DEF EndMarker
    <3>4. Len(queue) = 1
      BY <2>1, <3>3 DEF MarkerIsLast
    <3> QED BY <2>1, <2>3, <3>3, <3>4 DEF UserQueued
  <2> QED BY <2>2, <2>3
<1>3. Inv /\ BytesInv => BytesExact
  BY <1>1, <1>2 DEF BytesExact, ZeroMeansSent
<1> QED BY <1>3, BytesInvariant, PTL
=============================================================================
