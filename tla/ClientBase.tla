----------------------------- MODULE ClientBase -----------------------------
(***************************************************************************)
(* QGrpcClientBase: which RPCs a client tracks, and attachChannel(), which *)
(* cancels them in a range-for over the very container that each of them   *)
(* leaves while it is cancelled.  The container is a QMinimalFlatSet, a    *)
(* sorted QList: the loop caches begin() and end(), so what it reads       *)
(* depends on how QList erases.  The slots that run in the loop may end    *)
(* other RPCs of the client, and attach another channel: then the loops    *)
(* are nested.                                                             *)
(***************************************************************************)
EXTENDS Naturals, FiniteSets, Sequences

CONSTANTS
    Ops,        \* addresses of the RPC objects: positive numbers
    Channels,   \* the channels to attach
    Refusals,   \* may the channel refuse an RPC (no handler listens to cancel)?
    Restart     \* may a slot of finished() start another RPC?

ASSUME ClientAssumption ==
    /\ Ops \subseteq Nat \ {0} /\ IsFiniteSet(Ops)
    /\ "null" \notin Channels
    /\ Refusals \in BOOLEAN /\ Restart \in BOOLEAN

VARIABLES
    channel,  \* the channel that is attached, "null" before the first
    op,       \* how far each RPC is
    memory,   \* the cells of the QList, freed ones included
    first,    \* the cell of begin()
    size,     \* size()
    loop,     \* the innermost attachChannel(): its iterator, end, new channel
    outer     \* those whose slots it was called from, innermost first

vars == <<channel, op, memory, first, size, loop, outer>>

Free   == 0
Cells  == 1..(2 * Cardinality(Ops))

\* slot is the RPC whose slots of finished() run.  Two things are remembered: did
\* every RPC hear cancel() when the loop began, and did only the loop end any?
Loops  == [on : BOOLEAN, it : Nat, end : Nat, slot : Ops \cup {Free}, hears : BOOLEAN,
           alone : BOOLEAN, to : Channels \cup {"null"}]
NoLoop == [on |-> FALSE, it |-> 0, end |-> 0, slot |-> Free, hears |-> TRUE, alone |-> TRUE,
           to |-> "null"]

\* The calls of attachChannel() on the stack.
Attaching == IF loop.on THEN {loop} \cup {outer[i] : i \in 1..Len(outer)} ELSE {}

\* A Tracked RPC listens to cancel, a Refused one does not; an Untracked one
\* is invalid, could not be serialized, or was dropped by an interceptor.
InSet == {"Tracked", "Refused"}

TypeOK ==
    /\ channel \in Channels \cup {"null"}
    /\ op \in [Ops -> {"Unused", "Untracked", "Finished", "Destroyed"} \cup InSet]
    /\ memory \in [Cells -> Ops \cup {Free}]
    /\ first \in Cells
    /\ size \in 0..Cardinality(Ops)
    /\ loop \in Loops /\ outer \in Seq(Loops)

Init ==
    /\ channel = "null"
    /\ op = [o \in Ops |-> "Unused"]
    /\ memory = [c \in Cells |-> Free]
    /\ first = 1
    /\ size = 0
    /\ loop = NoLoop
    /\ outer = <<>>

-----------------------------------------------------------------------------
(* The container.                                                          *)

activeStreams == {c \in Cells : c >= first /\ c < first + size}

\* Slip: the new pointer goes to the end, wherever it belongs.
SlipLowerBound(o) == first + size

LowerBound(o) == first + Cardinality({c \in activeStreams : memory[c] < o})

\* insert(): room is made at the end.  Without a loop the list may start anew.
Insert(o) ==
    LET base  == IF loop.on THEN first ELSE 1
        moved == [c \in Cells |-> IF c + first - base \in Cells
                                  THEN memory[c + first - base] ELSE Free]
        at    == LowerBound(o) - first + base
    IN  /\ memory' = [c \in Cells |-> CASE c = at -> o
                                        [] c > at /\ c <= base + size -> moved[c - 1]
                                        [] OTHER -> moved[c]]
        /\ first' = base
        /\ size' = size + 1

\* remove(): the first cell is given up by moving begin(), any other one by
\* moving the cells behind it; what lies behind the new end stays in memory.
Remove(o) ==
    \/ /\ \A c \in activeStreams : memory[c] # o
       /\ UNCHANGED <<memory, first, size>>
    \/ /\ memory[first] = o /\ size > 1
       /\ first' = first + 1
       /\ size' = size - 1
       /\ UNCHANGED memory
    \/ \E c \in activeStreams :
         /\ memory[c] = o /\ (c # first \/ size = 1)
         /\ memory' = [d \in Cells |-> IF d >= c /\ d < first + size - 1
                                       THEN memory[d + 1] ELSE memory[d]]
         /\ size' = size - 1
         /\ UNCHANGED first

-----------------------------------------------------------------------------
\* In the loop, user code runs in the slots of finished().
UserRuns == loop.on => loop.slot # Free

\* initOperation() up to addStream(): tracked once the channel has it.
Start(o) ==
    /\ UserRuns /\ (loop.on => Restart)
    /\ op[o] = "Unused"
    /\ \/ /\ op' = [op EXCEPT ![o] = "Untracked"]
          /\ UNCHANGED <<memory, first, size>>
       \/ /\ channel # "null"
          /\ \E s \in InSet : /\ s = "Refused" => Refusals
                              /\ op' = [op EXCEPT ![o] = s]
          /\ Insert(o)
    /\ UNCHANGED <<channel, loop, outer>>

\* Slip: only the destruction of the RPC takes it out of the set.
SlipNotRemoved(o) == UNCHANGED <<memory, first, size>>

\* The client's slot for finished().
RemoveFinished(o) == Remove(o)

\* finished() from the event loop, or on cancel(), which a slot may call; an
\* Untracked RPC has no one to remove it.
OpFinishes(o) ==
    /\ UserRuns /\ (loop.on => op[o] = "Tracked")
    /\ op[o] \in InSet \cup {"Untracked"}
    /\ op' = [op EXCEPT ![o] = "Finished"]
    /\ \/ op[o] \in InSet /\ RemoveFinished(o)
       \/ op[o] = "Untracked" /\ UNCHANGED <<memory, first, size>>
    /\ loop' = [loop EXCEPT !.alone = ~loop.on]
    /\ UNCHANGED <<channel, outer>>

\* The client's slot for destroyed().
RemoveDestroyed(o) == Remove(o)

\* Not by the slots of its own finished().
Destroy(o) ==
    /\ UserRuns /\ \A l \in Attaching : l.slot # o
    /\ op[o] \notin {"Unused", "Destroyed"}
    /\ op' = [op EXCEPT ![o] = "Destroyed"]
    /\ RemoveDestroyed(o)
    /\ loop' = [loop EXCEPT !.alone = ~loop.on]
    /\ UNCHANGED <<channel, outer>>

\* A refused RPC is tracked until its posted finished() is delivered, and nobody
\* hears its cancel(): the loop is only right as long as there is none.
NoneRefused == \A o \in Ops : op[o] # "Refused"

\* attachChannel() refuses the channel it has, and one of another thread.  It
\* does not ask whether it is being called already.
AttachChannel(ch) ==
    /\ UserRuns
    /\ ch # channel
    /\ outer' = IF loop.on THEN <<[loop EXCEPT !.alone = FALSE]>> \o outer ELSE outer
    /\ loop' = [on |-> TRUE, it |-> first, end |-> first + size,
                slot |-> Free, hears |-> NoneRefused, alone |-> TRUE, to |-> ch]
    /\ UNCHANGED <<channel, op, memory, first, size>>

\* stream->cancel() on whatever the iterator points to.
CancelNext ==
    /\ loop.on /\ loop.it < loop.end
    /\ LET o == memory[loop.it] IN
         \/ /\ op[o] = "Tracked"
            /\ op' = [op EXCEPT ![o] = "Finished"]
            /\ RemoveFinished(o)
            /\ loop' = [loop EXCEPT !.it = @ + 1, !.slot = o]
         \/ /\ op[o] # "Tracked"
            /\ loop' = [loop EXCEPT !.it = @ + 1, !.slot = Free]
            /\ UNCHANGED <<op, memory, first, size>>
    /\ UNCHANGED <<channel, outer>>

ChannelChanged ==
    /\ loop.on /\ loop.it = loop.end
    /\ channel' = loop.to
    /\ \/ outer = <<>> /\ loop' = NoLoop /\ UNCHANGED outer
       \/ outer # <<>> /\ loop' = Head(outer) /\ outer' = Tail(outer)
    /\ UNCHANGED <<op, memory, first, size>>

Next ==
    \/ \E o \in Ops : Start(o) \/ OpFinishes(o) \/ Destroy(o)
    \/ \E ch \in Channels : AttachChannel(ch)
    \/ CancelNext
    \/ ChannelChanged

Spec == Init /\ [][Next]_vars

-----------------------------------------------------------------------------
(* Properties.                                                             *)

\* The flat set stays sorted and free of duplicates, or contains() and
\* remove(), which search it by bisection, would miss an RPC.
SortedSet == \A c, d \in activeStreams : c < d => memory[c] < memory[d]

\* activeStreams is exactly the RPCs the channel was given and that neither
\* finished nor were destroyed, attachChannel() running or not: the assertion
\* of the slot for finished() holds.
TrackedExactly ==
    /\ {memory[c] : c \in activeStreams} = {o \in Ops : op[o] \in InSet}
    /\ SortedSet

\* A loop of attachChannel() over RPCs that hear cancel() passes over none,
\* whatever its slots cancel, destroy or attach: when it is through,
\* Q_ASSERT(d->activeStreams.isEmpty()) holds.  A loop that is alone reads no RPC
\* that has ended, a destroyed one maybe: what it has left is what the set has left.
LeftToRead(l) == {memory[c] : c \in l.it..(l.end - 1)}

LoopReadsAll ==
    \A l \in Attaching : l.hears =>
        /\ {memory[c] : c \in activeStreams} \subseteq LeftToRead(l)
        /\ l.alone => LeftToRead(l) \subseteq {memory[c] : c \in activeStreams}
=============================================================================
