--------------------------- MODULE InterceptedRpc ---------------------------
(***************************************************************************)
(* Interceptors: the chain the application builds, the engine of the       *)
(* channel that takes it over, and the calls that an RPC makes into it at  *)
(* each of its stages.  The channel itself is reduced to what it may do to *)
(* an RPC: accept it, refuse it, deliver to it, finish it, go away.        *)
(***************************************************************************)
EXTENDS Naturals, Sequences, FiniteSets, SequencesExt

CONSTANTS
    Interceptors,   \* the interceptor objects
    Capabilities,   \* the capabilities of each of them
    Owning,         \* those handed over as a unique_ptr; the rest are raw
    Rewriting,      \* those whose onFinished() replaces the status
    Ops,            \* the RPCs
    Threads,        \* the threads RPCs are started from
    MaxChain        \* bound on the length of a chain

Outbound == {"Start", "WriteMessage", "WritesDone", "Cancel"}
Inbound  == {"InitialMetadata", "MessageReceived", "TrailingMetadata", "Finished"}
Codes    == {"Ok", "Aborted", "Cancelled", "Unavailable", "Internal"}
\* A status that an interceptor puts in place of a code is named after it.
Statuses == Codes \cup Rewriting

\* The thread that the channel lives in.
Main == "main"

ASSUME InterceptorAssumption ==
    /\ Capabilities \in [Interceptors -> (SUBSET (Outbound \cup Inbound)) \ {{}}]
    /\ Owning \subseteq Interceptors /\ Rewriting \subseteq Interceptors
    /\ Interceptors \cap (Codes \cup {"none", "null"}) = {}
    /\ MaxChain \in Nat /\ Main \in Threads

VARIABLES
    held,      \* the unique_ptrs that are still the application's
    alive,     \* the interceptors that are not deleted
    chain,     \* the chain the application fills
    channel,   \* "none", "live" or "gone"
    engine,    \* the engine of the channel: its chain, its handler lists
    rpc        \* each RPC, and what was called on its behalf

vars == <<held, alive, chain, channel, engine, rpc>>

NewChain == [interceptors |-> <<>>, combined |-> {}]

NewRpc == [state |-> "Unused", linked |-> FALSE, running |-> FALSE,
           tracked |-> FALSE, posted |-> "none", thread |-> Main, log |-> <<>>]

NoHandlers == [c \in Outbound \cup Inbound |-> <<>>]

Init ==
    /\ held = Owning
    /\ alive = Interceptors
    /\ chain = NewChain
    /\ channel = "none"
    /\ engine = [chain |-> NewChain, handlers |-> NoHandlers]
    /\ rpc = [o \in Ops |-> NewRpc]

-----------------------------------------------------------------------------
(* Building the chain.                                                     *)

OwnedBy(ch) == ToSet(ch.interceptors) \cap Owning

Unbound == (alive \ Owning) \cup held

\* add(): one more entry.  A null pointer is refused.
AddTo(ch, i) == [interceptors |-> Append(ch.interceptors, i),
                 combined |-> ch.combined \cup Capabilities[i]]

Add(i) ==
    /\ channel = "none" /\ i \in Unbound /\ Len(chain.interceptors) < MaxChain
    /\ chain' = AddTo(chain, i)
    /\ held' = held \ {i}
    /\ UNCHANGED <<alive, channel, engine, rpc>>

\* The chain after each add() of a set().
Built(s) ==
    LET built[n \in 0..Len(s)] == IF n = 0 THEN NewChain ELSE AddTo(built[n - 1], s[n])
    IN  built

\* set(): all the pointers or, with a null among them, none.  The chain that is
\* replaced deletes what it owns.
Set(s) ==
    /\ channel = "none"
    /\ \/ /\ "null" \in ToSet(s)
          /\ UNCHANGED <<chain, held, alive>>
       \/ /\ "null" \notin ToSet(s)
          /\ chain' = Built(s)[Len(s)]
          /\ held' = held \ ToSet(s)
          /\ alive' = alive \ OwnedBy(chain)
    /\ UNCHANGED <<channel, engine, rpc>>

\* What set() can be called with: unique_ptrs or raw pointers, never both.
SetArguments ==
    {s \in SeqOf(Unbound \cup {"null"}, MaxChain) :
        /\ s # <<>>
        /\ \/ ToSet(s) \subseteq held \cup {"null"} /\ IsInjective(s)
           \/ ToSet(s) \cap Owning = {}}

Clear ==
    /\ channel = "none"
    /\ chain' = NewChain
    /\ alive' = alive \ OwnedBy(chain)
    /\ UNCHANGED <<held, channel, engine, rpc>>

AddInterceptor(handlers, i) ==
    [c \in DOMAIN handlers |-> IF c \in Capabilities[i] THEN Append(handlers[c], i)
                                                        ELSE handlers[c]]

\* The handler lists after each interceptor of a chain.
Registered(s) ==
    LET lists[n \in 0..Len(s)] ==
            IF n = 0 THEN NoHandlers ELSE AddInterceptor(lists[n - 1], s[n])
    IN  lists

\* The constructor of the channel takes the chain over: setInterceptorChain().
CreateChannel ==
    /\ channel = "none"
    /\ channel' = "live"
    /\ engine' = [chain |-> chain,
                  handlers |-> Registered(chain.interceptors)[Len(chain.interceptors)]]
    /\ chain' = NewChain
    /\ UNCHANGED <<held, alive, rpc>>

\* A raw interceptor may be deleted when no chain refers to it any more.
DeleteRaw(i) ==
    /\ i \in alive \ Owning
    /\ i \notin ToSet(chain.interceptors)
    /\ channel = "live" => i \notin ToSet(engine.chain.interceptors)
    /\ alive' = alive \ {i}
    /\ UNCHANGED <<held, chain, channel, engine, rpc>>

-----------------------------------------------------------------------------
(* Calling into the chain.                                                 *)

HasHandlerFor(c) == c \in engine.chain.combined

\* Slip: inbound and outbound are confused.
SlipFlow(c) == IF c \in Inbound THEN engine.handlers[c] ELSE Reverse(engine.handlers[c])

Flow(c) == IF c \in Outbound THEN engine.handlers[c] ELSE Reverse(engine.handlers[c])

Event(r, c, who) == [what |-> c, who |-> who, thread |-> r.thread, status |-> "none"]

\* The engine is reached through a weak_ptr to the channel.
Lock(r) == r.linked /\ channel = "live"

Invoke(r, c) ==
    IF Lock(r) /\ HasHandlerFor(c)
    THEN [r EXCEPT !.log = Append(@, Event(r, c, Flow(c)))] ELSE r

\* Each onFinished() gets the status that the one before it left.
Intercepted(who, status) ==
    LET left[n \in 0..Len(who)] ==
            IF n = 0 THEN status ELSE IF who[n] \in Rewriting THEN who[n] ELSE left[n - 1]
    IN  left

\* The slot of the operation for finished() of its context, and the slot of the
\* client for finished() of the operation.
Finished(r, status) ==
    LET seen == Invoke([r EXCEPT !.state = "Finished"], "Finished")
        last == IF Lock(r) /\ HasHandlerFor("Finished")
                THEN Intercepted(Flow("Finished"), status)[Len(Flow("Finished"))] ELSE status
    IN  IF r.state = "Finished" THEN r
        ELSE [seen EXCEPT !.tracked = FALSE,
                          !.log = Append(@, [what |-> "finished", who |-> <<>>,
                                             thread |-> r.thread, status |-> last])]

\* The handler of the channel ends the RPC.
End(r, status) == Finished([r EXCEPT !.running = FALSE], status)

CancelRequested(r) == IF r.running THEN End(r, "Cancelled") ELSE r

Becomes(o, r) ==
    /\ rpc' = [rpc EXCEPT ![o] = r]
    /\ UNCHANGED <<held, alive, chain, channel, engine>>

-----------------------------------------------------------------------------
(* The life of an RPC.                                                     *)

\* asyncFinishInvalid()
Invalid(r, status) == [r EXCEPT !.state = "Invalid", !.posted = status]

NotStartable(o, thread) ==
    /\ rpc[o].state = "Unused"
    /\ \/ /\ channel = "none"
          /\ Becomes(o, Invalid([rpc[o] EXCEPT !.thread = thread], "Aborted"))
       \/ /\ channel = "live"    \* no serializer, or the wrong thread
          /\ Becomes(o, Invalid([rpc[o] EXCEPT !.thread = thread, !.linked = TRUE],
                                "Aborted"))

Valid(o) == [rpc[o] EXCEPT !.state = "Valid", !.linked = TRUE]

\* onStart() is called up to the first interceptor that drops the RPC.
StartSeenBy(r, n) ==
    IF n = 0 THEN r
    ELSE [r EXCEPT !.log = Append(@, Event(r, "Start", SubSeq(Flow("Start"), 1, n)))]

MayStart(o) == channel = "live" /\ rpc[o].state = "Unused"

\* Slip: nothing is posted.
SlipDroppedSilently(o) ==
    /\ MayStart(o)
    /\ \E n \in 1..Len(Flow("Start")) : Becomes(o, StartSeenBy(Valid(o), n))

\* The state stays Valid, and the client does not track the RPC.
Dropped(o) ==
    /\ MayStart(o)
    /\ \E n \in 1..Len(Flow("Start")) :
         Becomes(o, [StartSeenBy(Valid(o), n) EXCEPT !.posted = "Aborted"])

NotSerialized(o) ==
    /\ MayStart(o)
    /\ Becomes(o, Invalid(StartSeenBy(Valid(o), Len(Flow("Start"))), "Internal"))

\* serializeInitialMessage(), the call of the channel, addStream().
Started(o) ==
    /\ MayStart(o)
    /\ \E accepted \in BOOLEAN :
         Becomes(o, [StartSeenBy(Valid(o), Len(Flow("Start"))) EXCEPT
                        !.running = accepted, !.tracked = TRUE,
                        !.posted = IF accepted THEN "none" ELSE "Unavailable"])

\* A posted finished() is delivered, unless the RPC is destroyed.
Dispatch(o) ==
    /\ rpc[o].posted # "none"
    /\ Becomes(o, Finished([rpc[o] EXCEPT !.posted = "none"], rpc[o].posted))

Heard(o, what) == \E k \in DOMAIN rpc[o].log : rpc[o].log[k].what = what

Exists(o) == rpc[o].state \in {"Valid", "Invalid", "Finished"}

\* Slip: the failure is reported by the channel, as a cancelled RPC.
SlipWriteFails(o) ==
    /\ Exists(o) /\ Lock(rpc[o]) /\ ~Heard(o, "WriteMessage")
    /\ LET r == Invoke(rpc[o], "WriteMessage")
       IN  Becomes(o, Finished(CancelRequested(r), "Internal"))

\* The message cannot be serialized: first the status, then the cancellation.
WriteFails(o) ==
    /\ Exists(o) /\ Lock(rpc[o]) /\ ~Heard(o, "WriteMessage")
    /\ LET r == Invoke(rpc[o], "WriteMessage")
       IN  Becomes(o, CancelRequested(Finished(r, "Internal")))

\* Nothing but the channel is asked for; each RPC writes once.
WriteMessage(o) ==
    /\ Exists(o) /\ Lock(rpc[o]) /\ ~Heard(o, "WriteMessage")
    /\ Becomes(o, Invoke(rpc[o], "WriteMessage"))

WritesDone(o) ==
    /\ Exists(o) /\ Lock(rpc[o]) /\ ~Heard(o, "WritesDone")
    /\ Becomes(o, Invoke(rpc[o], "WritesDone"))

\* Nobody hears the request when the channel does not run the RPC.
Cancel(o) ==
    /\ Exists(o) /\ rpc[o].state # "Finished"
    /\ Lock(rpc[o]) /\ ~Heard(o, "Cancel")
    /\ Becomes(o, CancelRequested(Invoke(rpc[o], "Cancel")))

\* What the channel delivers: metadata and a message, each bounded to one.
Deliver(o) ==
    /\ rpc[o].running
    /\ \E c \in {"InitialMetadata", "MessageReceived", "TrailingMetadata"} :
         /\ ~Heard(o, c)
         /\ Becomes(o, Invoke(rpc[o], c))

ChannelFinishes(o) ==
    /\ rpc[o].running
    /\ \E status \in {"Ok", "Unavailable"} : Becomes(o, End(rpc[o], status))

Destroy(o) ==
    /\ Exists(o)
    /\ Becomes(o, [rpc[o] EXCEPT !.state = "Destroyed", !.posted = "none",
                                 !.running = FALSE, !.tracked = FALSE])

\* The last reference to the channel goes, the client's included.  Its RPCs are
\* finished when the weak_ptr has expired already.
DestroyChannel ==
    /\ channel = "live"
    /\ channel' = "gone"
    /\ alive' = alive \ OwnedBy(engine.chain)
    /\ rpc' = [o \in Ops |->
                 IF rpc[o].running
                 THEN [rpc[o] EXCEPT !.running = FALSE, !.tracked = FALSE,
                         !.state = "Finished",
                         !.log = Append(@, [what |-> "finished", who |-> <<>>,
                                            thread |-> Main, status |-> "Unavailable"])]
                 ELSE [rpc[o] EXCEPT !.tracked = FALSE]]
    /\ UNCHANGED <<held, chain, engine>>

Next ==
    \/ \E i \in Interceptors : Add(i) \/ DeleteRaw(i)
    \/ \E s \in SetArguments : Set(s)
    \/ Clear \/ CreateChannel \/ DestroyChannel
    \/ \E o \in Ops :
         \/ \E t \in Threads : NotStartable(o, t)
         \/ Dropped(o) \/ NotSerialized(o) \/ Started(o) \/ Dispatch(o)
         \/ WriteMessage(o) \/ WriteFails(o) \/ WritesDone(o) \/ Cancel(o)
         \/ Deliver(o) \/ ChannelFinishes(o) \/ Destroy(o)

\* Fairness: the event loop of each thread keeps running.
Spec == Init /\ [][Next]_vars /\ \A o \in Ops : WF_vars(Dispatch(o))
-----------------------------------------------------------------------------
(* Properties.                                                             *)

Times(i, s) == Cardinality({k \in DOMAIN s : s[k] = i})

\* What each prefix of s has of T, in the order of s, and what s has of it.
Selected(s, T) ==
    LET selected[n \in 0..Len(s)] ==
            IF n = 0 THEN <<>>
            ELSE IF s[n] \in T THEN Append(selected[n - 1], s[n]) ELSE selected[n - 1]
    IN  selected

Among(s, T) == Selected(s, T)[Len(s)]

TypeOK ==
    /\ held \subseteq Owning /\ alive \subseteq Interceptors
    /\ channel \in {"none", "live", "gone"}
    /\ chain.interceptors \in SeqOf(Interceptors, MaxChain)
    /\ engine.chain.interceptors \in SeqOf(Interceptors, MaxChain)
    /\ chain.combined \cup engine.chain.combined \subseteq Outbound \cup Inbound
    /\ \A o \in Ops :
         /\ rpc[o].state \in {"Unused", "Invalid", "Valid", "Finished", "Destroyed"}
         /\ rpc[o].posted \in Statuses \cup {"none"}
         /\ rpc[o].running \in BOOLEAN /\ rpc[o].tracked \in BOOLEAN
         /\ rpc[o].linked \in BOOLEAN /\ rpc[o].thread \in Threads

\* An owned interceptor has one owner as long as it lives (no leak, no double
\* delete), and the engine of a live channel refers to no deleted one.
OneOwner ==
    /\ \A i \in Owning :
         (IF i \in held THEN 1 ELSE 0) + Times(i, chain.interceptors)
             + (IF channel = "live" THEN Times(i, engine.chain.interceptors) ELSE 0)
           = IF i \in alive THEN 1 ELSE 0
    /\ ToSet(chain.interceptors) \subseteq alive
    /\ channel = "live" => ToSet(engine.chain.interceptors) \subseteq alive

\* hasHandlerFor(), which every call is guarded by, is true exactly when an
\* interceptor of the chain has the capability.
CombinedExact ==
    \A ch \in {chain, engine.chain} :
        ch.combined = UNION {Capabilities[i] : i \in ToSet(ch.interceptors)}

\* What the chain says of its interceptors is true: who owns them, whether they
\* live, and what they can do.
ChainExact == OneOwner /\ CombinedExact

\* The interceptors of the chain that have a capability, in chain order.
Able(c) == {i \in Interceptors : c \in Capabilities[i]}
Having(c) == Among(engine.chain.interceptors, Able(c))

\* Every call reaches all the interceptors it concerns: in the order of the
\* chain towards the network, in the reverse order towards the application.
\* Only onStart() may stop short.  Hence the user gets the status that the
\* interceptor nearest to the application left.  The chain is what it was built
\* to be: every interceptor has one owner and the capabilities are its own.
CalledInOrder ==
    /\ ChainExact
    /\ \A o \in Ops : \A k \in DOMAIN rpc[o].log :
        LET e    == rpc[o].log[k]
            last == Among(Having("Finished"), Rewriting)
        IN  /\ e.what \in Inbound => e.who = Reverse(Having(e.what))
            /\ e.what \in Outbound \ {"Start"} => e.who = Having(e.what)
            /\ e.what = "Start" => k = 1 /\ e.who # <<>> /\ IsPrefix(e.who, Having("Start"))
            /\ e.what = "Finished" /\ last # <<>> => rpc[o].log[k + 1].status = Head(last)

\* finished() is emitted once, right after the interceptors have seen the end;
\* after it, nothing comes in, and no cancellation is announced.
EndsOnce ==
    \A o \in Ops : \A k \in DOMAIN rpc[o].log :
        LET e == rpc[o].log[k]
        IN  /\ e.what = "Finished" => /\ k < Len(rpc[o].log)
                                      /\ rpc[o].log[k + 1].what = "finished"
            /\ e.what = "finished" =>
                 \A n \in (k + 1)..Len(rpc[o].log) :
                     rpc[o].log[n].what \in {"WriteMessage", "WritesDone"}

\* As long as the channel lives, the end of an RPC that was bound to it is seen
\* by every Finished interceptor, however the RPC ended: also when it was
\* dropped, refused, or never valid.
EndIsSeen ==
    \A o \in Ops : \A k \in DOMAIN rpc[o].log :
        (/\ rpc[o].log[k].what = "finished" /\ channel = "live"
         /\ rpc[o].linked /\ Having("Finished") # <<>>)
            => k > 1 /\ rpc[o].log[k - 1].what = "Finished"

\* Cancelled is the status of a cancellation the interceptors were told of, and
\* never that of a message that could not be serialized.
CancelledIsAnnounced ==
    \A o \in Ops : \A k \in DOMAIN rpc[o].log :
        (rpc[o].log[k].status = "Cancelled" /\ Having("Cancel") # <<>>)
            => \E n \in (k - 2)..(k - 1) : n > 0 /\ rpc[o].log[n].what = "Cancel"

\* The client tracks the RPCs that run or whose refusal is on its way; no other
\* one is left in activeStreams, and one that was dropped never gets there.
TrackedUntilEnd ==
    \A o \in Ops :
        LET r == rpc[o]
        IN  /\ (r.tracked /\ channel = "live") =>
                   r.state = "Valid" /\ (r.running \/ r.posted = "Unavailable")
            /\ (r.log # <<>> /\ Head(r.log).what = "Start" /\ r.posted = "Aborted") =>
                   ~r.running /\ ~r.tracked

\* The end of an RPC, whichever way leads to it: the interceptors see it once,
\* then the user, and the client forgets the RPC.
EndSeenOnce == EndsOnce /\ EndIsSeen /\ CancelledIsAnnounced /\ TrackedUntilEnd

\* An RPC that the channel does not run comes to an end.
NoneStranded ==
    \A o \in Ops :
        (rpc[o].state \in {"Valid", "Invalid"} /\ ~rpc[o].running)
            ~> (rpc[o].state \in {"Finished", "Destroyed"})
=============================================================================
