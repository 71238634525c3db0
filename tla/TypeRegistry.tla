---------------------------- MODULE TypeRegistry ----------------------------
(***************************************************************************)
(* The registries of types.  Static objects of generated code push a       *)
(* function for each type when their library is loaded, in any thread;     *)
(* qRegisterProtobufTypes() takes the functions that have been collected   *)
(* and runs them.  It is called by a static object of each library and by  *)
(* QProtobufMessage::constructByName().                                    *)
(***************************************************************************)
EXTENDS MessageObjects, Sequences, SequencesExt

CONSTANTS Threads,
          Registrars,    \* library -> the types it registers: messages and enums,
                         \* each in the order of their file
          FullName       \* type -> its name; Gadget for the enums outside of messages

VARIABLES registerFunctions,   \* the functions waiting to be run, by their types
          registerMutex,
          registered,          \* qRegisterBaseTypes(): its static variable
          converters,          \* the types with their views and converters
          orderings,           \* name -> type
          pushed,              \* history: all types that were ever pushed
          thread

registryVars == <<registerFunctions, registerMutex, registered, converters, orderings, pushed, thread>>

NoThread == "none"
Gadget == "gadget"
Unknown == "unknown"
Libraries == DOMAIN Registrars
Names == {FullName[type] : type \in DOMAIN FullName} \ {Gadget}
Types == DOMAIN FullName
isMessage(type) == FullName[type] # Gadget

ASSUME RegistryAssumption ==
    /\ \A l \in Libraries :
          /\ Registrars[l].messages \in Seq({type \in Types : isMessage(type)})
          /\ Registrars[l].enums \in Seq({type \in Types : ~isMessage(type)})
    /\ Unknown \notin Types \cup Names \cup Libraries
    /\ NoThread \notin Threads /\ "done" \notin Threads

IdleThread == [pc |-> "idle", library |-> Unknown, name |-> Unknown, todo |-> <<>>, late |-> <<>>,
               list |-> <<>>, known |-> {}, result |-> Unknown]

RegistryInit ==
    /\ registerFunctions = <<>> /\ registerMutex = NoThread /\ registered = NoThread
    /\ converters = {} /\ orderings = <<>> /\ pushed = {}

At(t, pc) == thread[t].pc = pc
Step(t, h) == thread' = [thread EXCEPT ![t] = h]
-----------------------------------------------------------------------------
(* The loader runs the static objects of one library at a time.  Those of  *)
(* messages precede the call in their file, those of enums are in another  *)
(* file, which may come first or last.                                     *)
Load(t, l, enumsFirst) ==
    LET messages == Registrars[l].messages
        enums == Registrars[l].enums
    IN  /\ At(t, "idle") /\ ToSet(enums \o messages) \cap pushed = {}
        /\ \A u \in DOMAIN thread : thread[u].library = Unknown
        /\ Step(t, [thread[t] EXCEPT
                      !.pc = "registrars", !.library = l,
                      !.todo = IF enumsFirst THEN enums \o messages ELSE messages,
                      !.late = IF enumsFirst THEN <<>> ELSE enums])
        /\ UNCHANGED <<registerFunctions, registerMutex, registered, converters, orderings, pushed>>

(* The constructor pushes under the lock. *)
ProtoTypeRegistrar(t) ==
    LET type == Head(thread[t].todo)
    IN  /\ thread[t].pc \in {"registrars", "late"} /\ thread[t].todo # <<>>
        /\ registerMutex = NoThread
        /\ registerFunctions' = Append(registerFunctions, type)
        /\ pushed' = pushed \cup {type}
        /\ Step(t, [thread[t] EXCEPT !.todo = Tail(@)])
        /\ UNCHANGED <<registerMutex, registered, converters, orderings>>

RegistrarsDone(t) ==
    /\ thread[t].todo = <<>>
    /\ \/ At(t, "registrars") /\ Step(t, [thread[t] EXCEPT !.pc = "base", !.known = pushed])
       \/ At(t, "late") /\ Step(t, IdleThread)
    /\ UNCHANGED <<registerFunctions, registerMutex, registered, converters, orderings, pushed>>

constructByName(t, n) ==
    /\ At(t, "idle")
    /\ Step(t, [thread[t] EXCEPT !.pc = "base", !.name = n, !.known = pushed])
    /\ UNCHANGED <<registerFunctions, registerMutex, registered, converters, orderings, pushed>>

(* The initialization of a static variable: the others wait for the first. *)
qRegisterBaseTypes(t) ==
    /\ At(t, "base")
    /\ \/ registered = NoThread /\ registered' = t /\ UNCHANGED thread
       \/ /\ registered \in {t, "done"} /\ registered' = "done"
          /\ Step(t, [thread[t] EXCEPT !.pc = "lock"])
    /\ UNCHANGED <<registerFunctions, registerMutex, converters, orderings, pushed>>

(* qRegisterProtobufTypes(): the list is run under the lock it was taken   *)
(* under.                                                                  *)
SlipTakeList(t) ==
    /\ At(t, "lock") /\ registerMutex = NoThread
    /\ registerFunctions' = <<>>
    /\ Step(t, [thread[t] EXCEPT !.pc = "run", !.list = registerFunctions])
    /\ UNCHANGED <<registerMutex, registered, converters, orderings, pushed>>
TakeList(t) ==
    /\ At(t, "lock") /\ registerMutex = NoThread
    /\ registerMutex' = t
    /\ registerFunctions' = <<>>
    /\ Step(t, [thread[t] EXCEPT !.pc = "run", !.list = registerFunctions])
    /\ UNCHANGED <<registered, converters, orderings, pushed>>

(* qRegisterProtobufType(): first what the type needs, then its ordering.  *)
registerTypes(t) ==
    LET type == Head(thread[t].list)
    IN  /\ At(t, "run") /\ thread[t].list # <<>>
        /\ converters' = converters \cup {type}
        /\ Step(t, IF isMessage(type) THEN [thread[t] EXCEPT !.pc = "ordering"]
                   ELSE [thread[t] EXCEPT !.list = Tail(@)])
        /\ UNCHANGED <<registerFunctions, registerMutex, registered, orderings, pushed>>

registerOrdering(t) ==
    LET type == Head(thread[t].list)
    IN  /\ At(t, "ordering")
        /\ orderings' = [n \in DOMAIN orderings \cup {FullName[type]} |->
                            IF n = FullName[type] THEN type ELSE orderings[n]]
        /\ Step(t, [thread[t] EXCEPT !.pc = "run", !.list = Tail(@)])
        /\ UNCHANGED <<registerFunctions, registerMutex, registered, converters, pushed>>

TypesRegistered(t) ==
    /\ At(t, "run") /\ thread[t].list = <<>>
    /\ registerMutex' = NoThread
    /\ Step(t, [thread[t] EXCEPT !.pc = "returned"])
    /\ UNCHANGED <<registerFunctions, registered, converters, orderings, pushed>>

findMessageByName(t) ==
    LET n == thread[t].name
    IN  /\ At(t, "returned") /\ n # Unknown
        /\ Step(t, [thread[t] EXCEPT
                      !.pc = "found",
                      !.result = IF n \in DOMAIN orderings THEN orderings[n] ELSE Unknown])
        /\ UNCHANGED <<registerFunctions, registerMutex, registered, converters, orderings, pushed>>

Return(t) ==
    /\ \/ At(t, "returned") /\ thread[t].library # Unknown
          /\ Step(t, [thread[t] EXCEPT !.pc = "late", !.todo = thread[t].late])
       \/ At(t, "found") /\ Step(t, IdleThread)
    /\ UNCHANGED <<registerFunctions, registerMutex, registered, converters, orderings, pushed>>

RegistryNext ==
    \E t \in DOMAIN thread :
        \/ \E l \in Libraries, enumsFirst \in BOOLEAN : Load(t, l, enumsFirst)
        \/ \E n \in Names : constructByName(t, n)
        \/ ProtoTypeRegistrar(t) \/ RegistrarsDone(t) \/ qRegisterBaseTypes(t) \/ TakeList(t)
        \/ registerTypes(t) \/ registerOrdering(t) \/ TypesRegistered(t)
        \/ findMessageByName(t) \/ Return(t)

(* Either objects of a known type or the threads that make types known.    *)
MessagesInit ==
    /\ Init /\ RegistryInit
    /\ \/ thread = <<>>
       \/ thread = [t \in Threads |-> IdleThread] /\ shape = CHOOSE s \in Shapes : TRUE
MessagesNext ==
    \/ thread = <<>> /\ Next /\ UNCHANGED registryVars
    \/ RegistryNext /\ UNCHANGED vars
-----------------------------------------------------------------------------
(* When qRegisterProtobufTypes() returns, the types that were announced    *)
(* before it was called are registered completely, although it may be      *)
(* another thread that took their functions; constructByName() finds every *)
(* name among them, and what it constructs can be serialized.              *)
TypesKnown ==
    \A t \in DOMAIN thread :
        LET h == thread[t]
        IN  h.pc \in {"returned", "found"} =>
               /\ registered = "done"
               /\ \A type \in h.known :
                     type \in converters /\ (isMessage(type) => FullName[type] \in DOMAIN orderings)
               /\ h.pc = "found" =>
                     IF h.result = Unknown THEN \A type \in h.known : FullName[type] # h.name
                     ELSE FullName[h.result] = h.name /\ h.result \in converters
=============================================================================
