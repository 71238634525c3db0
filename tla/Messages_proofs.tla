-------------------------- MODULE Messages_proofs --------------------------
(***************************************************************************)
(* Message objects and the registration of their types.                    *)
(*                                                                         *)
(* Registration, for any number of threads, of libraries and of types: a   *)
(* thread that returns from qRegisterProtobufTypes() finds the types that  *)
(* were announced before its call registered, whichever thread took their  *)
(* functions.                                                              *)
(*                                                                         *)
(* Objects, for any number of them: although the payloads are shared, each *)
(* has what was last written through it.  The operations on the heap are   *)
(* made of few steps (a payload is written, a nested message is stored, a  *)
(* payload is detached), and for each step it is shown who can see it.     *)
(***************************************************************************)
EXTENDS QtTypes, FiniteSetTheorems, SequenceTheorems, WellFoundedInduction, TLAPS

Pcs == {"idle", "registrars", "base", "lock", "run", "ordering", "returned", "found", "late"}

ThreadStates ==
    [pc : Pcs, library : Libraries \cup {Unknown}, name : Names \cup {Unknown},
     todo : Seq(Types), late : Seq(Types), list : Seq(Types), known : SUBSET Types,
     result : Types \cup {Unknown}]

RegistryType ==
    /\ registerFunctions \in Seq(Types)
    /\ registered \in Threads \cup {NoThread, "done"}
    /\ registerMutex \in Threads \cup {NoThread}
    /\ converters \subseteq Types /\ pushed \subseteq Types
    /\ DOMAIN thread \subseteq Threads
    /\ thread \in [DOMAIN thread -> ThreadStates]

\* The types that can be converted, and found by their names.
Complete(type) == type \in converters /\ (isMessage(type) => FullName[type] \in DOMAIN orderings)

\* A name leads to a type of that name which can be converted.
NamesInv ==
    \A n \in DOMAIN orderings :
        orderings[n] \in Types /\ FullName[orderings[n]] = n /\ orderings[n] \in converters

\* The thread that runs a list holds the lock, and it alone.
Holding(h) == h.pc \in {"run", "ordering"}
LockInv ==
    /\ \A t \in DOMAIN thread : Holding(thread[t]) <=> registerMutex = t
    /\ registerMutex # NoThread => registerMutex \in DOMAIN thread

\* Nothing that was pushed is lost: it waits in the list of functions, in the
\* list that the holder of the lock still has to run, or it is complete.
Pending(type) ==
    \/ type \in ToSet(registerFunctions)
    \/ \E t \in DOMAIN thread : Holding(thread[t]) /\ type \in ToSet(thread[t].list)
NoneLost == \A type \in pushed : Pending(type) \/ Complete(type)

\* What a thread has behind it, by its pc.
ThreadInv(h) ==
    /\ h.known \subseteq pushed
    /\ h.pc \in {"lock", "run", "ordering", "returned", "found"} => registered = "done"
    /\ Holding(h) => registerFunctions = <<>>
    /\ h.pc = "ordering" =>
          h.list # <<>> /\ isMessage(Head(h.list)) /\ Head(h.list) \in converters
    /\ h.pc \in {"returned", "found"} => \A type \in h.known : Complete(type)
    /\ h.pc = "found" =>
          IF h.result = Unknown THEN \A type \in h.known : FullName[type] # h.name
          ELSE FullName[h.result] = h.name /\ h.result \in converters

RegistryInv ==
    /\ RegistryType /\ NamesInv /\ LockInv /\ NoneLost
    /\ \A t \in DOMAIN thread : ThreadInv(thread[t])
-----------------------------------------------------------------------------
\* A thread without a task.
LEMMA IdleIsState == IdleThread \in ThreadStates /\ IdleThread.pc = "idle" /\ IdleThread.known = {}
BY DEF IdleThread, ThreadStates, Pcs

\* At first there is nothing to register.
LEMMA RegistryStarts == QtMessagesInit => RegistryInv
<1> SUFFICES ASSUME QtMessagesInit PROVE RegistryInv
  OBVIOUS
<1>1. /\ registerFunctions = <<>> /\ registerMutex = NoThread /\ registered = NoThread
      /\ converters = {} /\ orderings = <<>> /\ pushed = {}
  BY DEF QtMessagesInit, MessagesInit, RegistryInit
<1>2. thread = <<>> \/ thread = [t \in Threads |-> IdleThread]
  BY DEF QtMessagesInit, MessagesInit
<1>3. DOMAIN thread \subseteq Threads /\ \A t \in DOMAIN thread : thread[t] = IdleThread
  <2>1. CASE thread = <<>>
    BY <2>1
  <2>2. CASE thread = [t \in Threads |-> IdleThread]
    BY <2>2
  <2> QED BY <1>2, <2>1, <2>2
<1>4. IdleThread \in ThreadStates
  BY IdleIsState
<1>5. thread \in [DOMAIN thread -> ThreadStates]
  <2>1. CASE thread = <<>>
    BY <2>1
  <2>2. CASE thread = [t \in Threads |-> IdleThread]
    BY <1>4, <2>2
  <2> QED BY <1>2, <2>1, <2>2
<1>6. RegistryType
  BY <1>1, <1>3, <1>5 DEF RegistryType
<1>7. NamesInv /\ NoneLost
  BY <1>1 DEF NamesInv, NoneLost
<1>8. \A t \in DOMAIN thread : thread[t].pc = "idle" /\ thread[t].known = {}
  BY <1>3 DEF IdleThread
<1>9. LockInv
  BY <1>1, <1>3, <1>8, RegistryAssumption DEF LockInv, Holding
<1>10. \A t \in DOMAIN thread : ThreadInv(thread[t])
  BY <1>8 DEF ThreadInv, Holding
<1> QED BY <1>6, <1>7, <1>9, <1>10 DEF RegistryInv

\* A step of one thread leaves the others where they are.
LEMMA OneThread ==
    ASSUME RegistryType, NEW t \in DOMAIN thread, NEW q \in ThreadStates, Step(t, q)
    PROVE  /\ DOMAIN thread' = DOMAIN thread /\ thread' \in [DOMAIN thread' -> ThreadStates]
           /\ thread'[t] = q /\ \A u \in DOMAIN thread \ {t} : thread'[u] = thread[u]
BY DEF RegistryType, Step

\* What a thread has behind it stays behind it when types are added, and when
\* the base types become registered.
LEMMA ThreadKept ==
    ASSUME NEW h \in ThreadStates, ThreadInv(h), pushed \subseteq pushed', converters \subseteq converters',
           DOMAIN orderings \subseteq DOMAIN orderings', registered = "done" => registered' = "done",
           Holding(h) => registerFunctions' = <<>>
    PROVE  ThreadInv(h)'
<1>1. \A type : Complete(type) => Complete(type)'
  BY DEF Complete
<1> QED BY <1>1 DEF ThreadInv, Holding

\* A step of a thread that neither holds the lock before nor after it, and that
\* changes nothing but the state of the base types.
LEMMA Outside ==
    ASSUME RegistryInv, NEW t \in DOMAIN thread, NEW q \in ThreadStates, Step(t, q),
           ~Holding(thread[t]), ~Holding(q), ThreadInv(q)',
           UNCHANGED <<registerFunctions, registerMutex, converters, orderings, pushed>>,
           registered' \in Threads \cup {NoThread, "done"}, registered = "done" => registered' = "done"
    PROVE  RegistryInv'
<1>1. /\ DOMAIN thread' = DOMAIN thread /\ thread' \in [DOMAIN thread' -> ThreadStates]
      /\ thread'[t] = q /\ \A u \in DOMAIN thread \ {t} : thread'[u] = thread[u]
  BY OneThread DEF RegistryInv
<1>2. RegistryType'
  BY <1>1 DEF RegistryInv, RegistryType
<1>3. NamesInv'
  BY DEF RegistryInv, NamesInv
<1>4. LockInv'
  BY <1>1 DEF RegistryInv, LockInv, Holding
<1>5. NoneLost'
  <2>1. \A type : Complete(type) => Complete(type)'
    BY DEF Complete
  <2>2. \A type : Pending(type) => Pending(type)'
    <3>1. \A u \in DOMAIN thread : Holding(thread[u]) => u # t /\ thread'[u] = thread[u]
      BY <1>1
    <3> QED BY <1>1, <3>1 DEF Pending
  <2> QED BY <2>1, <2>2 DEF RegistryInv, NoneLost
<1>6. ASSUME NEW u \in DOMAIN thread' PROVE ThreadInv(thread[u])'
  <2>1. CASE u = t
    BY <1>1, <2>1 DEF ThreadInv, Holding, Complete
  <2>2. CASE u # t
    <3>1. PICK h : h = thread[u]
      OBVIOUS
    <3>2. h \in ThreadStates /\ ThreadInv(h) /\ thread'[u] = h
      BY <1>1, <2>2, <3>1 DEF RegistryInv, RegistryType
    <3>3. ThreadInv(h)'
      BY <3>2, ThreadKept DEF ThreadInv
    <3> QED BY <3>2, <3>3 DEF ThreadInv, Holding, Complete
  <2> QED BY <2>1, <2>2
<1> QED BY <1>2, <1>3, <1>4, <1>5, <1>6 DEF RegistryInv


\* A library is loaded: its registrars are to run.
LEMMA LoadKeeps ==
    ASSUME RegistryInv, NEW t \in DOMAIN thread, NEW l \in Libraries, NEW enumsFirst \in BOOLEAN,
           Load(t, l, enumsFirst)
    PROVE  RegistryInv'
<1>1. PICK h : h = thread[t]
  OBVIOUS
<1>2. h \in ThreadStates /\ ThreadInv(h) /\ h.pc = "idle"
  BY <1>1 DEF RegistryInv, RegistryType, Load, At
<1>3. Registrars[l].messages \in Seq(Types) /\ Registrars[l].enums \in Seq(Types)
  <2> DEFINE M == {type \in Types : isMessage(type)}
             E == {type \in Types : ~isMessage(type)}
  <2>1. M \subseteq Types /\ E \subseteq Types /\ Registrars[l].messages \in Seq(M)
        /\ Registrars[l].enums \in Seq(E)
    BY RegistryAssumption
  <2> HIDE DEF M, E
  <2> QED BY <2>1
<1>4. PICK todo \in Seq(Types), late \in Seq(Types) :
          Step(t, [h EXCEPT !.pc = "registrars", !.library = l, !.todo = todo, !.late = late])
  <2>1. PICK messages \in Seq(Types), enums \in Seq(Types) :
            messages = Registrars[l].messages /\ enums = Registrars[l].enums
    BY <1>3
  <2>2. enums \o messages \in Seq(Types) /\ <<>> \in Seq(Types)
    OBVIOUS
  <2>3. Step(t, [h EXCEPT !.pc = "registrars", !.library = l,
                          !.todo = IF enumsFirst THEN enums \o messages ELSE messages,
                          !.late = IF enumsFirst THEN <<>> ELSE enums])
    BY <1>1, <2>1 DEF Load
  <2>4. PICK todo, late : /\ todo = IF enumsFirst THEN enums \o messages ELSE messages
                          /\ late = IF enumsFirst THEN <<>> ELSE enums
    OBVIOUS
  <2>5. todo \in Seq(Types) /\ late \in Seq(Types)
    BY <2>1, <2>2, <2>4
  <2> QED BY <2>3, <2>4, <2>5
<1>5. PICK q : q = [h EXCEPT !.pc = "registrars", !.library = l, !.todo = todo, !.late = late]
  OBVIOUS
<1>6. q \in ThreadStates /\ q.pc = "registrars" /\ q.known = h.known
  BY <1>2, <1>5 DEF ThreadStates, Pcs
<1>7. UNCHANGED <<registerFunctions, registerMutex, registered, converters, orderings, pushed>>
  BY DEF Load
<1>8. ThreadInv(q)'
  BY <1>2, <1>6, <1>7 DEF ThreadInv, Holding
<1>9. ~Holding(thread[t]) /\ ~Holding(q) /\ Step(t, q)
  BY <1>1, <1>2, <1>4, <1>5, <1>6 DEF Holding
<1>10. registered' \in Threads \cup {NoThread, "done"}
  BY <1>7 DEF RegistryInv, RegistryType
<1> QED BY <1>6, <1>7, <1>8, <1>9, <1>10, Outside

\* qRegisterProtobufTypes() is called, by the static object of a library or by
\* constructByName(); or a library has been loaded.
LEMMA CallKeeps ==
    ASSUME RegistryInv, NEW t \in DOMAIN thread,
           RegistrarsDone(t) \/ \E n \in Names : constructByName(t, n)
    PROVE  RegistryInv'
<1>1. PICK h : h = thread[t]
  OBVIOUS
<1>2. h \in ThreadStates /\ ThreadInv(h) /\ h.pc \in {"idle", "registrars", "late"} /\ pushed \subseteq Types
  BY <1>1 DEF RegistryInv, RegistryType, RegistrarsDone, constructByName, At
<1>3. UNCHANGED <<registerFunctions, registerMutex, registered, converters, orderings, pushed>>
  BY DEF RegistrarsDone, constructByName
<1>4. PICK q \in ThreadStates : q.pc \in {"base", "idle"} /\ q.known \subseteq pushed /\ Step(t, q)
  <2>1. CASE RegistrarsDone(t)
    <3>1. CASE Step(t, [h EXCEPT !.pc = "base", !.known = pushed])
      <4>1. PICK q : q = [h EXCEPT !.pc = "base", !.known = pushed]
        OBVIOUS
      <4>2. q \in ThreadStates /\ q.pc = "base" /\ q.known = pushed
        BY <1>2, <4>1 DEF ThreadStates, Pcs
      <4> QED BY <3>1, <4>1, <4>2
    <3>2. CASE Step(t, IdleThread)
      BY <3>2, IdleIsState
    <3> QED BY <1>1, <2>1, <3>1, <3>2 DEF RegistrarsDone
  <2>2. CASE \E n \in Names : constructByName(t, n)
    <3>1. PICK n \in Names : Step(t, [h EXCEPT !.pc = "base", !.name = n, !.known = pushed])
      BY <1>1, <2>2 DEF constructByName
    <3>2. PICK q : q = [h EXCEPT !.pc = "base", !.name = n, !.known = pushed]
      OBVIOUS
    <3>3. q \in ThreadStates /\ q.pc = "base" /\ q.known = pushed
      BY <1>2, <3>2 DEF ThreadStates, Pcs
    <3> QED BY <3>1, <3>2, <3>3
  <2> QED BY <2>1, <2>2
<1>5. ThreadInv(q)'
  BY <1>3, <1>4 DEF ThreadInv, Holding
<1>6. ~Holding(thread[t]) /\ ~Holding(q)
  BY <1>1, <1>2, <1>4 DEF Holding
<1>7. registered' \in Threads \cup {NoThread, "done"}
  BY <1>3 DEF RegistryInv, RegistryType
<1> QED BY <1>3, <1>4, <1>5, <1>6, <1>7, Outside

\* The base types: one thread registers them, the others wait for it.
LEMMA BaseKeeps ==
    ASSUME RegistryInv, NEW t \in DOMAIN thread, qRegisterBaseTypes(t) PROVE RegistryInv'
<1>1. PICK h : h = thread[t]
  OBVIOUS
<1>2. h \in ThreadStates /\ ThreadInv(h) /\ h.pc = "base" /\ t \in Threads
  BY <1>1 DEF RegistryInv, RegistryType, qRegisterBaseTypes, At
<1>3. UNCHANGED <<registerFunctions, registerMutex, converters, orderings, pushed>>
  BY DEF qRegisterBaseTypes
<1>4. PICK q \in ThreadStates :
          /\ Step(t, q) /\ q.known = h.known
          /\ \/ q.pc = "base" /\ registered = NoThread /\ registered' = t
             \/ q.pc = "lock" /\ registered' = "done"
  <2>1. CASE registered = NoThread /\ registered' = t /\ UNCHANGED thread
    <3>1. Step(t, h)
      BY <1>1, <2>1 DEF Step, RegistryInv, RegistryType
    <3> QED BY <1>2, <2>1, <3>1
  <2>2. CASE registered' = "done" /\ Step(t, [h EXCEPT !.pc = "lock"])
    <3>1. PICK q : q = [h EXCEPT !.pc = "lock"]
      OBVIOUS
    <3>2. q \in ThreadStates /\ q.pc = "lock" /\ q.known = h.known
      BY <1>2, <3>1 DEF ThreadStates, Pcs
    <3> QED BY <2>2, <3>1, <3>2
  <2> QED BY <1>1, <2>1, <2>2 DEF qRegisterBaseTypes
<1>5. ThreadInv(q)'
  BY <1>2, <1>3, <1>4 DEF ThreadInv, Holding
<1>6. ~Holding(thread[t]) /\ ~Holding(q)
  BY <1>1, <1>2, <1>4 DEF Holding
<1>7. registered' \in Threads \cup {NoThread, "done"} /\ (registered = "done" => registered' = "done")
  BY <1>2, <1>4, RegistryAssumption DEF NoThread
<1> QED BY <1>3, <1>4, <1>5, <1>6, <1>7, Outside

\* constructByName() looks the name up.
LEMMA FindKeeps ==
    ASSUME RegistryInv, NEW t \in DOMAIN thread, findMessageByName(t) PROVE RegistryInv'
<1>1. PICK h : h = thread[t]
  OBVIOUS
<1>2. h \in ThreadStates /\ ThreadInv(h) /\ h.pc = "returned" /\ h.name \in Names /\ NamesInv
  BY <1>1 DEF RegistryInv, RegistryType, findMessageByName, At, ThreadStates
<1>3. UNCHANGED <<registerFunctions, registerMutex, registered, converters, orderings, pushed>>
  BY DEF findMessageByName
<1>4. PICK result : result = IF h.name \in DOMAIN orderings THEN orderings[h.name] ELSE Unknown
  OBVIOUS
<1>5. result \in Types \cup {Unknown}
  BY <1>2, <1>4 DEF NamesInv
<1>6. PICK q : q = [h EXCEPT !.pc = "found", !.result = result]
  OBVIOUS
<1>7. q \in ThreadStates /\ q.pc = "found" /\ q.result = result /\ q.known = h.known /\ q.name = h.name
  BY <1>2, <1>5, <1>6 DEF ThreadStates, Pcs
<1>8. Step(t, q)
  BY <1>1, <1>4, <1>6 DEF findMessageByName
<1>9. IF result = Unknown THEN \A type \in h.known : FullName[type] # h.name
      ELSE FullName[result] = h.name /\ result \in converters
  <2>1. CASE h.name \in DOMAIN orderings
    BY <1>2, <1>4, <2>1, RegistryAssumption DEF NamesInv
  <2>2. CASE h.name \notin DOMAIN orderings
    <3>1. h.name # Gadget /\ \A type \in h.known : Complete(type)
      BY <1>2 DEF ThreadInv, Names
    <3> QED BY <1>4, <2>2, <3>1 DEF Complete, isMessage
  <2> QED BY <2>1, <2>2
<1>10. ThreadInv(q)'
  BY <1>2, <1>3, <1>7, <1>9 DEF ThreadInv, Holding, Complete
<1>11. ~Holding(thread[t]) /\ ~Holding(q) /\ registered' \in Threads \cup {NoThread, "done"}
  BY <1>1, <1>2, <1>3, <1>7 DEF Holding, RegistryInv, RegistryType
<1> QED BY <1>3, <1>7, <1>8, <1>10, <1>11, Outside

\* The call returns to the loader or to the caller of constructByName().
LEMMA ReturnKeeps ==
    ASSUME RegistryInv, NEW t \in DOMAIN thread, Return(t) PROVE RegistryInv'
<1>1. PICK h : h = thread[t]
  OBVIOUS
<1>2. h \in ThreadStates /\ ThreadInv(h) /\ h.pc \in {"returned", "found"}
  BY <1>1 DEF RegistryInv, RegistryType, Return, At
<1>3. UNCHANGED <<registerFunctions, registerMutex, registered, converters, orderings, pushed>>
  BY DEF Return
<1>4. PICK q \in ThreadStates : q.pc \in {"late", "idle"} /\ q.known \subseteq pushed /\ Step(t, q)
  <2>1. CASE Step(t, [h EXCEPT !.pc = "late", !.todo = h.late])
    <3>1. PICK q : q = [h EXCEPT !.pc = "late", !.todo = h.late]
      OBVIOUS
    <3>2. q \in ThreadStates /\ q.pc = "late" /\ q.known = h.known
      BY <1>2, <3>1 DEF ThreadStates, Pcs
    <3> QED BY <1>2, <2>1, <3>1, <3>2 DEF ThreadInv
  <2>2. CASE Step(t, IdleThread)
    BY <2>2, IdleIsState
  <2> QED BY <1>1, <2>1, <2>2 DEF Return
<1>5. ThreadInv(q)'
  BY <1>3, <1>4 DEF ThreadInv, Holding
<1>6. ~Holding(thread[t]) /\ ~Holding(q) /\ registered' \in Threads \cup {NoThread, "done"}
  BY <1>1, <1>2, <1>3, <1>4 DEF Holding, RegistryInv, RegistryType
<1> QED BY <1>3, <1>4, <1>5, <1>6, Outside
-----------------------------------------------------------------------------
\* The members of a list as it grows at its end and is run from its head.
LEMMA MembersAppended ==
    ASSUME NEW s \in Seq(Types), NEW e \in Types
    PROVE  ToSet(Append(s, e)) = ToSet(s) \cup {e}
<1>1. /\ Len(s) \in Nat /\ DOMAIN s = 1..Len(s) /\ DOMAIN Append(s, e) = 1..(Len(s) + 1)
      /\ Append(s, e)[Len(s) + 1] = e /\ \A i \in 1..Len(s) : Append(s, e)[i] = s[i]
  OBVIOUS
<1>2. ToSet(Append(s, e)) \subseteq ToSet(s) \cup {e}
  <2> SUFFICES ASSUME NEW i \in 1..(Len(s) + 1) PROVE Append(s, e)[i] \in ToSet(s) \cup {e}
    BY <1>1 DEF ToSet
  <2>1. CASE i = Len(s) + 1
    BY <1>1, <2>1
  <2>2. CASE i \in 1..Len(s)
    BY <1>1, <2>2 DEF ToSet
  <2> QED BY <1>1, <2>1, <2>2
<1>3. ToSet(s) \subseteq ToSet(Append(s, e))
  <2> SUFFICES ASSUME NEW i \in 1..Len(s) PROVE s[i] \in ToSet(Append(s, e))
    BY <1>1 DEF ToSet
  <2>1. i \in DOMAIN Append(s, e) /\ Append(s, e)[i] = s[i]
    BY <1>1
  <2> QED BY <2>1 DEF ToSet
<1>4. e \in ToSet(Append(s, e))
  <2>1. Len(s) + 1 \in DOMAIN Append(s, e)
    BY <1>1
  <2> QED BY <1>1, <2>1 DEF ToSet
<1> QED BY <1>2, <1>3, <1>4

LEMMA MembersOfTail ==
    ASSUME NEW s \in Seq(Types), s # <<>>
    PROVE  /\ Head(s) \in Types /\ Tail(s) \in Seq(Types)
           /\ \A e \in ToSet(s) : e = Head(s) \/ e \in ToSet(Tail(s))
<1>1. /\ Len(s) \in Nat \ {0} /\ Head(s) = s[1] /\ DOMAIN s = 1..Len(s) /\ s[1] \in Types
      /\ Tail(s) \in Seq(Types) /\ DOMAIN Tail(s) = 1..(Len(s) - 1)
      /\ \A i \in 1..(Len(s) - 1) : Tail(s)[i] = s[i + 1]
  OBVIOUS
<1>2. ASSUME NEW i \in DOMAIN s PROVE s[i] = Head(s) \/ s[i] \in ToSet(Tail(s))
  <2>1. CASE i = 1
    BY <1>1, <2>1
  <2>2. CASE i # 1
    <3>1. i - 1 \in DOMAIN Tail(s) /\ Tail(s)[i - 1] = s[i]
      BY <1>1, <2>2
    <3> QED BY <3>1 DEF ToSet
  <2> QED BY <2>1, <2>2
<1> QED BY <1>1, <1>2 DEF ToSet

\* A registrar pushes its function while nobody holds the lock.
LEMMA RegistrarKeeps ==
    ASSUME RegistryInv, NEW t \in DOMAIN thread, ProtoTypeRegistrar(t) PROVE RegistryInv'
<1>1. PICK h : h = thread[t]
  OBVIOUS
<1>2. h \in ThreadStates /\ ThreadInv(h) /\ h.pc \in {"registrars", "late"} /\ h.todo # <<>>
  BY <1>1 DEF RegistryInv, RegistryType, ProtoTypeRegistrar
<1>3. PICK type : type = Head(h.todo)
  OBVIOUS
<1>4. type \in Types /\ Tail(h.todo) \in Seq(Types)
  BY <1>2, <1>3, MembersOfTail DEF ThreadStates
<1>5. PICK q : q = [h EXCEPT !.todo = Tail(h.todo)]
  OBVIOUS
<1>6. q \in ThreadStates /\ q.pc = h.pc /\ q.known = h.known
  BY <1>2, <1>4, <1>5 DEF ThreadStates
<1>7. /\ Step(t, q) /\ registerMutex = NoThread
      /\ registerFunctions' = Append(registerFunctions, type) /\ pushed' = pushed \cup {type}
      /\ UNCHANGED <<registerMutex, registered, converters, orderings>>
  BY <1>1, <1>3, <1>5 DEF ProtoTypeRegistrar
<1>8. /\ DOMAIN thread' = DOMAIN thread /\ thread' \in [DOMAIN thread' -> ThreadStates]
      /\ thread'[t] = q /\ \A u \in DOMAIN thread \ {t} : thread'[u] = thread[u]
  BY <1>6, <1>7, OneThread DEF RegistryInv
<1>9. \A u \in DOMAIN thread : ~Holding(thread[u])
  BY <1>7, RegistryAssumption DEF RegistryInv, RegistryType, LockInv
<1>10. RegistryType'
  BY <1>4, <1>7, <1>8 DEF RegistryInv, RegistryType
<1>11. NamesInv'
  BY <1>7 DEF RegistryInv, NamesInv
<1>12. LockInv'
  BY <1>2, <1>6, <1>7, <1>8, <1>9 DEF RegistryInv, LockInv, Holding
<1>13. NoneLost'
  <2>1. ToSet(registerFunctions') = ToSet(registerFunctions) \cup {type}
    BY <1>4, <1>7, MembersAppended DEF RegistryInv, RegistryType
  <2>2. \A other : Complete(other) => Complete(other)'
    BY <1>7 DEF Complete
  <2>3. \A other \in pushed : other \in ToSet(registerFunctions) \/ Complete(other)
    BY <1>9 DEF RegistryInv, NoneLost, Pending
  <2>4. \A other \in pushed' : other \in ToSet(registerFunctions') \/ Complete(other)'
    BY <1>7, <2>1, <2>2, <2>3
  <2> QED BY <2>4 DEF NoneLost, Pending
<1>14. ASSUME NEW u \in DOMAIN thread' PROVE ThreadInv(thread[u])'
  <2>1. PICK g : g = thread'[u]
    OBVIOUS
  <2>2. ThreadInv(g)'
    <3>1. CASE u = t
      BY <1>2, <1>6, <1>7, <1>8, <2>1, <3>1 DEF ThreadInv, Holding
    <3>2. CASE u # t
      <4>1. g = thread[u] /\ g \in ThreadStates /\ ThreadInv(g) /\ ~Holding(g)
        BY <1>8, <1>9, <2>1, <3>2 DEF RegistryInv, RegistryType
      <4> QED BY <1>7, <4>1, ThreadKept
    <3> QED BY <3>1, <3>2
  <2> QED BY <2>1, <2>2 DEF ThreadInv, Holding, Complete
<1> QED BY <1>10, <1>11, <1>12, <1>13, <1>14 DEF RegistryInv

\* The lock is taken and with it the whole list.
LEMMA TakeKeeps ==
    ASSUME RegistryInv, NEW t \in DOMAIN thread, TakeList(t) PROVE RegistryInv'
<1>1. PICK h : h = thread[t]
  OBVIOUS
<1>2. h \in ThreadStates /\ ThreadInv(h) /\ h.pc = "lock" /\ t \in Threads
  BY <1>1 DEF RegistryInv, RegistryType, TakeList, At
<1>3. PICK list \in Seq(Types) : list = registerFunctions
  BY DEF RegistryInv, RegistryType
<1>4. PICK q : q = [h EXCEPT !.pc = "run", !.list = list]
  OBVIOUS
<1>5. q \in ThreadStates /\ q.pc = "run" /\ q.known = h.known /\ q.list = list
  BY <1>2, <1>4 DEF ThreadStates, Pcs
<1>6. /\ Step(t, q) /\ registerMutex = NoThread /\ registerMutex' = t
      /\ registerFunctions' = <<>>
      /\ UNCHANGED <<registered, converters, orderings, pushed>>
  BY <1>1, <1>3, <1>4 DEF TakeList
<1>7. /\ DOMAIN thread' = DOMAIN thread /\ thread' \in [DOMAIN thread' -> ThreadStates]
      /\ thread'[t] = q /\ \A u \in DOMAIN thread \ {t} : thread'[u] = thread[u]
  BY <1>5, <1>6, OneThread DEF RegistryInv
<1>8. \A u \in DOMAIN thread : ~Holding(thread[u])
  BY <1>6, RegistryAssumption DEF RegistryInv, RegistryType, LockInv
<1>9. RegistryType'
  BY <1>2, <1>6, <1>7 DEF RegistryInv, RegistryType
<1>10. NamesInv'
  BY <1>6 DEF RegistryInv, NamesInv
<1>11. LockInv'
  BY <1>5, <1>6, <1>7, <1>8 DEF LockInv, Holding
<1>12. NoneLost'
  <2>1. \A other : Complete(other) => Complete(other)'
    BY <1>6 DEF Complete
  <2>2. \A other \in pushed : other \in ToSet(list) \/ Complete(other)
    BY <1>3, <1>8 DEF RegistryInv, NoneLost, Pending
  <2>3. t \in DOMAIN thread' /\ Holding(thread'[t]) /\ thread'[t].list = list
    BY <1>5, <1>7 DEF Holding
  <2>4. \A other \in pushed' : Pending(other)' \/ Complete(other)'
    BY <1>6, <2>1, <2>2, <2>3 DEF Pending, Holding
  <2> QED BY <2>4 DEF NoneLost
<1>13. ASSUME NEW u \in DOMAIN thread' PROVE ThreadInv(thread[u])'
  <2>1. PICK g : g = thread'[u]
    OBVIOUS
  <2>2. ThreadInv(g)'
    <3>1. CASE u = t
      BY <1>2, <1>5, <1>6, <1>7, <2>1, <3>1 DEF ThreadInv, Holding
    <3>2. CASE u # t
      <4>1. g = thread[u] /\ g \in ThreadStates /\ ThreadInv(g) /\ ~Holding(g)
        BY <1>7, <1>8, <2>1, <3>2 DEF RegistryInv, RegistryType
      <4> QED BY <1>6, <4>1, ThreadKept
    <3> QED BY <3>1, <3>2
  <2> QED BY <2>1, <2>2 DEF ThreadInv, Holding, Complete
<1> QED BY <1>9, <1>10, <1>11, <1>12, <1>13 DEF RegistryInv

\* A step of the holder of the lock that keeps it: what leaves its list is
\* complete, and nothing that was registered is taken back.
LEMMA Inside ==
    ASSUME RegistryInv, NEW t \in DOMAIN thread, NEW q \in ThreadStates, Step(t, q),
           Holding(thread[t]), Holding(q), ThreadInv(q)', NamesInv',
           UNCHANGED <<registerFunctions, registerMutex, registered, pushed>>,
           converters \subseteq converters', converters' \subseteq Types,
           DOMAIN orderings \subseteq DOMAIN orderings',
           \A type \in ToSet(thread[t].list) : type \in ToSet(q.list) \/ Complete(type)'
    PROVE  RegistryInv'
<1>1. /\ DOMAIN thread' = DOMAIN thread /\ thread' \in [DOMAIN thread' -> ThreadStates]
      /\ thread'[t] = q /\ \A u \in DOMAIN thread \ {t} : thread'[u] = thread[u]
  BY OneThread DEF RegistryInv
<1>2. \A u \in DOMAIN thread : Holding(thread[u]) => u = t
  BY DEF RegistryInv, LockInv
<1>3. RegistryType'
  BY <1>1 DEF RegistryInv, RegistryType
<1>4. LockInv'
  BY <1>1 DEF RegistryInv, LockInv, Holding
<1>5. NoneLost'
  <2>1. \A type : Complete(type) => Complete(type)'
    BY DEF Complete
  <2>2. ASSUME NEW type \in pushed PROVE Pending(type)' \/ Complete(type)'
    <3>1. \/ type \in ToSet(registerFunctions) \/ type \in ToSet(thread[t].list) \/ Complete(type)
      BY <1>2, <2>2 DEF RegistryInv, NoneLost, Pending
    <3>2. t \in DOMAIN thread' /\ Holding(thread'[t]) /\ thread'[t].list = q.list
      BY <1>1
    <3>3. type \in ToSet(registerFunctions) => Pending(type)'
      BY DEF Pending
    <3>4. type \in ToSet(q.list) => Pending(type)'
      BY <3>2 DEF Pending, Holding
    <3> QED BY <2>1, <3>1, <3>3, <3>4
  <2> QED BY <2>2 DEF NoneLost
<1>6. ASSUME NEW u \in DOMAIN thread' PROVE ThreadInv(thread[u])'
  <2>1. PICK g : g = thread'[u]
    OBVIOUS
  <2>2. ThreadInv(g)'
    <3>1. CASE u = t
      BY <1>1, <2>1, <3>1 DEF ThreadInv, Holding, Complete
    <3>2. CASE u # t
      <4>1. g = thread[u] /\ g \in ThreadStates /\ ThreadInv(g) /\ ~Holding(g)
        BY <1>1, <1>2, <2>1, <3>2 DEF RegistryInv, RegistryType
      <4> QED BY <4>1, ThreadKept
    <3> QED BY <3>1, <3>2
  <2> QED BY <2>1, <2>2 DEF ThreadInv, Holding, Complete
<1> QED BY <1>3, <1>4, <1>5, <1>6 DEF RegistryInv

\* The converters of a type are registered; an enum is complete with them.
LEMMA ConvertersKeep ==
    ASSUME RegistryInv, NEW t \in DOMAIN thread, registerTypes(t) PROVE RegistryInv'
<1>1. PICK h : h = thread[t]
  OBVIOUS
<1>2. h \in ThreadStates /\ ThreadInv(h) /\ h.pc = "run" /\ h.list # <<>> /\ h.list \in Seq(Types)
  BY <1>1 DEF RegistryInv, RegistryType, registerTypes, At, ThreadStates
<1>3. PICK type : type = Head(h.list)
  OBVIOUS
<1>4. /\ type \in Types /\ Tail(h.list) \in Seq(Types)
      /\ \A e \in ToSet(h.list) : e = type \/ e \in ToSet(Tail(h.list))
  BY <1>2, <1>3, MembersOfTail
<1>5. /\ converters' = converters \cup {type}
      /\ UNCHANGED <<registerFunctions, registerMutex, registered, orderings, pushed>>
  BY <1>1, <1>3 DEF registerTypes
<1>6. Step(t, IF isMessage(type) THEN [h EXCEPT !.pc = "ordering"]
              ELSE [h EXCEPT !.list = Tail(h.list)])
  BY <1>1, <1>3 DEF registerTypes
<1>7. PICK q \in ThreadStates :
          /\ Step(t, q) /\ q.known = h.known
          /\ \/ isMessage(type) /\ q.pc = "ordering" /\ q.list = h.list
             \/ ~isMessage(type) /\ q.pc = "run" /\ q.list = Tail(h.list)
  <2>1. CASE isMessage(type)
    <3>1. PICK q : q = [h EXCEPT !.pc = "ordering"]
      OBVIOUS
    <3>2. q \in ThreadStates /\ q.known = h.known /\ q.pc = "ordering" /\ q.list = h.list
      BY <1>2, <3>1 DEF ThreadStates, Pcs
    <3> QED BY <1>6, <2>1, <3>1, <3>2
  <2>2. CASE ~isMessage(type)
    <3>1. PICK q : q = [h EXCEPT !.list = Tail(h.list)]
      OBVIOUS
    <3>2. q \in ThreadStates /\ q.known = h.known /\ q.pc = "run" /\ q.list = Tail(h.list)
      BY <1>2, <1>4, <3>1 DEF ThreadStates, Pcs
    <3> QED BY <1>6, <2>2, <3>1, <3>2
  <2> QED BY <2>1, <2>2
<1>8. Holding(thread[t]) /\ Holding(q)
  BY <1>1, <1>2, <1>7 DEF Holding
<1>9. NamesInv'
  BY <1>5 DEF RegistryInv, NamesInv
<1>10. ThreadInv(q)'
  <2>1. registered = "done" /\ registerFunctions = <<>> /\ h.known \subseteq pushed
    BY <1>2 DEF ThreadInv, Holding
  <2> QED BY <1>2, <1>3, <1>5, <1>7, <2>1 DEF ThreadInv
<1>11. \A e \in ToSet(h.list) : e \in ToSet(q.list) \/ Complete(e)'
  BY <1>4, <1>5, <1>7 DEF Complete
<1>12. converters \subseteq converters' /\ converters' \subseteq Types /\ orderings' = orderings
  BY <1>4, <1>5 DEF RegistryInv, RegistryType
<1> QED BY <1>1, <1>5, <1>7, <1>8, <1>9, <1>10, <1>11, <1>12, Inside

\* The ordering of a message is registered: it is complete.
LEMMA OrderingKeeps ==
    ASSUME RegistryInv, NEW t \in DOMAIN thread, registerOrdering(t) PROVE RegistryInv'
<1>1. PICK h : h = thread[t]
  OBVIOUS
<1>2. h \in ThreadStates /\ ThreadInv(h) /\ h.pc = "ordering" /\ h.list \in Seq(Types)
  BY <1>1 DEF RegistryInv, RegistryType, registerOrdering, At, ThreadStates
<1>3. PICK type : type = Head(h.list)
  OBVIOUS
<1>4. h.list # <<>> /\ type \in converters
  BY <1>2, <1>3 DEF ThreadInv
<1>5. /\ type \in Types /\ Tail(h.list) \in Seq(Types)
      /\ \A e \in ToSet(h.list) : e = type \/ e \in ToSet(Tail(h.list))
  BY <1>2, <1>3, <1>4, MembersOfTail
<1>6. PICK q : q = [h EXCEPT !.pc = "run", !.list = Tail(h.list)]
  OBVIOUS
<1>7. q \in ThreadStates /\ q.pc = "run" /\ q.known = h.known /\ q.list = Tail(h.list)
  BY <1>2, <1>5, <1>6 DEF ThreadStates, Pcs
<1>8. /\ Step(t, q)
      /\ orderings' = [n \in DOMAIN orderings \cup {FullName[type]} |->
                          IF n = FullName[type] THEN type ELSE orderings[n]]
      /\ UNCHANGED <<registerFunctions, registerMutex, registered, converters, pushed>>
  BY <1>1, <1>3, <1>6 DEF registerOrdering
<1>9. /\ DOMAIN orderings' = DOMAIN orderings \cup {FullName[type]} /\ orderings'[FullName[type]] = type
      /\ \A n \in DOMAIN orderings \ {FullName[type]} : orderings'[n] = orderings[n]
  BY <1>8
<1>10. NamesInv'
  <2>1. \A n \in DOMAIN orderings' : orderings'[n] \in Types /\ FullName[orderings'[n]] = n
                                     /\ orderings'[n] \in converters
    BY <1>4, <1>5, <1>9 DEF RegistryInv, NamesInv
  <2> QED BY <1>8, <2>1 DEF NamesInv
<1>11. Holding(thread[t]) /\ Holding(q)
  BY <1>1, <1>2, <1>7 DEF Holding
<1>12. ThreadInv(q)'
  <2>1. registered = "done" /\ registerFunctions = <<>> /\ h.known \subseteq pushed
    BY <1>2 DEF ThreadInv, Holding
  <2> QED BY <1>7, <1>8, <2>1 DEF ThreadInv
<1>13. \A e \in ToSet(h.list) : e \in ToSet(q.list) \/ Complete(e)'
  BY <1>4, <1>5, <1>7, <1>8, <1>9 DEF Complete
<1>14. converters \subseteq converters' /\ converters' \subseteq Types /\ DOMAIN orderings \subseteq DOMAIN orderings'
  BY <1>8, <1>9 DEF RegistryInv, RegistryType
<1> QED BY <1>1, <1>7, <1>8, <1>10, <1>11, <1>12, <1>13, <1>14, Inside

\* The list has been run: all that was pushed is complete, and the lock is free.
LEMMA ReleaseKeeps ==
    ASSUME RegistryInv, NEW t \in DOMAIN thread, TypesRegistered(t) PROVE RegistryInv'
<1>1. PICK h : h = thread[t]
  OBVIOUS
<1>2. h \in ThreadStates /\ ThreadInv(h) /\ h.pc = "run" /\ h.list = <<>> /\ t \in Threads
  BY <1>1 DEF RegistryInv, RegistryType, TypesRegistered, At
<1>3. PICK q : q = [h EXCEPT !.pc = "returned"]
  OBVIOUS
<1>4. q \in ThreadStates /\ q.pc = "returned" /\ q.known = h.known
  BY <1>2, <1>3 DEF ThreadStates, Pcs
<1>5. /\ Step(t, q) /\ registerMutex' = NoThread
      /\ UNCHANGED <<registerFunctions, registered, converters, orderings, pushed>>
  BY <1>1, <1>3 DEF TypesRegistered
<1>6. /\ DOMAIN thread' = DOMAIN thread /\ thread' \in [DOMAIN thread' -> ThreadStates]
      /\ thread'[t] = q /\ \A u \in DOMAIN thread \ {t} : thread'[u] = thread[u]
  BY <1>4, <1>5, OneThread DEF RegistryInv
<1>7. \A u \in DOMAIN thread : Holding(thread[u]) => u = t
  BY <1>1, <1>2 DEF RegistryInv, LockInv, Holding
<1>8. \A type \in pushed : Complete(type)
  <2>1. registerFunctions = <<>>
    BY <1>2 DEF ThreadInv, Holding
  <2>2. ToSet(<<>>) = {}
    BY DEF ToSet
  <2>3. \A type : ~Pending(type)
    BY <1>1, <1>2, <1>7, <2>1, <2>2 DEF Pending
  <2> QED BY <2>3 DEF RegistryInv, NoneLost
<1>9. \A type : Complete(type) => Complete(type)'
  BY <1>5 DEF Complete
<1>10. RegistryType'
  BY <1>5, <1>6 DEF RegistryInv, RegistryType
<1>11. NamesInv'
  BY <1>5 DEF RegistryInv, NamesInv
<1>12. LockInv'
  <2>1. \A u \in DOMAIN thread' : ~Holding(thread'[u]) /\ u # NoThread
    BY <1>4, <1>6, <1>7, RegistryAssumption DEF Holding, RegistryInv, RegistryType
  <2> QED BY <1>5, <2>1 DEF LockInv, Holding
<1>13. NoneLost'
  BY <1>5, <1>8, <1>9 DEF NoneLost
<1>14. ASSUME NEW u \in DOMAIN thread' PROVE ThreadInv(thread[u])'
  <2>1. PICK g : g = thread'[u]
    OBVIOUS
  <2>2. ThreadInv(g)'
    <3>1. CASE u = t
      <4>1. registered = "done" /\ h.known \subseteq pushed
        BY <1>2 DEF ThreadInv
      <4>2. \A type \in h.known : Complete(type)'
        BY <1>8, <1>9, <4>1
      <4> QED BY <1>4, <1>5, <1>6, <2>1, <3>1, <4>1, <4>2 DEF ThreadInv, Holding
    <3>2. CASE u # t
      <4>1. g = thread[u] /\ g \in ThreadStates /\ ThreadInv(g) /\ ~Holding(g)
        BY <1>6, <1>7, <2>1, <3>2 DEF RegistryInv, RegistryType
      <4> QED BY <1>5, <4>1, ThreadKept
    <3> QED BY <3>1, <3>2
  <2> QED BY <2>1, <2>2 DEF ThreadInv, Holding, Complete
<1> QED BY <1>10, <1>11, <1>12, <1>13, <1>14 DEF RegistryInv
-----------------------------------------------------------------------------
\* Every step keeps the invariant; those of objects and of Qt types do not touch it.
LEMMA StepRegistry ==
    ASSUME RegistryInv, [QtMessagesNext]_<<vars, registryVars, field>> PROVE RegistryInv'
<1>1. CASE UNCHANGED registryVars
  BY <1>1 DEF registryVars, RegistryInv, RegistryType, NamesInv, LockInv, NoneLost, Pending,
              Complete, ThreadInv, Holding
<1>2. CASE RegistryNext
  <2>1. PICK t \in DOMAIN thread :
            \/ \E l \in Libraries, enumsFirst \in BOOLEAN : Load(t, l, enumsFirst)
            \/ \E n \in Names : constructByName(t, n)
            \/ ProtoTypeRegistrar(t) \/ RegistrarsDone(t) \/ qRegisterBaseTypes(t) \/ TakeList(t)
            \/ registerTypes(t) \/ registerOrdering(t) \/ TypesRegistered(t)
            \/ findMessageByName(t) \/ Return(t)
    BY <1>2 DEF RegistryNext
  <2> QED BY <2>1, LoadKeeps, CallKeeps, RegistrarKeeps, BaseKeeps, TakeKeeps, ConvertersKeep,
             OrderingKeeps, ReleaseKeeps, FindKeeps, ReturnKeeps
<1> QED BY <1>1, <1>2 DEF QtMessagesNext, MessagesNext

\* When qRegisterProtobufTypes() returns, every type that was announced before
\* it was called can be converted and is found by its name, for any number of
\* threads that load libraries and construct messages by name at the same time.
THEOREM AnnouncedIsKnown == QtMessagesSpec => []TypesKnown
<1>1. RegistryInv => TypesKnown
  BY DEF RegistryInv, ThreadInv, TypesKnown, Complete
<1> QED BY <1>1, RegistryStarts, StepRegistry, PTL DEF QtMessagesSpec
-----------------------------------------------------------------------------
(* Message objects: what a heap may look like, and what is in it.          *)

Oneofs == [fieldNumber : {InvalidFieldNumber, NumberField, MessageField},
           type : {"none", "number", "message"}, value : Nat]
Payloads == [num : Floats, text : Numbers, opt : Numbers \cup {Absent}, msg : Nat, one : Oneofs]

Pool(f, V) ==
    IsFiniteSet(DOMAIN f) /\ DOMAIN f \subseteq Nat \ {Null} /\ f \in [DOMAIN f -> V]

\* The nested message i is one of the payload d.
Leads(d, i) == \/ d.msg # Null /\ d.msg = i
               \/ d.one.type = "message" /\ d.one.value = i

PayloadOk(d, inner) == d \in Payloads /\ \A i : Leads(d, i) => i \in DOMAIN inner

\* Every pointer leads somewhere, and what is there is of its type.
HeapShape(h) ==
    h = [dptr |-> h.dptr, base |-> h.base, data |-> h.data, unknown |-> h.unknown,
         inner |-> h.inner, arg |-> h.arg]

HeapOk(h) ==
    /\ HeapShape(h)
    /\ h.dptr \in [Objs -> Nat] /\ h.base \in [Objs -> Nat] /\ h.arg \in Nat
    /\ Pool(h.data, Payloads) /\ Pool(h.unknown, Numbers) /\ Pool(h.inner, Numbers)
    /\ \A c \in DOMAIN h.data : PayloadOk(h.data[c], h.inner)
    /\ h.arg # Null => h.arg \in DOMAIN h.inner
    /\ \A o \in Objs : h.dptr[o] # Null => /\ h.dptr[o] \in DOMAIN h.data
                                           /\ h.base[o] \in DOMAIN h.unknown

\* What Meaning() reads in a payload.
Seen(d, inner, u) ==
    [num |-> d.num, text |-> d.text, opt |-> d.opt,
     msg |-> IF d.msg = Null THEN Absent ELSE inner[d.msg],
     one |-> <<d.one.fieldNumber, IF d.one.type = "message" THEN inner[d.one.value]
                                  ELSE d.one.value>>,
     unknown |-> u]

Payload(h, o) == h.data[h.dptr[o]]
Entry(h, o) == h.unknown[h.base[o]]
Value(h, o) == Seen(Payload(h, o), h.inner, Entry(h, o))

\* The type in a oneof is that of the field it holds.
KindOk(one) ==
    one.type = IF one.fieldNumber = InvalidFieldNumber THEN "none"
               ELSE TypeOfField(one.fieldNumber)
Kind(h, o) == KindOk(Payload(h, o).one)

\* The object p is what it was.
AsBefore(h, g, p) ==
    /\ g.dptr[p] # Null <=> h.dptr[p] # Null
    /\ h.dptr[p] # Null => Value(g, p) = Value(h, p) /\ (Kind(g, p) <=> Kind(h, p))

\* Nobody else has the payload of the object o.
Alone(h, o) == h.dptr[o] # Null /\ \A p \in Objs : h.dptr[p] = h.dptr[o] => p = o

\* A payload reads the same if its messages are the same.
LEMMA SeenSame ==
    ASSUME NEW d, NEW inner, NEW other, NEW u, \A i : Leads(d, i) => other[i] = inner[i]
    PROVE  Seen(d, other, u) = Seen(d, inner, u)
BY DEF Seen, Leads

\* An object keeps its value with its payload, its entry and their messages.
LEMMA Undisturbed ==
    ASSUME NEW h, NEW g, NEW p, h.dptr[p] # Null, g.dptr[p] # Null,
           Payload(g, p) = Payload(h, p), Entry(g, p) = Entry(h, p),
           \A i : Leads(Payload(h, p), i) => g.inner[i] = h.inner[i]
    PROVE  AsBefore(h, g, p)
<1>1. Seen(Payload(h, p), g.inner, Entry(h, p)) = Seen(Payload(h, p), h.inner, Entry(h, p))
  BY SeenSame
<1> QED BY <1>1 DEF AsBefore, Value, Kind

LEMMA BeforeThat ==
    ASSUME NEW h, NEW g, NEW q, NEW p, AsBefore(h, g, p), AsBefore(g, q, p)
    PROVE  AsBefore(h, q, p)
BY DEF AsBefore

\* A set of numbers has a least one.
LEMMA NatMin ==
    ASSUME NEW T, T \subseteq Nat, T # {}
    PROVE  \E x \in T : \A y \in T : x <= y
<1>1. PICK R : R = OpToRel(<, Nat)
  OBVIOUS
<1>2. IsWellFoundedOn(R, Nat)
  BY <1>1, NatLessThanWellFounded
<1>3. R = {p \in Nat \X Nat : p[1] < p[2]}
  BY <1>1 DEF OpToRel
<1>4. PICK x \in T : \A y \in T : ~(<<y, x>> \in R)
  BY <1>2, WFMin
<1>5. ASSUME NEW y \in T PROVE x <= y
  <2>1. x \in Nat /\ y \in Nat
    OBVIOUS
  <2>2. <<y, x>> \notin R
    BY <1>4
  <2>3. ~(y < x)
    <3>1. <<y, x>>[1] = y /\ <<y, x>>[2] = x
      OBVIOUS
    <3>2. <<y, x>> \in Nat \X Nat
      BY <2>1
    <3> QED BY <1>3, <2>2, <3>1, <3>2
  <2> QED BY <2>1, <2>3
<1> QED BY <1>5

\* A number that is not used.
LEMMA NewIsNew ==
    ASSUME NEW used, IsFiniteSet(used), NEW c, c = NewNumber(used)
    PROVE  c \in Nat \ {Null} /\ c \notin used
<1>1. PICK n, T : n = Cardinality(used) /\ T = (1 .. n + 1) \ used /\ n \in Nat
  BY FS_CardinalityType
<1>2. T \subseteq Nat /\ T # {}
  <2> SUFFICES ASSUME T = {} PROVE FALSE
    BY <1>1
  <2>1. 1 .. n + 1 \subseteq used
    BY <1>1
  <2>2. Cardinality(1 .. n + 1) <= n
    BY <1>1, <2>1, FS_Subset
  <2>3. Cardinality(1 .. n + 1) = n + 1
    BY <1>1, FS_Interval
  <2> QED BY <1>1, <2>2, <2>3
<1>3. c = CHOOSE x \in T : \A y \in T : x <= y
  BY <1>1 DEF NewNumber, Min
<1>4. \E x \in T : \A y \in T : x <= y
  BY <1>2, NatMin
<1>5. c \in T
  BY <1>3, <1>4
<1> QED BY <1>1, <1>5 DEF Null

\* g is f with v at c.
Extended(g, f, V, c, v) ==
    /\ Pool(g, V) /\ DOMAIN g = DOMAIN f \cup {c} /\ g[c] = v
    /\ \A x \in DOMAIN f : x # c => g[x] = f[x]

LEMMA PlacedIn ==
    ASSUME NEW f, NEW V, Pool(f, V), NEW c \in Nat \ {Null}, NEW v \in V, NEW g, g = Placed(f, c, v)
    PROVE  Extended(g, f, V, c, v)
<1>1. /\ DOMAIN g = DOMAIN f \cup {c} /\ g[c] = v
      /\ \A x \in DOMAIN f : x # c => g[x] = f[x]
  BY DEF Placed
<1>2. IsFiniteSet(DOMAIN f \cup {c})
  BY FS_AddElement DEF Pool
<1>3. g \in [DOMAIN g -> V]
  <2>1. g = [x \in DOMAIN g |-> g[x]]
    BY DEF Placed
  <2>2. \A x \in DOMAIN g : g[x] \in V
    BY <1>1 DEF Pool
  <2> QED BY <2>1, <2>2
<1> QED BY <1>1, <1>2, <1>3 DEF Pool, Extended

\* g is what f has in s.
Part(g, f, V, s) ==
    Pool(g, V) /\ DOMAIN g = DOMAIN f \cap s /\ \A x \in DOMAIN g : g[x] = f[x]

LEMMA RestrictedTo ==
    ASSUME NEW f, NEW V, Pool(f, V), NEW s, NEW g, g = Restricted(f, s)
    PROVE  Part(g, f, V, s)
<1>1. DOMAIN g = DOMAIN f \cap s /\ \A x \in DOMAIN g : g[x] = f[x]
  BY DEF Restricted
<1>2. IsFiniteSet(DOMAIN g)
  <2>1. DOMAIN g \in SUBSET DOMAIN f /\ IsFiniteSet(DOMAIN f)
    BY <1>1 DEF Pool
  <2> QED BY <2>1, FS_Subset
<1>3. g \in [DOMAIN g -> V]
  BY <1>1 DEF Restricted, Pool
<1> QED BY <1>1, <1>2, <1>3 DEF Part, Pool

LEMMA NewInnerPool ==
    ASSUME NEW h, HeapShape(h), NEW f, NEW q, q = [h EXCEPT !.inner = f]
    PROVE  /\ HeapShape(q) /\ q.dptr = h.dptr /\ q.base = h.base /\ q.arg = h.arg
           /\ q.data = h.data /\ q.unknown = h.unknown /\ q.inner = f
BY DEF HeapShape

\* Payloads that nothing points to go.  Nobody sees it.
LEMMA CollectedOk ==
    ASSUME NEW h, HeapOk(h), NEW q, q = Collected(h)
    PROVE  /\ HeapOk(q) /\ q.dptr = h.dptr /\ q.base = h.base /\ q.arg = h.arg
           /\ \A p \in Objs : AsBefore(h, q, p)
           /\ h.arg # Null => q.inner[h.arg] = h.inner[h.arg]
<1>1. PICK g : g = [h EXCEPT !.data = Restricted(@, {h.dptr[o] : o \in Objs}),
                            !.unknown = Restricted(@, {h.base[o] : o \in Objs})]
  OBVIOUS
<1>2. PICK s : s = {i \in DOMAIN g.inner : InnerPlaces(g, i) # {}}
  OBVIOUS
<1>3. /\ HeapShape(g) /\ g.dptr = h.dptr /\ g.base = h.base /\ g.arg = h.arg /\ g.inner = h.inner
      /\ g.data = Restricted(h.data, {h.dptr[o] : o \in Objs})
      /\ g.unknown = Restricted(h.unknown, {h.base[o] : o \in Objs})
  BY <1>1 DEF HeapOk, HeapShape
<1>4. q = [g EXCEPT !.inner = Restricted(@, s)]
  BY <1>1, <1>2 DEF Collected
<1>5. /\ HeapShape(q) /\ q.dptr = h.dptr /\ q.base = h.base /\ q.arg = h.arg
      /\ q.data = g.data /\ q.unknown = g.unknown /\ q.inner = Restricted(h.inner, s)
  <2>1. /\ HeapShape(q) /\ q.dptr = g.dptr /\ q.base = g.base /\ q.arg = g.arg
        /\ q.data = g.data /\ q.unknown = g.unknown /\ q.inner = Restricted(g.inner, s)
    BY <1>3, <1>4, NewInnerPool
  <2> QED BY <1>3, <2>1
<1>6. /\ Pool(q.data, Payloads) /\ DOMAIN q.data = DOMAIN h.data \cap {h.dptr[o] : o \in Objs}
      /\ \A c \in DOMAIN q.data : q.data[c] = h.data[c]
  <2>1. PICK used : used = {h.dptr[o] : o \in Objs}
    OBVIOUS
  <2>2. q.data = Restricted(h.data, used) /\ Pool(h.data, Payloads)
    BY <1>3, <1>5, <2>1 DEF HeapOk
  <2>3. Part(q.data, h.data, Payloads, used)
    BY <2>2, RestrictedTo
  <2> QED BY <2>1, <2>3 DEF Part
<1>7. /\ Pool(q.unknown, Numbers)
      /\ DOMAIN q.unknown = DOMAIN h.unknown \cap {h.base[o] : o \in Objs}
      /\ \A c \in DOMAIN q.unknown : q.unknown[c] = h.unknown[c]
  <2>1. PICK used : used = {h.base[o] : o \in Objs}
    OBVIOUS
  <2>2. q.unknown = Restricted(h.unknown, used) /\ Pool(h.unknown, Numbers)
    BY <1>3, <1>5, <2>1 DEF HeapOk
  <2>3. Part(q.unknown, h.unknown, Numbers, used)
    BY <2>2, RestrictedTo
  <2> QED BY <2>1, <2>3 DEF Part
<1>8. /\ Pool(q.inner, Numbers) /\ DOMAIN q.inner = DOMAIN h.inner \cap s
      /\ \A c \in DOMAIN q.inner : q.inner[c] = h.inner[c]
  <2>1. q.inner = Restricted(h.inner, s) /\ Pool(h.inner, Numbers)
    BY <1>5 DEF HeapOk
  <2>2. Part(q.inner, h.inner, Numbers, s)
    BY <2>1, RestrictedTo
  <2> QED BY <2>2 DEF Part
<1>9. ASSUME NEW c \in DOMAIN q.data, NEW i, Leads(q.data[c], i)
      PROVE  i \in DOMAIN q.inner
  <2>1. i \in DOMAIN h.inner
    BY <1>6, <1>9 DEF HeapOk, PayloadOk
  <2>2. c \in DOMAIN g.data /\ g.data[c] = q.data[c]
    BY <1>5
  <2>3. InnerPlaces(g, i) # {}
    BY <1>9, <2>2 DEF InnerPlaces, Leads
  <2>4. i \in s
    BY <1>2, <1>3, <2>1, <2>3
  <2> QED BY <1>8, <2>1, <2>4
<1>10. h.arg # Null => h.arg \in DOMAIN q.inner
  <2> SUFFICES ASSUME h.arg # Null PROVE h.arg \in DOMAIN q.inner
    OBVIOUS
  <2>1. h.arg \in DOMAIN h.inner
    BY DEF HeapOk
  <2>2. InnerPlaces(g, h.arg) # {}
    BY <1>3 DEF InnerPlaces
  <2>3. h.arg \in s
    BY <1>2, <1>3, <2>1, <2>2
  <2> QED BY <1>8, <2>1, <2>3
<1>11. ASSUME NEW o \in Objs, h.dptr[o] # Null
       PROVE  q.dptr[o] \in DOMAIN q.data /\ q.base[o] \in DOMAIN q.unknown
  BY <1>5, <1>6, <1>7, <1>11 DEF HeapOk
<1>12. \A c \in DOMAIN q.data : PayloadOk(q.data[c], q.inner)
  BY <1>6, <1>9 DEF HeapOk, PayloadOk
<1>13. HeapOk(q)
  BY <1>5, <1>6, <1>7, <1>8, <1>10, <1>11, <1>12 DEF HeapOk
<1>14. ASSUME NEW p \in Objs PROVE AsBefore(h, q, p)
  <2>1. CASE h.dptr[p] = Null
    BY <1>5, <2>1 DEF AsBefore
  <2>2. CASE h.dptr[p] # Null
    <3>1. Payload(q, p) = Payload(h, p) /\ Entry(q, p) = Entry(h, p)
      BY <1>5, <1>6, <1>7, <1>11, <2>2 DEF Payload, Entry
    <3>2. \A i : Leads(Payload(h, p), i) => q.inner[i] = h.inner[i]
      BY <1>5, <1>8, <1>9, <1>11, <2>2, <3>1 DEF Payload
    <3> QED BY <1>5, <2>2, <3>1, <3>2, Undisturbed
  <2> QED BY <2>1, <2>2
<1> QED BY <1>5, <1>8, <1>10, <1>13, <1>14
-----------------------------------------------------------------------------
(* The steps that the operations on a heap are made of.                    *)

\* The record r with v in the member name.
With(r, name, v) == [r EXCEPT ![name] = v]

\* The payload c is written, and nothing else.
Wrote(h, g, c, d) ==
    /\ HeapOk(g) /\ g.dptr = h.dptr /\ g.base = h.base /\ g.arg = h.arg
    /\ g.unknown = h.unknown /\ g.inner = h.inner /\ DOMAIN g.data = DOMAIN h.data
    /\ g.data[c] = d /\ \A x \in DOMAIN h.data \ {c} : g.data[x] = h.data[x]

LEMMA WroteOk ==
    ASSUME NEW h, HeapOk(h), NEW c \in DOMAIN h.data, NEW d, PayloadOk(d, h.inner),
           NEW g, g = [h EXCEPT !.data[c] = d]
    PROVE  Wrote(h, g, c, d)
<1>1. /\ HeapShape(g) /\ g.dptr = h.dptr /\ g.base = h.base /\ g.arg = h.arg
      /\ g.unknown = h.unknown /\ g.inner = h.inner /\ g.data = [h.data EXCEPT ![c] = d]
  BY DEF HeapOk, HeapShape
<1>2. PICK f : f = h.data
  OBVIOUS
<1>3. Pool(f, Payloads) /\ d \in Payloads /\ c \in DOMAIN f /\ g.data = [f EXCEPT ![c] = d]
  BY <1>1, <1>2 DEF HeapOk, PayloadOk
<1>4. /\ DOMAIN g.data = DOMAIN f /\ g.data[c] = d /\ Pool(g.data, Payloads)
      /\ \A x \in DOMAIN f \ {c} : g.data[x] = f[x]
  BY <1>3 DEF Pool
<1>5. \A x \in DOMAIN g.data : PayloadOk(g.data[x], g.inner)
  BY <1>1, <1>2, <1>4 DEF HeapOk
<1>6. HeapOk(g)
  BY <1>1, <1>2, <1>4, <1>5 DEF HeapOk
<1> QED BY <1>1, <1>2, <1>4, <1>6 DEF Wrote

LEMMA PutIs ==
    ASSUME NEW h, HeapShape(h), NEW o, NEW name, NEW v
    PROVE  Put(h, o, name, v) =
               [h EXCEPT !.data[h.dptr[o]] = With(Payload(h, o), name, v)]
BY DEF Put, Payload, HeapShape, With

\* A nested message is made or written.
Stored(h, g, j, v) ==
    /\ HeapOk(g) /\ g.dptr = h.dptr /\ g.base = h.base /\ g.arg = h.arg
    /\ g.unknown = h.unknown /\ g.data = h.data /\ DOMAIN g.inner = DOMAIN h.inner \cup {j}
    /\ g.inner[j] = v /\ \A i \in DOMAIN h.inner : i # j => g.inner[i] = h.inner[i]

LEMMA StoredOk ==
    ASSUME NEW h, HeapOk(h), NEW j \in Nat \ {Null}, NEW v \in Numbers,
           NEW g, g = [h EXCEPT !.inner = Placed(@, j, v)]
    PROVE  Stored(h, g, j, v)
<1>1. PICK f : f = Placed(h.inner, j, v)
  OBVIOUS
<1>2. /\ HeapShape(g) /\ g.dptr = h.dptr /\ g.base = h.base /\ g.arg = h.arg
      /\ g.data = h.data /\ g.unknown = h.unknown /\ g.inner = f
  <2>1. HeapShape(h) /\ g = [h EXCEPT !.inner = f]
    BY <1>1 DEF HeapOk
  <2> QED BY <2>1, NewInnerPool
<1>3. PICK e : e = h.inner
  OBVIOUS
<1>4. Pool(e, Numbers)
  BY <1>3 DEF HeapOk
<1>5. /\ Pool(f, Numbers) /\ DOMAIN f = DOMAIN e \cup {j} /\ f[j] = v
      /\ \A x \in DOMAIN e : x # j => f[x] = e[x]
  <2>1. Extended(f, e, Numbers, j, v)
    BY <1>1, <1>3, <1>4, PlacedIn
  <2> QED BY <2>1 DEF Extended
<1>6. \A x \in DOMAIN g.data : PayloadOk(g.data[x], g.inner)
  BY <1>2, <1>3, <1>5 DEF HeapOk, PayloadOk
<1>7. HeapOk(g)
  BY <1>2, <1>3, <1>5, <1>6 DEF HeapOk
<1> QED BY <1>2, <1>3, <1>5, <1>7 DEF Stored

LEMMA NewInnerOk ==
    ASSUME NEW h, HeapOk(h), NEW i, i = NewInner(h)
    PROVE  i \in Nat \ {Null} /\ i \notin DOMAIN h.inner
<1>1. IsFiniteSet(DOMAIN h.inner) /\ i = NewNumber(DOMAIN h.inner)
  BY DEF HeapOk, Pool, NewInner
<1> QED BY <1>1, NewIsNew

\* The nested message in the hands of the user is what it was.
ArgAsBefore(h, g) == g.arg = h.arg /\ (h.arg # Null => g.inner[h.arg] = h.inner[h.arg])

\* Nothing that can be seen has changed.
Quiet(h, g) == HeapOk(g) /\ ArgAsBefore(h, g) /\ \A p \in Objs : AsBefore(h, g, p)

\* What detach() does.
LEMMA DetachedOk ==
    ASSUME NEW h, HeapOk(h), NEW o \in Objs, h.dptr[o] # Null, NEW g, g = Detached(h, o)
    PROVE  /\ Quiet(h, g) /\ Alone(g, o) /\ g.inner = h.inner
           /\ Payload(g, o) = Payload(h, o)
<1>1. CASE PointsTo(h, h.dptr[o]) = {o}
  <2>1. g = h
    BY <1>1 DEF Detached
  <2>2. Alone(h, o)
    BY <1>1 DEF Alone, PointsTo
  <2> QED BY <2>1, <2>2 DEF Quiet, ArgAsBefore, AsBefore
<1>2. CASE PointsTo(h, h.dptr[o]) # {o}
  <2>1. PICK c : c = NewNumber(DOMAIN h.data)
    OBVIOUS
  <2>2. PICK f : f = Placed(h.data, c, h.data[h.dptr[o]])
    OBVIOUS
  <2>3. g = [h EXCEPT !.dptr[o] = c, !.data = f]
    BY <1>2, <2>1, <2>2 DEF Detached
  <2>4. /\ HeapShape(g) /\ g.dptr = [h.dptr EXCEPT ![o] = c] /\ g.base = h.base
        /\ g.arg = h.arg /\ g.data = f /\ g.unknown = h.unknown /\ g.inner = h.inner
    BY <2>3 DEF HeapOk, HeapShape
  <2>5. c \in Nat \ {Null} /\ c \notin DOMAIN h.data
    <3>1. IsFiniteSet(DOMAIN h.data)
      BY DEF HeapOk, Pool
    <3> QED BY <2>1, <3>1, NewIsNew
  <2>6. PICK e, d : e = h.data /\ d = h.data[h.dptr[o]]
    OBVIOUS
  <2>7. Pool(e, Payloads) /\ d \in Payloads /\ PayloadOk(d, h.inner) /\ f = Placed(e, c, d)
    BY <2>2, <2>6 DEF HeapOk, PayloadOk
  <2>8. /\ Pool(f, Payloads) /\ DOMAIN f = DOMAIN e \cup {c} /\ f[c] = d
        /\ \A x \in DOMAIN e : x # c => f[x] = e[x]
    <3>1. Extended(f, e, Payloads, c, d)
      BY <2>5, <2>7, PlacedIn
    <3> QED BY <3>1 DEF Extended
  <2>9. \A x \in DOMAIN g.data : PayloadOk(g.data[x], g.inner)
    BY <2>4, <2>6, <2>7, <2>8 DEF HeapOk
  <2>10. /\ g.dptr \in [Objs -> Nat] /\ g.dptr[o] = c
         /\ \A p \in Objs \ {o} : g.dptr[p] = h.dptr[p]
    BY <2>4, <2>5 DEF HeapOk
  <2>11. HeapOk(g)
    BY <2>4, <2>6, <2>8, <2>9, <2>10 DEF HeapOk
  <2>12. Alone(g, o)
    BY <2>5, <2>10 DEF Alone, HeapOk
  <2>13. ASSUME NEW p \in Objs, h.dptr[p] # Null
         PROVE  Payload(g, p) = Payload(h, p) /\ Entry(g, p) = Entry(h, p) /\ g.dptr[p] # Null
    BY <2>4, <2>5, <2>6, <2>8, <2>10, <2>13 DEF Payload, Entry, HeapOk
  <2>14. ASSUME NEW p \in Objs PROVE AsBefore(h, g, p)
    <3>1. CASE h.dptr[p] = Null
      <4>1. p # o
        BY <3>1
      <4>2. g.dptr[p] = Null
        BY <2>10, <3>1, <4>1
      <4> QED BY <3>1, <4>2 DEF AsBefore
    <3>2. CASE h.dptr[p] # Null
      BY <2>4, <2>13, <3>2, Undisturbed
    <3> QED BY <3>1, <3>2
  <2> QED BY <2>4, <2>11, <2>12, <2>13, <2>14 DEF Quiet, ArgAsBefore
<1> QED BY <1>1, <1>2
-----------------------------------------------------------------------------
(* What the operations do to the value of an object.                       *)

\* The object p is what it was, but for an absent message that became empty.
Keeps(h, g, p) ==
    /\ g.dptr[p] # Null <=> h.dptr[p] # Null
    /\ h.dptr[p] # Null =>
          /\ Kind(g, p) <=> Kind(h, p)
          /\ \/ Value(g, p) = Value(h, p)
             \/ Value(h, p).msg = Absent /\ Value(g, p) = [Value(h, p) EXCEPT !.msg = 0]

LEMMA BeforeKeeps ==
    ASSUME NEW h, NEW g, NEW p, AsBefore(h, g, p) PROVE Keeps(h, g, p)
BY DEF AsBefore, Keeps

LEMMA SeenIsRecord ==
    ASSUME NEW d, NEW inner, NEW u, NEW s, s = Seen(d, inner, u)
    PROVE  s = [num |-> s.num, text |-> s.text, opt |-> s.opt, msg |-> s.msg,
                one |-> s.one, unknown |-> s.unknown]
BY DEF Seen

LEMMA ValueIsRecord ==
    ASSUME NEW h, NEW o, NEW s, s = Value(h, o)
    PROVE  s = [num |-> s.num, text |-> s.text, opt |-> s.opt, msg |-> s.msg,
                one |-> s.one, unknown |-> s.unknown]
BY SeenIsRecord DEF Value

LEMMA KeepsThen ==
    ASSUME NEW h, NEW g, NEW q, NEW p, Keeps(h, g, p), Keeps(g, q, p)
    PROVE  Keeps(h, q, p)
<1>1. CASE h.dptr[p] = Null
  BY <1>1 DEF Keeps
<1>2. CASE h.dptr[p] # Null
  <2>1. PICK x, y, z : x = Value(h, p) /\ y = Value(g, p) /\ z = Value(q, p)
    OBVIOUS
  <2>2. x = [num |-> x.num, text |-> x.text, opt |-> x.opt, msg |-> x.msg,
             one |-> x.one, unknown |-> x.unknown]
    BY <2>1, ValueIsRecord
  <2>3. y = x \/ (x.msg = Absent /\ y = [x EXCEPT !.msg = 0])
    BY <1>2, <2>1 DEF Keeps
  <2>4. z = y \/ (y.msg = Absent /\ z = [y EXCEPT !.msg = 0])
    BY <1>2, <2>1 DEF Keeps
  <2>5. z = x \/ (x.msg = Absent /\ z = [x EXCEPT !.msg = 0])
    BY <2>2, <2>3, <2>4 DEF Absent
  <2> QED BY <1>2, <2>1, <2>5 DEF Keeps
<1> QED BY <1>1, <1>2

\* The object o has w in the member name, if the nested message in the user's
\* hands and the other objects are what they were.
Changed(h, g, o, name, w) ==
    /\ HeapOk(g) /\ ArgAsBefore(h, g) /\ g.dptr[o] # Null
    /\ Alone(h, o) => Alone(g, o)
    /\ \A p \in Objs \ {o} : Keeps(h, g, p)
    /\ Kind(h, o) => Kind(g, o)
    /\ Value(g, o) = With(Value(h, o), name, w)

\* Objects whose payload was not written and whose messages are the same.
LEMMA WroteElsewhere ==
    ASSUME NEW h, HeapOk(h), NEW c \in DOMAIN h.data, NEW d, NEW g, Wrote(h, g, c, d),
           NEW p \in Objs, h.dptr[p] # c
    PROVE  AsBefore(h, g, p)
<1>1. CASE h.dptr[p] = Null
  BY <1>1 DEF AsBefore, Wrote
<1>2. CASE h.dptr[p] # Null
  <2>1. g.dptr[p] # Null /\ Payload(g, p) = Payload(h, p) /\ Entry(g, p) = Entry(h, p)
    BY <1>2 DEF Wrote, Payload, Entry, HeapOk
  <2>2. \A i : Leads(Payload(h, p), i) => g.inner[i] = h.inner[i]
    BY DEF Wrote
  <2> QED BY <1>2, <2>1, <2>2, Undisturbed
<1> QED BY <1>1, <1>2

LEMMA StoredElsewhere ==
    ASSUME NEW h, HeapOk(h), NEW j, NEW v, NEW g, Stored(h, g, j, v),
           NEW p \in Objs, h.dptr[p] # Null => ~Leads(Payload(h, p), j)
    PROVE  AsBefore(h, g, p)
<1>1. CASE h.dptr[p] = Null
  BY <1>1 DEF AsBefore, Stored
<1>2. CASE h.dptr[p] # Null
  <2>1. g.dptr[p] # Null /\ Payload(g, p) = Payload(h, p) /\ Entry(g, p) = Entry(h, p)
    BY <1>2 DEF Stored, Payload, Entry
  <2>2. ASSUME NEW i, Leads(Payload(h, p), i) PROVE g.inner[i] = h.inner[i]
    <3>1. i # j
      BY <1>2, <2>2
    <3>2. i \in DOMAIN h.inner
      BY <1>2, <2>2 DEF HeapOk, PayloadOk, Payload
    <3> QED BY <3>1, <3>2 DEF Stored
  <2> QED BY <1>2, <2>1, <2>2, Undisturbed
<1> QED BY <1>1, <1>2

\* A nested message that nobody has is made or written.
LEMMA StoredAside ==
    ASSUME NEW h, HeapOk(h), NEW j, j \notin DOMAIN h.inner, NEW v, NEW g, Stored(h, g, j, v)
    PROVE  Quiet(h, g)
<1>1. ASSUME NEW p \in Objs PROVE AsBefore(h, g, p)
  <2>1. h.dptr[p] # Null => ~Leads(Payload(h, p), j)
    BY DEF HeapOk, PayloadOk, Payload
  <2> QED BY <2>1, StoredElsewhere
<1>2. HeapOk(g) /\ ArgAsBefore(h, g)
  BY DEF Stored, ArgAsBefore, HeapOk
<1> QED BY <1>1, <1>2 DEF Quiet

SeenOne(one, inner) ==
    <<one.fieldNumber, IF one.type = "message" THEN inner[one.value] ELSE one.value>>

\* What is read when a member of the payload is replaced.
LEMMA SeenWith ==
    ASSUME NEW d \in Payloads, NEW inner, NEW u, NEW v
    PROVE  /\ Seen(With(d, "num", v), inner, u) = With(Seen(d, inner, u), "num", v)
           /\ Seen(With(d, "text", v), inner, u) = With(Seen(d, inner, u), "text", v)
           /\ Seen(With(d, "opt", v), inner, u) = With(Seen(d, inner, u), "opt", v)
           /\ Seen(With(d, "msg", v), inner, u) =
                  With(Seen(d, inner, u), "msg", IF v = Null THEN Absent ELSE inner[v])
           /\ Seen(With(d, "one", v), inner, u) = With(Seen(d, inner, u), "one", SeenOne(v, inner))
<1>1. d = [num |-> d.num, text |-> d.text, opt |-> d.opt, msg |-> d.msg, one |-> d.one]
  BY DEF Payloads
<1>2. Seen(With(d, "num", v), inner, u) = With(Seen(d, inner, u), "num", v)
  BY <1>1 DEF Seen, With
<1>3. Seen(With(d, "text", v), inner, u) = With(Seen(d, inner, u), "text", v)
  BY <1>1 DEF Seen, With
<1>4. Seen(With(d, "opt", v), inner, u) = With(Seen(d, inner, u), "opt", v)
  BY <1>1 DEF Seen, With
<1>5. Seen(With(d, "msg", v), inner, u) =
          With(Seen(d, inner, u), "msg", IF v = Null THEN Absent ELSE inner[v])
  BY <1>1 DEF Seen, With
<1>6. Seen(With(d, "one", v), inner, u) = With(Seen(d, inner, u), "one", SeenOne(v, inner))
  BY <1>1 DEF Seen, With, SeenOne
<1> QED BY <1>2, <1>3, <1>4, <1>5, <1>6

\* Fetching the nested message of an object fills the pointer of its payload.
Filled(h, g, o) ==
    /\ HeapOk(g) /\ ArgAsBefore(h, g) /\ g.dptr = h.dptr
    /\ \A p \in Objs : Keeps(h, g, p)
    /\ Member(g, o, "msg") # Null

LEMMA MemberIs ==
    ASSUME NEW h, NEW o
    PROVE  /\ Member(h, o, "num") = Payload(h, o).num /\ Member(h, o, "text") = Payload(h, o).text
           /\ Member(h, o, "opt") = Payload(h, o).opt /\ Member(h, o, "msg") = Payload(h, o).msg
           /\ Member(h, o, "one") = Payload(h, o).one
BY DEF Member, Payload

LEMMA GetOk ==
    ASSUME NEW h, HeapOk(h), NEW o \in Objs, h.dptr[o] # Null, NEW g, g = get(h, o)
    PROVE  Filled(h, g, o)
<1>1. CASE Member(h, o, "msg") # Null
  <2>1. g = h
    BY <1>1 DEF get
  <2> QED BY <1>1, <2>1 DEF Filled, ArgAsBefore, Keeps
<1>2. CASE Member(h, o, "msg") = Null
  <2>1. PICK i : i = NewInner(h)
    OBVIOUS
  <2>2. i \in Nat \ {Null} /\ i \notin DOMAIN h.inner
    BY <2>1, NewInnerOk
  <2>3. PICK k : k = WithInner(h, i)
    OBVIOUS
  <2>4. Stored(h, k, i, 0)
    <3>1. k = [h EXCEPT !.inner = Placed(@, i, 0)] /\ 0 \in Numbers
      BY <2>3 DEF WithInner, Numbers
    <3> QED BY <2>2, <3>1, StoredOk
  <2>5. Quiet(h, k)
    BY <2>2, <2>4, StoredAside
  <2>6. PICK c : c = h.dptr[o]
    OBVIOUS
  <2>7. PICK d : d = With(Payload(h, o), "msg", i)
    OBVIOUS
  <2>8. Payload(k, o) = Payload(h, o) /\ k.dptr = h.dptr /\ c \in DOMAIN k.data /\ HeapOk(k)
    BY <2>4, <2>6 DEF Stored, Payload, HeapOk
  <2>9. g = [k EXCEPT !.data[c] = d]
    <3>1. g = Put(k, o, "msg", i)
      BY <1>2, <2>1, <2>3 DEF get
    <3>2. HeapShape(k)
      BY <2>8 DEF HeapOk
    <3>3. Put(k, o, "msg", i) = [k EXCEPT !.data[k.dptr[o]] = With(Payload(k, o), "msg", i)]
      BY <3>2, PutIs
    <3> QED BY <2>6, <2>7, <2>8, <3>1, <3>3
  <2>10. PayloadOk(d, k.inner)
    <3>1. Payload(h, o) \in Payloads /\ \A j : Leads(Payload(h, o), j) => j \in DOMAIN h.inner
      BY DEF HeapOk, PayloadOk, Payload
    <3>2. d \in Payloads /\ d.msg = i /\ d.one = Payload(h, o).one
      BY <2>2, <2>7, <3>1 DEF Payloads, With
    <3>3. \A j : Leads(d, j) => j = i \/ Leads(Payload(h, o), j)
      BY <3>2 DEF Leads
    <3> QED BY <2>4, <3>1, <3>2, <3>3 DEF PayloadOk, Stored
  <2>11. Wrote(k, g, c, d)
    BY <2>8, <2>9, <2>10, WroteOk
  <2>12. ASSUME NEW p \in Objs, h.dptr[p] = c PROVE Keeps(h, g, p)
    <3>1. PICK e, u : e = Payload(h, o) /\ u = Entry(h, p)
      OBVIOUS
    <3>2. /\ Payload(h, p) = e /\ Payload(g, p) = d /\ Entry(g, p) = u
          /\ h.dptr[p] # Null /\ g.dptr[p] # Null
      BY <2>4, <2>6, <2>8, <2>11, <2>12, <3>1 DEF Payload, Entry, Wrote, Stored
    <3>3. e \in Payloads /\ \A j : Leads(e, j) => j \in DOMAIN h.inner
      BY <3>1 DEF HeapOk, PayloadOk, Payload
    <3>4. Value(h, p) = Seen(e, h.inner, u)
      BY <3>1, <3>2 DEF Value
    <3>5. Value(g, p) = Seen(d, k.inner, u)
      BY <2>11, <3>2 DEF Value, Wrote
    <3>6. Seen(e, k.inner, u) = Seen(e, h.inner, u)
      <4>1. \A j : Leads(e, j) => k.inner[j] = h.inner[j]
        BY <2>2, <2>4, <3>3 DEF Stored
      <4> QED BY <4>1, SeenSame
    <3>7. k.inner[i] = 0 /\ i # Null
      BY <2>2, <2>4 DEF Stored
    <3>8. Seen(d, k.inner, u) = [Seen(e, k.inner, u) EXCEPT !.msg = 0]
      <4>1. Seen(With(e, "msg", i), k.inner, u) =
                With(Seen(e, k.inner, u), "msg", IF i = Null THEN Absent ELSE k.inner[i])
        BY <3>3, SeenWith
      <4>2. Seen(d, k.inner, u) = With(Seen(e, k.inner, u), "msg", 0)
        BY <2>7, <3>1, <3>7, <4>1
      <4> QED BY <4>2 DEF With
    <3>9. e.msg = Null
      BY <1>2, <3>1, MemberIs
    <3>10. Value(h, p).msg = Absent
      BY <3>4, <3>9 DEF Seen
    <3>11. Kind(g, p) <=> Kind(h, p)
      <4>1. d.one = e.one
        BY <2>7, <3>1, <3>3 DEF Payloads, With
      <4> QED BY <3>2, <4>1 DEF Kind
    <3> QED BY <3>2, <3>4, <3>5, <3>6, <3>8, <3>10, <3>11 DEF Keeps
  <2>13. ASSUME NEW p \in Objs, h.dptr[p] # c PROVE Keeps(h, g, p)
    <3>1. AsBefore(k, g, p)
      BY <2>8, <2>11, <2>13, WroteElsewhere
    <3>2. AsBefore(h, k, p)
      BY <2>5 DEF Quiet
    <3> QED BY <3>1, <3>2, BeforeThat, BeforeKeeps
  <2>14. Member(g, o, "msg") # Null
    <3>1. Payload(g, o) = d
      BY <2>6, <2>8, <2>11 DEF Wrote, Payload
    <3>2. d.msg = i
      BY <2>7 DEF HeapOk, PayloadOk, Payload, Payloads, With
    <3> QED BY <2>2, <3>1, <3>2, MemberIs
  <2> QED BY <2>5, <2>8, <2>11, <2>12, <2>13, <2>14 DEF Filled, Quiet, ArgAsBefore, Wrote
<1> QED BY <1>1, <1>2
-----------------------------------------------------------------------------
(* The setters.                                                            *)

LEMMA PutChanged ==
    ASSUME NEW h, HeapOk(h), NEW o \in Objs, Alone(h, o), NEW name, NEW v, NEW w,
           NEW d, d = With(Payload(h, o), name, v), PayloadOk(d, h.inner),
           \A u : Seen(d, h.inner, u) = With(Seen(Payload(h, o), h.inner, u), name, w),
           Kind(h, o) => KindOk(d.one), NEW g, g = Put(h, o, name, v)
    PROVE  Changed(h, g, o, name, w)
<1>1. PICK c : c = h.dptr[o]
  OBVIOUS
<1>2. c \in DOMAIN h.data /\ HeapShape(h) /\ \A p \in Objs \ {o} : h.dptr[p] # c
  BY <1>1 DEF Alone, HeapOk
<1>3. g = [h EXCEPT !.data[c] = d]
  <2>1. Put(h, o, name, v) = [h EXCEPT !.data[h.dptr[o]] = With(Payload(h, o), name, v)]
    BY <1>2, PutIs
  <2> QED BY <1>1, <2>1
<1>4. Wrote(h, g, c, d)
  BY <1>2, <1>3, WroteOk
<1>5. ASSUME NEW p \in Objs \ {o} PROVE Keeps(h, g, p)
  BY <1>2, <1>4, WroteElsewhere, BeforeKeeps
<1>6. Payload(g, o) = d /\ Entry(g, o) = Entry(h, o) /\ g.inner = h.inner
  BY <1>1, <1>4 DEF Wrote, Payload, Entry
<1>7. Value(g, o) = With(Value(h, o), name, w)
  BY <1>6 DEF Value
<1>8. Kind(h, o) => Kind(g, o)
  BY <1>6 DEF Kind
<1>9. HeapOk(g) /\ ArgAsBefore(h, g) /\ g.dptr = h.dptr
  BY <1>4 DEF Wrote, ArgAsBefore
<1> QED BY <1>5, <1>7, <1>8, <1>9 DEF Changed, Alone

LEMMA ChangedAfter ==
    ASSUME NEW h, NEW g, Quiet(h, g), NEW o \in Objs, h.dptr[o] # Null,
           Alone(h, o) => Alone(g, o), NEW q, NEW name, NEW w, Changed(g, q, o, name, w)
    PROVE  Changed(h, q, o, name, w)
<1>1. ASSUME NEW p \in Objs \ {o} PROVE Keeps(h, q, p)
  <2>1. Keeps(h, g, p)
    BY BeforeKeeps DEF Quiet
  <2>2. Keeps(g, q, p)
    BY DEF Changed
  <2> QED BY <2>1, <2>2, KeepsThen
<1>2. Value(g, o) = Value(h, o) /\ (Kind(g, o) <=> Kind(h, o))
  BY DEF Quiet, AsBefore
<1>3. Value(q, o) = With(Value(h, o), name, w) /\ (Kind(h, o) => Kind(q, o))
  BY <1>2 DEF Changed
<1>4. HeapOk(q) /\ ArgAsBefore(h, q)
  BY DEF Changed, Quiet, ArgAsBefore
<1> QED BY <1>1, <1>3, <1>4 DEF Changed

LEMMA SetChanged ==
    ASSUME NEW h, HeapOk(h), NEW o \in Objs, h.dptr[o] # Null, NEW name, NEW v, NEW w,
           NEW differs, ~differs => Value(h, o) = With(Value(h, o), name, w),
           NEW d, d = With(Payload(h, o), name, v), PayloadOk(d, h.inner),
           \A u : Seen(d, h.inner, u) = With(Seen(Payload(h, o), h.inner, u), name, w),
           Kind(h, o) => KindOk(d.one), NEW g, g = Set(h, o, name, v, differs)
    PROVE  Changed(h, g, o, name, w)
<1>1. CASE ~differs
  <2>1. g = h
    BY <1>1 DEF Set
  <2> QED BY <1>1, <2>1 DEF Changed, ArgAsBefore, Keeps
<1>2. CASE differs
  <2>1. PICK k : k = Detached(h, o)
    OBVIOUS
  <2>2. Quiet(h, k) /\ Alone(k, o) /\ k.inner = h.inner /\ Payload(k, o) = Payload(h, o)
    BY <2>1, DetachedOk
  <2>3. g = Put(k, o, name, v)
    BY <1>2, <2>1 DEF Set
  <2>4. HeapOk(k) /\ (Kind(k, o) => KindOk(d.one))
    BY <2>2 DEF Quiet, Kind
  <2>5. d = With(Payload(k, o), name, v) /\ PayloadOk(d, k.inner)
    BY <2>2
  <2>6. \A u : Seen(d, k.inner, u) = With(Seen(Payload(k, o), k.inner, u), name, w)
    BY <2>2
  <2>7. Changed(k, g, o, name, w)
    BY <2>2, <2>3, <2>4, <2>5, <2>6, PutChanged
  <2> QED BY <2>2, <2>7, ChangedAfter
<1> QED BY <1>1, <1>2

\* The payload of an object is one.
LEMMA PayloadIsOk ==
    ASSUME NEW h, HeapOk(h), NEW o \in Objs, h.dptr[o] # Null
    PROVE  /\ PayloadOk(Payload(h, o), h.inner) /\ Payload(h, o) \in Payloads
           /\ Entry(h, o) \in Numbers
BY DEF HeapOk, PayloadOk, Payload, Entry, Pool

\* A member that is no message: the payload stays one.
LEMMA WithPlain ==
    ASSUME NEW d, NEW inner, PayloadOk(d, inner), NEW v
    PROVE  /\ v \in Floats => PayloadOk(With(d, "num", v), inner)
           /\ v \in Numbers => PayloadOk(With(d, "text", v), inner)
           /\ v \in Numbers \cup {Absent} => PayloadOk(With(d, "opt", v), inner)
           /\ PayloadOk(With(d, "msg", Null), inner)
           /\ With(d, "num", v).one = d.one /\ With(d, "text", v).one = d.one
           /\ With(d, "opt", v).one = d.one /\ With(d, "msg", v).one = d.one
           /\ With(d, "one", v).one = v
<1>1. /\ With(d, "num", v).one = d.one /\ With(d, "text", v).one = d.one
      /\ With(d, "opt", v).one = d.one /\ With(d, "msg", v).one = d.one
      /\ With(d, "one", v).one = v
  BY DEF With, PayloadOk, Payloads
<1>2. v \in Floats => PayloadOk(With(d, "num", v), inner)
  BY DEF With, PayloadOk, Payloads, Leads
<1>3. v \in Numbers => PayloadOk(With(d, "text", v), inner)
  BY DEF With, PayloadOk, Payloads, Leads
<1>4. v \in Numbers \cup {Absent} => PayloadOk(With(d, "opt", v), inner)
  BY DEF With, PayloadOk, Payloads, Leads
<1>5. PayloadOk(With(d, "msg", Null), inner)
  BY DEF With, PayloadOk, Payloads, Leads, Null
<1> QED BY <1>1, <1>2, <1>3, <1>4, <1>5

LEMMA OneFloatPerSign ==
    ASSUME NEW x \in Floats, NEW y \in Floats, signbit(x) = signbit(y) PROVE x = y
BY DEF Floats, signbit

LEMMA SetPlain ==
    ASSUME NEW h, HeapOk(h), NEW o \in Objs, h.dptr[o] # Null, NEW g, NEW v
    PROVE  /\ v \in Floats /\ g = SetFloatingPoint(h, o, v) => Changed(h, g, o, "num", v)
           /\ v \in Numbers /\ g = SetComplex(h, o, v) => Changed(h, g, o, "text", v)
           /\ v \in Numbers /\ g = SetOptional(h, o, v) => Changed(h, g, o, "opt", v)
           /\ g = ClearOptional(h, o) => Changed(h, g, o, "opt", Absent)
           /\ g = ClearMessage(h, o) => Changed(h, g, o, "msg", Absent)
<1>1. PICK e : e = Payload(h, o)
  OBVIOUS
<1>2. PayloadOk(e, h.inner) /\ e \in Payloads
  BY <1>1, PayloadIsOk
<1>3. PICK s : s = Value(h, o)
  OBVIOUS
<1>4. /\ s = [num |-> s.num, text |-> s.text, opt |-> s.opt, msg |-> s.msg,
              one |-> s.one, unknown |-> s.unknown]
      /\ s.num = e.num /\ s.text = e.text /\ s.opt = e.opt
      /\ e.msg = Null => s.msg = Absent
  BY <1>1, <1>3 DEF Value, Seen
<1>5. ASSUME v \in Floats, g = SetFloatingPoint(h, o, v) PROVE Changed(h, g, o, "num", v)
  <2>1. PICK b : b = (~Same(e.num, v) \/ signbit(e.num) # signbit(v))
    OBVIOUS
  <2>2. g = Set(h, o, "num", v, b)
    BY <1>1, <1>5, <2>1, MemberIs DEF SetFloatingPoint
  <2>3. ~b => s = With(s, "num", v)
    <3>1. e.num \in Floats
      BY <1>2 DEF Payloads
    <3>2. ~b => signbit(e.num) = signbit(v)
      BY <2>1
    <3>3. signbit(e.num) = signbit(v) => e.num = v
      BY <1>5, <3>1, OneFloatPerSign
    <3> QED BY <1>4, <3>2, <3>3 DEF With
  <2>4. PICK d : d = With(e, "num", v)
    OBVIOUS
  <2>5. PayloadOk(d, h.inner) /\ d.one = e.one
    BY <1>2, <1>5, <2>4, WithPlain
  <2>6. \A u : Seen(d, h.inner, u) = With(Seen(e, h.inner, u), "num", v)
    BY <1>2, <2>4, SeenWith
  <2>7. Kind(h, o) => KindOk(d.one)
    BY <1>1, <2>5 DEF Kind
  <2> QED BY <1>1, <1>3, <2>2, <2>3, <2>4, <2>5, <2>6, <2>7, SetChanged
<1>6. ASSUME v \in Numbers, g = SetComplex(h, o, v) PROVE Changed(h, g, o, "text", v)
  <2>1. PICK b : b = (e.text # v)
    OBVIOUS
  <2>2. g = Set(h, o, "text", v, b)
    BY <1>1, <1>6, <2>1, MemberIs DEF SetComplex
  <2>3. ~b => s = With(s, "text", v)
    BY <1>4, <2>1 DEF With
  <2>4. PICK d : d = With(e, "text", v)
    OBVIOUS
  <2>5. PayloadOk(d, h.inner) /\ d.one = e.one
    BY <1>2, <1>6, <2>4, WithPlain
  <2>6. \A u : Seen(d, h.inner, u) = With(Seen(e, h.inner, u), "text", v)
    BY <1>2, <2>4, SeenWith
  <2>7. Kind(h, o) => KindOk(d.one)
    BY <1>1, <2>5 DEF Kind
  <2> QED BY <1>1, <1>3, <2>2, <2>3, <2>4, <2>5, <2>6, <2>7, SetChanged
<1>7. ASSUME NEW x \in Numbers \cup {Absent}, NEW b, g = Set(h, o, "opt", x, b), ~b => e.opt = x
      PROVE  Changed(h, g, o, "opt", x)
  <2>3. ~b => s = With(s, "opt", x)
    BY <1>4, <1>7 DEF With
  <2>4. PICK d : d = With(e, "opt", x)
    OBVIOUS
  <2>5. PayloadOk(d, h.inner) /\ d.one = e.one
    BY <1>2, <2>4, WithPlain
  <2>6. \A u : Seen(d, h.inner, u) = With(Seen(e, h.inner, u), "opt", x)
    BY <1>2, <2>4, SeenWith
  <2>7. Kind(h, o) => KindOk(d.one)
    BY <1>1, <2>5 DEF Kind
  <2> QED BY <1>1, <1>3, <1>7, <2>3, <2>4, <2>5, <2>6, <2>7, SetChanged
<1>8. ASSUME v \in Numbers, g = SetOptional(h, o, v) PROVE Changed(h, g, o, "opt", v)
  <2>1. g = Set(h, o, "opt", v, e.opt = Absent \/ e.opt # v)
    BY <1>1, <1>8, MemberIs DEF SetOptional
  <2> QED BY <1>7, <1>8, <2>1
<1>9. ASSUME g = ClearOptional(h, o) PROVE Changed(h, g, o, "opt", Absent)
  <2>1. g = Set(h, o, "opt", Absent, e.opt # Absent)
    BY <1>1, <1>9, MemberIs DEF ClearOptional
  <2> QED BY <1>7, <2>1
<1>10. ASSUME g = ClearMessage(h, o) PROVE Changed(h, g, o, "msg", Absent)
  <2>1. PICK b : b = (e.msg # Null)
    OBVIOUS
  <2>2. g = Set(h, o, "msg", Null, b)
    BY <1>1, <1>10, <2>1, MemberIs DEF ClearMessage, hasMessage
  <2>3. ~b => s = With(s, "msg", Absent)
    BY <1>4, <2>1 DEF With
  <2>4. PICK d : d = With(e, "msg", Null)
    OBVIOUS
  <2>5. PayloadOk(d, h.inner) /\ d.one = e.one
    BY <1>2, <2>4, WithPlain
  <2>6. \A u : Seen(d, h.inner, u) = With(Seen(e, h.inner, u), "msg", Absent)
    <3> TAKE u
    <3>1. Seen(With(e, "msg", Null), h.inner, u) =
              With(Seen(e, h.inner, u), "msg", IF Null = Null THEN Absent ELSE h.inner[Null])
      BY <1>2, SeenWith
    <3> QED BY <2>4, <3>1
  <2>7. Kind(h, o) => KindOk(d.one)
    BY <1>1, <2>5 DEF Kind
  <2> QED BY <1>1, <1>3, <2>2, <2>3, <2>4, <2>5, <2>6, <2>7, SetChanged
<1> QED BY <1>5, <1>6, <1>8, <1>9, <1>10
-----------------------------------------------------------------------------
(* The oneof, and the setter of a nested message.                          *)

LEMMA SetOneofChanged ==
    ASSUME NEW h, HeapOk(h), NEW o \in Objs, h.dptr[o] # Null, NEW v, NEW n, NEW w,
           \/ n = NumberField /\ v \in Numbers /\ w = v
           \/ n = MessageField /\ v \in DOMAIN h.inner /\ w = h.inner[v],
           NEW g, g = SetOneof(h, o, v, n)
    PROVE  Changed(h, g, o, "one", <<n, w>>) /\ Kind(g, o)
<1>1. PICK e, s : e = Payload(h, o) /\ s = Value(h, o)
  OBVIOUS
<1>2. PayloadOk(e, h.inner) /\ e \in Payloads
  BY <1>1, PayloadIsOk
<1>3. /\ s = [num |-> s.num, text |-> s.text, opt |-> s.opt, msg |-> s.msg,
              one |-> s.one, unknown |-> s.unknown]
      /\ s.one = SeenOne(e.one, h.inner)
  BY <1>1 DEF Value, Seen, SeenOne
<1>4. PICK one : one = [fieldNumber |-> n, type |-> TypeOfField(n), value |-> v]
  OBVIOUS
<1>5. /\ one \in Oneofs /\ KindOk(one) /\ SeenOne(one, h.inner) = <<n, w>>
      /\ one.type = "message" => one.value \in DOMAIN h.inner
  <2>1. v \in Nat
    BY DEF HeapOk, Pool, Numbers
  <2>2. CASE n = NumberField /\ w = v
    BY <1>4, <2>1, <2>2 DEF Oneofs, KindOk, SeenOne, TypeOfField, NumberField, MessageField,
                            InvalidFieldNumber
  <2>3. CASE n = MessageField /\ v \in DOMAIN h.inner /\ w = h.inner[v]
    BY <1>4, <2>1, <2>3 DEF Oneofs, KindOk, SeenOne, TypeOfField, NumberField, MessageField,
                            InvalidFieldNumber
  <2> QED BY <2>2, <2>3
<1>6. PICK b : b = ~IsEqual(h, e.one, v, n)
  OBVIOUS
<1>7. g = Set(h, o, "one", one, b)
  BY <1>1, <1>4, <1>6, MemberIs DEF SetOneof
<1>8. ASSUME ~b PROVE SeenOne(e.one, h.inner) = <<n, w>> /\ KindOk(e.one)
  <2>1. IsEqual(h, e.one, v, n)
    BY <1>6, <1>8
  <2>2. /\ e.one.fieldNumber = n /\ e.one.type = TypeOfField(n)
        /\ IF n = NumberField THEN e.one.value = v ELSE h.inner[e.one.value] = h.inner[v]
    BY <2>1 DEF IsEqual
  <2>3. CASE n = NumberField /\ w = v
    BY <2>2, <2>3 DEF KindOk, SeenOne, TypeOfField, NumberField, InvalidFieldNumber
  <2>4. CASE n = MessageField /\ w = h.inner[v]
    BY <2>2, <2>4 DEF KindOk, SeenOne, TypeOfField, NumberField, MessageField, InvalidFieldNumber
  <2> QED BY <2>3, <2>4
<1>9. ~b => s = With(s, "one", <<n, w>>)
  BY <1>3, <1>8 DEF With
<1>10. PICK d : d = With(e, "one", one)
  OBVIOUS
<1>11. d.one = one /\ d.msg = e.msg /\ d \in Payloads
  BY <1>2, <1>5, <1>10 DEF Payloads, With
<1>12. PayloadOk(d, h.inner)
  BY <1>2, <1>5, <1>11 DEF PayloadOk, Leads
<1>13. \A u : Seen(d, h.inner, u) = With(Seen(e, h.inner, u), "one", <<n, w>>)
  <2> TAKE u
  <2>1. Seen(With(e, "one", one), h.inner, u) =
            With(Seen(e, h.inner, u), "one", SeenOne(one, h.inner))
    BY <1>2, SeenWith
  <2> QED BY <1>5, <1>10, <2>1
<1>14. KindOk(d.one)
  BY <1>5, <1>11
<1>15. Changed(h, g, o, "one", <<n, w>>)
  BY <1>1, <1>7, <1>9, <1>10, <1>12, <1>13, <1>14, SetChanged
<1>16. Kind(g, o)
  <2>1. CASE ~b
    BY <1>1, <1>7, <1>8, <2>1 DEF Set, Kind
  <2>2. CASE b
    <3>1. PICK k : k = Detached(h, o)
      OBVIOUS
    <3>2. HeapOk(k) /\ Payload(k, o) = e /\ k.dptr[o] # Null
      BY <1>1, <3>1, DetachedOk DEF Quiet, Alone
    <3>3. k.dptr[o] \in DOMAIN k.data /\ HeapShape(k)
      BY <3>2 DEF HeapOk
    <3>4. g = [k EXCEPT !.data[k.dptr[o]] = d]
      <4>1. g = Put(k, o, "one", one)
        BY <1>7, <2>2, <3>1 DEF Set
      <4>2. Put(k, o, "one", one) = [k EXCEPT !.data[k.dptr[o]] = With(Payload(k, o), "one", one)]
        BY <3>3, PutIs
      <4> QED BY <1>10, <3>2, <4>1, <4>2
    <3>5. Payload(g, o) = d
      BY <3>2, <3>3, <3>4 DEF Payload, HeapShape, HeapOk, Pool
    <3> QED BY <1>14, <3>5 DEF Kind
  <2> QED BY <2>1, <2>2
<1> QED BY <1>15, <1>16

LEMMA ClearOneofChanged ==
    ASSUME NEW h, HeapOk(h), NEW o \in Objs, h.dptr[o] # Null,
           Value(h, o).one[1] = InvalidFieldNumber => Value(h, o).one = <<InvalidFieldNumber, 0>>,
           NEW g, g = ClearOneof(h, o)
    PROVE  Changed(h, g, o, "one", <<InvalidFieldNumber, 0>>)
<1>1. PICK e, s : e = Payload(h, o) /\ s = Value(h, o)
  OBVIOUS
<1>2. PayloadOk(e, h.inner) /\ e \in Payloads
  BY <1>1, PayloadIsOk
<1>3. /\ s = [num |-> s.num, text |-> s.text, opt |-> s.opt, msg |-> s.msg,
              one |-> s.one, unknown |-> s.unknown]
      /\ s.one[1] = e.one.fieldNumber
  BY <1>1 DEF Value, Seen
<1>4. PICK b : b = (e.one.fieldNumber # InvalidFieldNumber)
  OBVIOUS
<1>5. g = Set(h, o, "one", EmptyOneof, b)
  BY <1>1, <1>4, MemberIs DEF ClearOneof
<1>6. ~b => s = With(s, "one", <<InvalidFieldNumber, 0>>)
  BY <1>1, <1>3, <1>4 DEF With
<1>7. PICK d : d = With(e, "one", EmptyOneof)
  OBVIOUS
<1>8. /\ EmptyOneof \in Oneofs /\ KindOk(EmptyOneof) /\ EmptyOneof.type # "message"
      /\ SeenOne(EmptyOneof, h.inner) = <<InvalidFieldNumber, 0>>
  BY DEF EmptyOneof, Oneofs, KindOk, SeenOne, InvalidFieldNumber
<1>9. d.one = EmptyOneof /\ d.msg = e.msg /\ d \in Payloads
  BY <1>2, <1>7, <1>8 DEF Payloads, With
<1>10. PayloadOk(d, h.inner)
  BY <1>2, <1>8, <1>9 DEF PayloadOk, Leads
<1>11. \A u : Seen(d, h.inner, u) =
                  With(Seen(e, h.inner, u), "one", <<InvalidFieldNumber, 0>>)
  <2> TAKE u
  <2>1. Seen(With(e, "one", EmptyOneof), h.inner, u) =
            With(Seen(e, h.inner, u), "one", SeenOne(EmptyOneof, h.inner))
    BY <1>2, SeenWith
  <2> QED BY <1>7, <1>8, <2>1
<1>12. KindOk(d.one)
  BY <1>8, <1>9
<1> QED BY <1>1, <1>5, <1>6, <1>7, <1>10, <1>11, <1>12, SetChanged

\* A nested message that is at one place only.
LEMMA SolePlace ==
    ASSUME NEW h, HeapOk(h), NEW i, ~(Cardinality(InnerPlaces(h, i)) > 1),
           NEW x \in InnerPlaces(h, i), NEW y \in InnerPlaces(h, i)
    PROVE  x = y
<1>1. PICK S : S = InnerPlaces(h, i)
  OBVIOUS
<1>2. IsFiniteSet(S)
  <2>1. IsFiniteSet(DOMAIN h.data)
    BY DEF HeapOk, Pool
  <2>2. PICK C : C = DOMAIN h.data \cup {0}
    OBVIOUS
  <2>3. IsFiniteSet(C)
    BY <2>1, <2>2, FS_AddElement
  <2>4. PICK N : N = {"msg", "one", "arg"}
    OBVIOUS
  <2>5. IsFiniteSet(N)
    <3>1. IsFiniteSet({"msg"})
      BY FS_Singleton
    <3>2. IsFiniteSet({"msg"} \cup {"one"})
      BY <3>1, FS_AddElement
    <3>3. IsFiniteSet(({"msg"} \cup {"one"}) \cup {"arg"})
      BY <3>2, FS_AddElement
    <3>4. N = ({"msg"} \cup {"one"}) \cup {"arg"}
      BY <2>4
    <3> QED BY <3>3, <3>4
  <2>6. IsFiniteSet(C \X N)
    BY <2>3, <2>5, FS_Product
  <2>7. S \in SUBSET (C \X N)
    BY <1>1, <2>2, <2>4 DEF InnerPlaces
  <2> QED BY <2>6, <2>7, FS_Subset
<1>3. Cardinality(S) \in Nat /\ Cardinality(S) <= 1
  <2>1. Cardinality(S) \in Nat
    BY <1>2, FS_CardinalityType
  <2> QED BY <1>1, <2>1
<1>4. IsFiniteSet(S \ {x}) /\ Cardinality(S \ {x}) = Cardinality(S) - 1
  BY <1>1, <1>2, FS_RemoveElement
<1>5. Cardinality(S \ {x}) = 0
  <2>1. Cardinality(S \ {x}) \in Nat
    BY <1>4, FS_CardinalityType
  <2> QED BY <1>3, <1>4, <2>1
<1>6. S \ {x} = {}
  BY <1>4, <1>5, FS_EmptySet
<1> QED BY <1>1, <1>6

\* Where InnerSet() writes: at i if that is nobody else's, or in a new message.
InnerAt(h, i) == IF Cardinality(InnerPlaces(h, i)) > 1 THEN NewInner(h) ELSE i

WrittenAt(h, k, i, j, v, o, name) ==
    /\ Stored(h, k, j, v) /\ j \in Nat \ {Null} /\ ArgAsBefore(h, k)
    /\ \A p \in Objs \ {o} : AsBefore(h, k, p)
    /\ \A x \in DOMAIN h.inner :
           k.inner[x] = h.inner[x] \/ (x = i /\ \A y \in InnerPlaces(h, i) :
                                                   y = <<h.dptr[o], name>>)

LEMMA InnerWritten ==
    ASSUME NEW h, HeapOk(h), NEW o \in Objs, Alone(h, o), NEW i \in DOMAIN h.inner,
           NEW name \in {"msg", "one"}, <<h.dptr[o], name>> \in InnerPlaces(h, i),
           NEW j, j = InnerAt(h, i), NEW v \in Numbers,
           NEW k, k = [h EXCEPT !.inner = Placed(@, j, v)]
    PROVE  WrittenAt(h, k, i, j, v, o, name)
<1>1. CASE Cardinality(InnerPlaces(h, i)) > 1
  <2>1. j \in Nat \ {Null} /\ j \notin DOMAIN h.inner
    <3>1. j = NewInner(h)
      BY <1>1 DEF InnerAt
    <3> QED BY <3>1, NewInnerOk
  <2>2. Stored(h, k, j, v)
    BY <2>1, StoredOk
  <2>3. Quiet(h, k)
    BY <2>1, <2>2, StoredAside
  <2>4. \A x \in DOMAIN h.inner : k.inner[x] = h.inner[x]
    BY <2>1, <2>2 DEF Stored
  <2> QED BY <2>1, <2>2, <2>3, <2>4 DEF Quiet, WrittenAt
<1>2. CASE ~(Cardinality(InnerPlaces(h, i)) > 1)
  <2>1. j = i
    BY <1>2 DEF InnerAt
  <2>2. j \in Nat \ {Null}
    BY <2>1 DEF HeapOk, Pool
  <2>3. Stored(h, k, j, v)
    BY <2>2, StoredOk
  <2>4. \A y \in InnerPlaces(h, i) : y = <<h.dptr[o], name>>
    BY <1>2, SolePlace
  <2>5. ASSUME NEW p \in Objs \ {o} PROVE AsBefore(h, k, p)
    <3>1. ASSUME h.dptr[p] # Null, Leads(Payload(h, p), j) PROVE FALSE
      <4>1. PICK c : c = h.dptr[p]
        OBVIOUS
      <4>2. c \in DOMAIN h.data /\ Leads(h.data[c], i)
        BY <2>1, <3>1, <4>1 DEF HeapOk, Payload
      <4>3. <<c, "msg">> \in InnerPlaces(h, i) \/ <<c, "one">> \in InnerPlaces(h, i)
        BY <4>2 DEF InnerPlaces, Leads
      <4>4. c = h.dptr[o]
        BY <2>4, <4>3
      <4> QED BY <3>1, <4>1, <4>4 DEF Alone
    <3> QED BY <2>3, <3>1, StoredElsewhere
  <2>6. ArgAsBefore(h, k)
    <3>1. ASSUME h.arg # Null PROVE h.arg # j
      <4>1. h.arg = i => <<0, "arg">> \in InnerPlaces(h, i)
        BY DEF InnerPlaces
      <4>2. <<0, "arg">> # <<h.dptr[o], name>>
        BY DEF Alone, Null
      <4> QED BY <2>1, <2>4, <4>1, <4>2
    <3>2. h.arg # Null => h.arg \in DOMAIN h.inner
      BY DEF HeapOk
    <3> QED BY <2>3, <3>1, <3>2 DEF ArgAsBefore, Stored
  <2>7. \A x \in DOMAIN h.inner : k.inner[x] = h.inner[x] \/ x = i
    BY <2>1, <2>3 DEF Stored
  <2> QED BY <2>2, <2>3, <2>4, <2>5, <2>6, <2>7 DEF WrittenAt
<1> QED BY <1>1, <1>2

\* What is read of the other members does not depend on the one replaced.
LEMMA WithForgets ==
    ASSUME NEW e, NEW inner, NEW other, NEW u, NEW v
    PROVE  /\ (e.one.type = "message" => other[e.one.value] = inner[e.one.value]) =>
                  With(Seen(e, other, u), "msg", v) = With(Seen(e, inner, u), "msg", v)
           /\ (e.msg # Null => other[e.msg] = inner[e.msg]) =>
                  With(Seen(e, other, u), "one", v) = With(Seen(e, inner, u), "one", v)
<1>1. PICK a, b : a = Seen(e, other, u) /\ b = Seen(e, inner, u)
  OBVIOUS
<1>2. /\ a = [num |-> a.num, text |-> a.text, opt |-> a.opt, msg |-> a.msg,
              one |-> a.one, unknown |-> a.unknown]
      /\ b = [num |-> b.num, text |-> b.text, opt |-> b.opt, msg |-> b.msg,
              one |-> b.one, unknown |-> b.unknown]
  BY <1>1, SeenIsRecord
<1>3. a.num = b.num /\ a.text = b.text /\ a.opt = b.opt /\ a.unknown = b.unknown
  BY <1>1 DEF Seen
<1>4. ASSUME e.one.type = "message" => other[e.one.value] = inner[e.one.value]
      PROVE  With(a, "msg", v) = With(b, "msg", v)
  <2>1. a.one = b.one
    BY <1>1, <1>4 DEF Seen
  <2> QED BY <1>2, <1>3, <2>1 DEF With
<1>5. ASSUME e.msg # Null => other[e.msg] = inner[e.msg]
      PROVE  With(a, "one", v) = With(b, "one", v)
  <2>1. a.msg = b.msg
    BY <1>1, <1>5 DEF Seen
  <2> QED BY <1>2, <1>3, <2>1 DEF With
<1> QED BY <1>1, <1>4, <1>5

LEMMA InnerSetMessage ==
    ASSUME NEW h, HeapOk(h), NEW o \in Objs, Alone(h, o), NEW i, i = Member(h, o, "msg"),
           i # Null, NEW v \in Numbers, NEW g, g = InnerSet(h, o, "msg", i, v)
    PROVE  Changed(h, g, o, "msg", v)
<1>1. PICK e, s, c : e = Payload(h, o) /\ s = Value(h, o) /\ c = h.dptr[o]
  OBVIOUS
<1>2. PayloadOk(e, h.inner) /\ e \in Payloads /\ i = e.msg /\ c \in DOMAIN h.data /\ e = h.data[c]
  BY <1>1, PayloadIsOk, MemberIs DEF Alone, HeapOk, Payload
<1>3. i \in DOMAIN h.inner
  BY <1>2 DEF PayloadOk, Leads
<1>4. CASE h.inner[i] = v
  <2>1. g = h
    BY <1>4 DEF InnerSet
  <2>2. s = [num |-> s.num, text |-> s.text, opt |-> s.opt, msg |-> s.msg,
             one |-> s.one, unknown |-> s.unknown]
    BY <1>1, ValueIsRecord
  <2>3. s.msg = v
    BY <1>1, <1>2, <1>4 DEF Value, Seen
  <2>4. s = With(s, "msg", v)
    BY <2>2, <2>3 DEF With
  <2> QED BY <1>1, <2>1, <2>4 DEF Changed, ArgAsBefore, Keeps, Alone
<1>5. CASE h.inner[i] # v
  <2>1. PICK j : j = InnerAt(h, i)
    OBVIOUS
  <2>2. PICK k : k = [h EXCEPT !.inner = Placed(@, j, v)]
    OBVIOUS
  <2>3. g = Put(k, o, "msg", j)
    BY <1>5, <2>1, <2>2 DEF InnerSet, InnerAt
  <2>4. <<c, "msg">> \in InnerPlaces(h, i)
    BY <1>2 DEF InnerPlaces
  <2>5. /\ Stored(h, k, j, v) /\ j \in Nat \ {Null} /\ ArgAsBefore(h, k)
        /\ \A p \in Objs \ {o} : AsBefore(h, k, p)
        /\ \A x \in DOMAIN h.inner :
               k.inner[x] = h.inner[x] \/ (x = i /\ \A y \in InnerPlaces(h, i) : y = <<c, "msg">>)
    <3>1. WrittenAt(h, k, i, j, v, o, "msg")
      BY <1>1, <1>3, <2>1, <2>2, <2>4, InnerWritten
    <3> QED BY <1>1, <3>1 DEF WrittenAt
  <2>6. /\ HeapOk(k) /\ k.dptr = h.dptr /\ Payload(k, o) = e /\ Entry(k, o) = Entry(h, o)
        /\ j \in DOMAIN k.inner /\ k.inner[j] = v /\ Alone(k, o)
        /\ DOMAIN h.inner \subseteq DOMAIN k.inner
    BY <1>1, <2>5 DEF Stored, Payload, Entry, Alone
  <2>7. PICK d : d = With(e, "msg", j)
    OBVIOUS
  <2>8. d \in Payloads /\ d.msg = j /\ d.one = e.one
    BY <1>2, <2>5, <2>7 DEF With, Payloads
  <2>9. PayloadOk(d, k.inner)
    BY <1>2, <2>6, <2>8 DEF PayloadOk, Leads
  <2>10. e.one.type = "message" => k.inner[e.one.value] = h.inner[e.one.value]
    <3>1. SUFFICES ASSUME e.one.type = "message"
                   PROVE  k.inner[e.one.value] = h.inner[e.one.value]
      OBVIOUS
    <3>2. e.one.value \in DOMAIN h.inner
      BY <1>2, <3>1 DEF PayloadOk, Leads
    <3>3. e.one.value = i => <<c, "one">> \in InnerPlaces(h, i)
      BY <1>2, <3>1 DEF InnerPlaces
    <3> QED BY <2>5, <3>2, <3>3
  <2>11. PICK q : q = Put(k, o, "msg", j)
    OBVIOUS
  <2>12. Changed(k, q, o, "msg", v)
    <3>1. \A u : Seen(d, k.inner, u) = With(Seen(e, k.inner, u), "msg", v)
      <4> TAKE u
      <4>1. Seen(With(e, "msg", j), k.inner, u) =
                With(Seen(e, k.inner, u), "msg", IF j = Null THEN Absent ELSE k.inner[j])
        BY <1>2, SeenWith
      <4> QED BY <2>5, <2>6, <2>7, <4>1
    <3>2. Kind(k, o) => KindOk(d.one)
      BY <2>6, <2>8 DEF Kind
    <3> QED BY <2>6, <2>7, <2>9, <2>11, <3>1, <3>2, PutChanged
  <2>13. With(Value(k, o), "msg", v) = With(Value(h, o), "msg", v)
    BY <1>1, <2>6, <2>10, WithForgets DEF Value
  <2>14. ASSUME NEW p \in Objs \ {o} PROVE Keeps(h, g, p)
    <3>1. Keeps(h, k, p)
      BY <2>5, BeforeKeeps
    <3>2. Keeps(k, g, p)
      BY <2>3, <2>11, <2>12 DEF Changed
    <3> QED BY <3>1, <3>2, KeepsThen
  <2>15. Kind(k, o) <=> Kind(h, o)
    BY <1>1, <2>6 DEF Kind
  <2> QED BY <2>3, <2>5, <2>6, <2>11, <2>12, <2>13, <2>14, <2>15 DEF Changed, ArgAsBefore
<1> QED BY <1>4, <1>5

\* What is left of Changed() when the type in the oneof does not fit the field.
Refilled(h, g, o, v) ==
    /\ HeapOk(g) /\ ArgAsBefore(h, g) /\ Alone(g, o)
    /\ \A p \in Objs \ {o} : Keeps(h, g, p)
    /\ Member(g, o, "one").type = "message"
    /\ \E n : Value(g, o) = With(Value(h, o), "one", <<n, v>>)

LEMMA InnerSetOneof ==
    ASSUME NEW h, HeapOk(h), NEW o \in Objs, Alone(h, o), NEW one, one = Member(h, o, "one"),
           one.type = "message", NEW v \in Numbers,
           NEW g, g = InnerSet(h, o, "one", one.value, v)
    PROVE  Refilled(h, g, o, v)
<1>1. PICK e, s, c, i : e = Payload(h, o) /\ s = Value(h, o) /\ c = h.dptr[o] /\ i = one.value
  OBVIOUS
<1>2. /\ PayloadOk(e, h.inner) /\ e \in Payloads /\ one = e.one
      /\ c \in DOMAIN h.data /\ e = h.data[c]
  BY <1>1, PayloadIsOk, MemberIs DEF Alone, HeapOk, Payload
<1>3. i \in DOMAIN h.inner /\ one \in Oneofs
  BY <1>1, <1>2 DEF PayloadOk, Leads, Payloads
<1>4. PICK n : n = one.fieldNumber
  OBVIOUS
<1>5. CASE h.inner[i] = v
  <2>1. g = h
    BY <1>1, <1>5 DEF InnerSet
  <2>2. s = [num |-> s.num, text |-> s.text, opt |-> s.opt, msg |-> s.msg,
             one |-> s.one, unknown |-> s.unknown]
    BY <1>1, ValueIsRecord
  <2>3. s.one = <<n, v>>
    BY <1>1, <1>2, <1>4, <1>5 DEF Value, Seen
  <2>4. s = With(s, "one", <<n, v>>)
    BY <2>2, <2>3 DEF With
  <2> QED BY <1>1, <2>1, <2>4 DEF Refilled, ArgAsBefore, Keeps
<1>6. CASE h.inner[i] # v
  <2>1. PICK j : j = InnerAt(h, i)
    OBVIOUS
  <2>2. PICK k : k = [h EXCEPT !.inner = Placed(@, j, v)]
    OBVIOUS
  <2>3. PICK x : x = [one EXCEPT !.value = j]
    OBVIOUS
  <2>4. g = Put(k, o, "one", x)
    <3>1. InnerSet(h, o, "one", i, v) = Put(k, o, "one", [Member(h, o, "one") EXCEPT !.value = j])
      BY <1>6, <2>1, <2>2 DEF InnerSet, InnerAt
    <3> QED BY <1>1, <2>3, <3>1
  <2>5. <<c, "one">> \in InnerPlaces(h, i)
    BY <1>1, <1>2 DEF InnerPlaces
  <2>6. /\ Stored(h, k, j, v) /\ j \in Nat \ {Null} /\ ArgAsBefore(h, k)
        /\ \A p \in Objs \ {o} : AsBefore(h, k, p)
        /\ \A y \in DOMAIN h.inner :
               k.inner[y] = h.inner[y] \/ (y = i /\ \A z \in InnerPlaces(h, i) : z = <<c, "one">>)
    <3>1. WrittenAt(h, k, i, j, v, o, "one")
      BY <1>1, <1>3, <2>1, <2>2, <2>5, InnerWritten
    <3> QED BY <1>1, <3>1 DEF WrittenAt
  <2>7. /\ HeapOk(k) /\ k.dptr = h.dptr /\ Payload(k, o) = e /\ Entry(k, o) = Entry(h, o)
        /\ j \in DOMAIN k.inner /\ k.inner[j] = v /\ Alone(k, o)
        /\ DOMAIN h.inner \subseteq DOMAIN k.inner
    BY <1>1, <2>6 DEF Stored, Payload, Entry, Alone
  <2>8. PICK d : d = With(e, "one", x)
    OBVIOUS
  <2>9. /\ x \in Oneofs /\ x.type = "message" /\ x.value = j /\ x.fieldNumber = n
    BY <1>3, <1>4, <2>3, <2>6 DEF Oneofs
  <2>10. d \in Payloads /\ d.msg = e.msg /\ d.one = x
    BY <1>2, <2>8, <2>9 DEF With, Payloads
  <2>11. PayloadOk(d, k.inner)
    BY <1>2, <2>7, <2>9, <2>10 DEF PayloadOk, Leads
  <2>12. e.msg # Null => k.inner[e.msg] = h.inner[e.msg]
    <3>1. SUFFICES ASSUME e.msg # Null PROVE k.inner[e.msg] = h.inner[e.msg]
      OBVIOUS
    <3>2. e.msg \in DOMAIN h.inner
      BY <1>2, <3>1 DEF PayloadOk, Leads
    <3>3. e.msg = i => <<c, "msg">> \in InnerPlaces(h, i)
      BY <1>2, <3>1 DEF InnerPlaces
    <3> QED BY <2>6, <3>2, <3>3
  <2>13. SeenOne(x, k.inner) = <<n, v>>
    BY <2>7, <2>9 DEF SeenOne
  <2>14. /\ Wrote(k, g, c, d) /\ c \in DOMAIN k.data
    <3>1. Put(k, o, "one", x) = [k EXCEPT !.data[k.dptr[o]] = With(Payload(k, o), "one", x)]
      BY <2>7, PutIs DEF HeapOk
    <3>2. g = [k EXCEPT !.data[c] = d]
      BY <1>1, <2>4, <2>7, <2>8, <3>1
    <3>3. c \in DOMAIN k.data
      BY <1>2, <2>6 DEF Stored
    <3> QED BY <2>7, <2>11, <3>2, <3>3, WroteOk
  <2>15. Payload(g, o) = d /\ Entry(g, o) = Entry(h, o) /\ g.inner = k.inner
    BY <1>1, <2>7, <2>14 DEF Payload, Entry, Wrote
  <2>16. Value(g, o) = With(Value(h, o), "one", <<n, v>>)
    <3>1. PICK u : u = Entry(h, o)
      OBVIOUS
    <3>2. Seen(With(e, "one", x), k.inner, u) =
              With(Seen(e, k.inner, u), "one", SeenOne(x, k.inner))
      BY <1>2, SeenWith
    <3>3. Value(g, o) = With(Seen(e, k.inner, u), "one", <<n, v>>)
      BY <2>8, <2>13, <2>15, <3>1, <3>2 DEF Value
    <3>4. With(Seen(e, k.inner, u), "one", <<n, v>>) = With(Seen(e, h.inner, u), "one", <<n, v>>)
      BY <2>12, WithForgets
    <3> QED BY <1>1, <3>1, <3>3, <3>4 DEF Value
  <2>17. ASSUME NEW p \in Objs \ {o} PROVE Keeps(h, g, p)
    <3>1. h.dptr[p] # c
      BY <1>1 DEF Alone
    <3>2. AsBefore(k, g, p)
      BY <2>7, <2>14, <3>1, WroteElsewhere
    <3>3. AsBefore(h, k, p)
      BY <2>6
    <3> QED BY <3>2, <3>3, BeforeThat, BeforeKeeps
  <2>18. HeapOk(g) /\ ArgAsBefore(h, g) /\ Alone(g, o)
    BY <2>6, <2>7, <2>14 DEF Wrote, ArgAsBefore, Alone
  <2>19. Member(g, o, "one").type = "message"
    BY <2>9, <2>10, <2>15, MemberIs
  <2> QED BY <2>16, <2>17, <2>18, <2>19 DEF Refilled
<1> QED BY <1>5, <1>6
-----------------------------------------------------------------------------
(* The operations on nested messages.                                      *)

LEMMA WithTwice ==
    ASSUME NEW r, NEW name, NEW v, NEW w
    PROVE  With(With(r, name, v), name, w) = With(r, name, w)
BY DEF With

\* Setting the nested message after it was fetched.
LEMMA ChangedMessage ==
    ASSUME NEW h, NEW g, NEW o \in Objs, h.dptr[o] # Null, ArgAsBefore(h, g),
           \A p \in Objs : Keeps(h, g, p), Alone(h, o) => Alone(g, o),
           NEW q, NEW w, Changed(g, q, o, "msg", w)
    PROVE  Changed(h, q, o, "msg", w)
<1>1. ASSUME NEW p \in Objs \ {o} PROVE Keeps(h, q, p)
  <2>1. Keeps(h, g, p) /\ Keeps(g, q, p)
    BY DEF Changed
  <2> QED BY <2>1, KeepsThen
<1>2. Value(q, o) = With(Value(h, o), "msg", w)
  <2>1. \/ Value(g, o) = Value(h, o)
        \/ Value(g, o) = With(Value(h, o), "msg", 0)
    BY DEF Keeps, With
  <2>2. Value(q, o) = With(Value(g, o), "msg", w)
    BY DEF Changed
  <2> QED BY <2>1, <2>2, WithTwice
<1>3. Kind(h, o) => Kind(q, o)
  BY DEF Changed, Keeps
<1>4. HeapOk(q) /\ ArgAsBefore(h, q) /\ q.dptr[o] # Null /\ (Alone(h, o) => Alone(q, o))
  BY DEF Changed, ArgAsBefore
<1> QED BY <1>1, <1>2, <1>3, <1>4 DEF Changed

LEMMA FilledAlone ==
    ASSUME NEW h, NEW g, NEW o, Filled(h, g, o)
    PROVE  Alone(h, o) => Alone(g, o)
BY DEF Filled, Alone

\* The message of an object that has its payload for itself is fetched and set.
LEMMA FetchedAndSet ==
    ASSUME NEW h, HeapOk(h), NEW o \in Objs, Alone(h, o), NEW v \in Numbers,
           NEW g, g = get(h, o), NEW q, q = InnerSet(g, o, "msg", Member(g, o, "msg"), v)
    PROVE  Changed(h, q, o, "msg", v)
<1>1. h.dptr[o] # Null
  BY DEF Alone
<1>2. Filled(h, g, o)
  BY <1>1, GetOk
<1>3. Alone(g, o) /\ HeapOk(g) /\ Member(g, o, "msg") # Null
  BY <1>2, FilledAlone DEF Filled
<1>4. Changed(g, q, o, "msg", v)
  BY <1>3, InnerSetMessage
<1>5. ArgAsBefore(h, g) /\ \A p \in Objs : Keeps(h, g, p)
  BY <1>2 DEF Filled
<1> QED BY <1>1, <1>3, <1>4, <1>5, ChangedMessage

LEMMA MutableChanged ==
    ASSUME NEW h, HeapOk(h), NEW o \in Objs, h.dptr[o] # Null, NEW v \in Numbers,
           NEW q, q = Mutable(h, o, v)
    PROVE  Changed(h, q, o, "msg", v)
<1>1. PICK k : k = Detached(h, o)
  OBVIOUS
<1>2. Quiet(h, k) /\ Alone(k, o) /\ HeapOk(k)
  BY <1>1, DetachedOk DEF Quiet
<1>3. PICK g : g = get(k, o)
  OBVIOUS
<1>4. q = InnerSet(g, o, "msg", Member(g, o, "msg"), v)
  BY <1>1, <1>3 DEF Mutable
<1>5. Changed(k, q, o, "msg", v)
  BY <1>2, <1>3, <1>4, FetchedAndSet
<1> QED BY <1>2, <1>5, ChangedAfter

LEMMA AloneIsDetached ==
    ASSUME NEW h, NEW o \in Objs, Alone(h, o) PROVE Detached(h, o) = h
BY DEF Alone, Detached, PointsTo

LEMMA FilledMessageChanged ==
    ASSUME NEW h, HeapOk(h), NEW o \in Objs, Alone(h, o), NEW v \in Numbers,
           NEW q, q = FilledMessage(h, o, v)
    PROVE  Changed(h, q, o, "msg", v)
<1>1. PICK g : g = get(h, o)
  OBVIOUS
<1>2. PrivateGetterMessage(h, o) = g
  BY <1>1, AloneIsDetached DEF PrivateGetterMessage
<1>3. q = InnerSet(g, o, "msg", Member(g, o, "msg"), v)
  BY <1>2 DEF FilledMessage
<1> QED BY <1>1, <1>3, FetchedAndSet

\* What an operation does that also changes the message in the user's hands.
Altered(h, g, o, name, w) ==
    /\ HeapOk(g) /\ g.dptr[o] # Null
    /\ \A p \in Objs \ {o} : Keeps(h, g, p)
    /\ Kind(h, o) => Kind(g, o)
    /\ Value(g, o) = With(Value(h, o), name, w)

\* The number of a nested message; that of an absent one is 0.
NumberOf(s) == IF s.msg = Absent THEN 0 ELSE s.msg

LEMMA FilledNumber ==
    ASSUME NEW h, HeapOk(h), NEW o \in Objs, h.dptr[o] # Null, NEW g, Filled(h, g, o),
           NEW i, i = Member(g, o, "msg")
    PROVE  /\ i \in DOMAIN g.inner /\ g.inner[i] = NumberOf(Value(h, o))
           /\ i # Null /\ g.inner[i] \in Numbers
<1>1. g.dptr[o] # Null /\ HeapOk(g) /\ i # Null /\ i = Payload(g, o).msg
  BY MemberIs DEF Filled
<1>2. PayloadOk(Payload(g, o), g.inner)
  BY <1>1, PayloadIsOk
<1>3. i \in DOMAIN g.inner
  BY <1>1, <1>2 DEF PayloadOk, Leads
<1>4. g.inner[i] \in Numbers
  BY <1>1, <1>3 DEF HeapOk, Pool
<1>5. Value(g, o).msg = g.inner[i]
  BY <1>1 DEF Value, Seen
<1>6. PICK s : s = Value(h, o)
  OBVIOUS
<1>7. s = [num |-> s.num, text |-> s.text, opt |-> s.opt, msg |-> s.msg,
           one |-> s.one, unknown |-> s.unknown]
  BY <1>6, ValueIsRecord
<1>8. Value(g, o) = s \/ (s.msg = Absent /\ Value(g, o) = [s EXCEPT !.msg = 0])
  BY <1>6 DEF Filled, Keeps
<1>9. g.inner[i] = NumberOf(s)
  BY <1>4, <1>5, <1>7, <1>8 DEF NumberOf, Numbers, Absent
<1> QED BY <1>1, <1>3, <1>4, <1>6, <1>9

LEMMA SetMessageAltered ==
    ASSUME NEW h, HeapOk(h), NEW o \in Objs, h.dptr[o] # Null, h.arg # Null,
           NEW moved \in BOOLEAN, NEW q, q = SetMessage(h, o, moved)
    PROVE  /\ Altered(h, q, o, "msg", h.inner[h.arg]) /\ q.arg # Null
           /\ q.inner[q.arg] = IF moved THEN NumberOf(Value(h, o)) ELSE h.inner[h.arg]
<1>1. PICK g, i, a, w : /\ g = get(h, o) /\ i = Member(g, o, "msg")
                        /\ a = h.arg /\ w = h.inner[h.arg]
  OBVIOUS
<1>2. Filled(h, g, o)
  BY <1>1, GetOk
<1>3. /\ i \in DOMAIN g.inner /\ g.inner[i] = NumberOf(Value(h, o))
      /\ i # Null /\ g.inner[i] \in Numbers
  BY <1>1, <1>2, FilledNumber
<1>4. /\ HeapOk(g) /\ g.arg = a /\ g.inner[a] = w /\ a \in DOMAIN g.inner /\ g.dptr[o] # Null
      /\ \A p \in Objs : Keeps(h, g, p)
  BY <1>1, <1>2 DEF Filled, ArgAsBefore, HeapOk
<1>5. CASE g.inner[i] = w
  <2>1. q = g
    BY <1>1, <1>4, <1>5 DEF SetMessage
  <2>2. PICK s : s = Value(g, o)
    OBVIOUS
  <2>3. s.msg = w
    BY <1>1, <1>3, <1>5, <2>2, MemberIs DEF Value, Seen
  <2>4. s = [num |-> s.num, text |-> s.text, opt |-> s.opt, msg |-> s.msg,
             one |-> s.one, unknown |-> s.unknown]
    BY <2>2, ValueIsRecord
  <2>5. s = With(s, "msg", w)
    BY <2>3, <2>4 DEF With
  <2>6. s = Value(h, o) \/ s = With(Value(h, o), "msg", 0)
    BY <1>4, <2>2 DEF Keeps, With
  <2>7. s = With(Value(h, o), "msg", w)
    BY <2>5, <2>6, WithTwice
  <2>8. Kind(h, o) => Kind(g, o)
    BY <1>4 DEF Keeps
  <2> QED BY <1>1, <1>3, <1>4, <1>5, <2>1, <2>2, <2>7, <2>8 DEF Altered
<1>6. CASE g.inner[i] # w
  <2>1. PICK d : d = Detached(g, o)
    OBVIOUS
  <2>2. /\ Quiet(g, d) /\ HeapOk(d) /\ Alone(d, o) /\ d.inner = g.inner
        /\ Payload(d, o) = Payload(g, o) /\ d.arg = a
    BY <1>4, <2>1, DetachedOk DEF Quiet, ArgAsBefore
  <2>3. PICK r : r = Put(d, o, "msg", a)
    OBVIOUS
  <2>4. q = [r EXCEPT !.arg = IF moved THEN i ELSE @]
    <3>1. Member(d, o, "msg") = i
      BY <1>1, <2>2, MemberIs
    <3> QED BY <1>1, <1>4, <1>6, <2>1, <2>3, <3>1 DEF SetMessage
  <2>5. PICK e, x : e = Payload(d, o) /\ x = With(e, "msg", a)
    OBVIOUS
  <2>6. PayloadOk(e, d.inner) /\ e \in Payloads /\ d.dptr[o] # Null
    BY <2>2, <2>5, PayloadIsOk DEF Alone
  <2>7. x \in Payloads /\ x.msg = a /\ x.one = e.one
    BY <1>1, <2>5, <2>6 DEF With, Payloads, HeapOk
  <2>8. PayloadOk(x, d.inner)
    BY <1>4, <2>2, <2>6, <2>7 DEF PayloadOk, Leads
  <2>9. Changed(d, r, o, "msg", w)
    <3>1. \A u : Seen(x, d.inner, u) = With(Seen(e, d.inner, u), "msg", w)
      <4> TAKE u
      <4>1. Seen(With(e, "msg", a), d.inner, u) =
                With(Seen(e, d.inner, u), "msg", IF a = Null THEN Absent ELSE d.inner[a])
        BY <2>6, SeenWith
      <4>2. (IF a = Null THEN Absent ELSE d.inner[a]) = w
        BY <1>1, <1>4, <2>2
      <4> QED BY <2>5, <4>1, <4>2
    <3>2. Kind(d, o) => KindOk(x.one)
      BY <2>5, <2>7 DEF Kind
    <3> QED BY <2>2, <2>3, <2>5, <2>8, <3>1, <3>2, PutChanged
  <2>10. Changed(g, r, o, "msg", w)
    BY <1>4, <2>2, <2>9, ChangedAfter
  <2>11. Changed(h, r, o, "msg", w)
    <3>1. ArgAsBefore(h, g) /\ (Alone(h, o) => Alone(g, o))
      BY <1>2, FilledAlone DEF Filled
    <3> QED BY <1>4, <2>10, <3>1, ChangedMessage
  <2>12. HeapShape(r) /\ HeapOk(r) /\ r.inner = g.inner /\ r.arg = a
    <3>1. Put(d, o, "msg", a) = [d EXCEPT !.data[d.dptr[o]] = x]
      BY <2>2, <2>5, PutIs DEF HeapOk
    <3>2. HeapShape(d)
      BY <2>2 DEF HeapOk
    <3>3. r.inner = d.inner /\ r.arg = d.arg
      BY <2>3, <3>1, <3>2 DEF HeapShape
    <3> QED BY <2>2, <2>9, <3>3 DEF Changed, HeapOk
  <2>13. CASE ~moved
    <3>1. q = r
      BY <2>4, <2>12, <2>13 DEF HeapShape
    <3> QED BY <1>1, <1>4, <2>11, <2>12, <2>13, <3>1 DEF Altered, Changed
  <2>14. CASE moved
    <3>1. q = [r EXCEPT !.arg = i]
      BY <2>4, <2>14
    <3>2. /\ HeapShape(q) /\ q.dptr = r.dptr /\ q.base = r.base /\ q.data = r.data
          /\ q.unknown = r.unknown /\ q.inner = r.inner /\ q.arg = i
      BY <2>12, <3>1 DEF HeapShape
    <3>3. HeapOk(q)
      <4>1. i \in Nat /\ i \in DOMAIN q.inner
        BY <1>3, <1>4, <2>12, <3>2 DEF HeapOk, Pool
      <4> QED BY <2>12, <3>2, <4>1 DEF HeapOk
    <3>4. \A p : Value(q, p) = Value(r, p) /\ (Kind(q, p) <=> Kind(r, p))
      BY <3>2 DEF Value, Kind, Payload, Entry
    <3>5. Altered(h, q, o, "msg", w)
      BY <2>11, <3>2, <3>3, <3>4 DEF Altered, Changed, Keeps
    <3> QED BY <1>1, <1>3, <2>12, <2>14, <3>2, <3>5
  <2> QED BY <2>13, <2>14
<1> QED BY <1>5, <1>6

\* The message of the oneof is made, whatever the oneof holds.
LEMMA EnsuredRawValue ==
    ASSUME NEW h, HeapOk(h), NEW o \in Objs, Alone(h, o), NEW g, g = ensureRawValue(h, o)
    PROVE  /\ HeapOk(g) /\ ArgAsBefore(h, g) /\ Alone(g, o)
           /\ \A p \in Objs \ {o} : Keeps(h, g, p)
           /\ Member(g, o, "one").type = "message"
           /\ Value(g, o) = Value(h, o) \/ \E x : Value(g, o) = With(Value(h, o), "one", x)
<1>1. PICK e, c, one : e = Payload(h, o) /\ c = h.dptr[o] /\ one = Member(h, o, "one")
  OBVIOUS
<1>2. /\ PayloadOk(e, h.inner) /\ e \in Payloads /\ one = e.one
      /\ c \in DOMAIN h.data /\ e = h.data[c]
  BY <1>1, PayloadIsOk, MemberIs DEF Alone, HeapOk, Payload
<1>3. CASE one.type = "message"
  <2>1. g = h
    BY <1>1, <1>3 DEF ensureRawValue
  <2> QED BY <1>1, <1>3, <2>1 DEF ArgAsBefore, Keeps
<1>4. CASE one.type # "message"
  <2>1. PICK i, k, x : /\ i = NewInner(h) /\ k = WithInner(h, i)
                       /\ x = [one EXCEPT !.type = "message", !.value = i]
    OBVIOUS
  <2>2. i \in Nat \ {Null} /\ i \notin DOMAIN h.inner
    BY <2>1, NewInnerOk
  <2>3. Stored(h, k, i, 0)
    <3>1. k = [h EXCEPT !.inner = Placed(@, i, 0)] /\ 0 \in Numbers
      BY <2>1 DEF WithInner, Numbers
    <3> QED BY <2>2, <3>1, StoredOk
  <2>4. Quiet(h, k)
    BY <2>2, <2>3, StoredAside
  <2>5. g = Put(k, o, "one", x)
    BY <1>1, <1>4, <2>1 DEF ensureRawValue
  <2>6. PICK d : d = With(e, "one", x)
    OBVIOUS
  <2>7. /\ HeapOk(k) /\ Alone(k, o) /\ Payload(k, o) = e /\ i \in DOMAIN k.inner
        /\ DOMAIN h.inner \subseteq DOMAIN k.inner /\ c \in DOMAIN k.data /\ k.dptr = h.dptr
    BY <1>1, <1>2, <2>3 DEF Stored, Payload, Alone
  <2>8. x \in Oneofs /\ x.type = "message" /\ x.value = i
    BY <1>2, <2>1, <2>2 DEF Oneofs, Payloads
  <2>9. d \in Payloads /\ d.msg = e.msg /\ d.one = x
    BY <1>2, <2>6, <2>8 DEF With, Payloads
  <2>10. PayloadOk(d, k.inner)
    BY <1>2, <2>7, <2>8, <2>9 DEF PayloadOk, Leads
  <2>11. Wrote(k, g, c, d)
    <3>1. Put(k, o, "one", x) = [k EXCEPT !.data[k.dptr[o]] = With(Payload(k, o), "one", x)]
      BY <2>7, PutIs DEF HeapOk
    <3>2. g = [k EXCEPT !.data[c] = d]
      BY <1>1, <2>5, <2>6, <2>7, <3>1
    <3> QED BY <2>7, <2>10, <3>2, WroteOk
  <2>12. ASSUME NEW p \in Objs \ {o} PROVE Keeps(h, g, p)
    <3>1. h.dptr[p] # c
      BY <1>1 DEF Alone
    <3>2. AsBefore(k, g, p)
      BY <2>7, <2>11, <3>1, WroteElsewhere
    <3>3. AsBefore(h, k, p)
      BY <2>4 DEF Quiet
    <3> QED BY <3>2, <3>3, BeforeThat, BeforeKeeps
  <2>13. Value(g, o) = With(Value(h, o), "one", SeenOne(x, k.inner))
    <3>1. Payload(g, o) = d /\ Entry(g, o) = Entry(k, o) /\ g.inner = k.inner
      BY <1>1, <2>7, <2>11 DEF Payload, Entry, Wrote
    <3>2. Seen(With(e, "one", x), k.inner, Entry(k, o)) =
              With(Seen(e, k.inner, Entry(k, o)), "one", SeenOne(x, k.inner))
      BY <1>2, SeenWith
    <3>3. Value(g, o) = With(Value(k, o), "one", SeenOne(x, k.inner))
      BY <2>6, <2>7, <3>1, <3>2 DEF Value
    <3>4. Value(k, o) = Value(h, o)
      BY <2>4 DEF Quiet, AsBefore, Alone
    <3> QED BY <3>3, <3>4
  <2>14. HeapOk(g) /\ ArgAsBefore(h, g) /\ Alone(g, o)
    BY <2>4, <2>7, <2>11 DEF Quiet, Wrote, ArgAsBefore, Alone
  <2>15. Member(g, o, "one").type = "message"
    <3>1. Payload(g, o) = d
      BY <1>1, <2>7, <2>11 DEF Payload, Wrote
    <3> QED BY <2>8, <2>9, <3>1, MemberIs
  <2> QED BY <2>12, <2>13, <2>14, <2>15
<1> QED BY <1>3, <1>4

LEMMA FilledOneofRefilled ==
    ASSUME NEW h, HeapOk(h), NEW o \in Objs, Alone(h, o), NEW v \in Numbers,
           NEW q, q = FilledOneof(h, o, v)
    PROVE  Refilled(h, q, o, v)
<1>1. PICK g : g = ensureRawValue(h, o)
  OBVIOUS
<1>2. PrivateGetterOneofMessage(h, o) = g
  BY <1>1, AloneIsDetached DEF PrivateGetterOneofMessage
<1>3. PICK one : one = Member(g, o, "one")
  OBVIOUS
<1>4. q = InnerSet(g, o, "one", one.value, v)
  BY <1>2, <1>3 DEF FilledOneof
<1>5. /\ HeapOk(g) /\ ArgAsBefore(h, g) /\ Alone(g, o)
      /\ \A p \in Objs \ {o} : Keeps(h, g, p)
      /\ one.type = "message"
      /\ Value(g, o) = Value(h, o) \/ \E x : Value(g, o) = With(Value(h, o), "one", x)
  BY <1>1, <1>3, EnsuredRawValue
<1>6. Refilled(g, q, o, v)
  BY <1>3, <1>4, <1>5, InnerSetOneof
<1>7. ASSUME NEW p \in Objs \ {o} PROVE Keeps(h, q, p)
  <2>1. Keeps(h, g, p) /\ Keeps(g, q, p)
    BY <1>5, <1>6 DEF Refilled
  <2> QED BY <2>1, KeepsThen
<1>8. \E n : Value(q, o) = With(Value(h, o), "one", <<n, v>>)
  <2>1. PICK n : Value(q, o) = With(Value(g, o), "one", <<n, v>>)
    BY <1>6 DEF Refilled
  <2>2. Value(q, o) = With(Value(h, o), "one", <<n, v>>)
    <3>1. CASE Value(g, o) = Value(h, o)
      BY <2>1, <3>1
    <3>2. CASE \E x : Value(g, o) = With(Value(h, o), "one", x)
      <4>1. PICK x : Value(g, o) = With(Value(h, o), "one", x)
        BY <3>2
      <4> QED BY <2>1, <4>1, WithTwice
    <3> QED BY <1>5, <3>1, <3>2
  <2> QED BY <2>2
<1> QED BY <1>5, <1>6, <1>7, <1>8 DEF Refilled, ArgAsBefore

\* The message of the oneof is filled in place and stored again.
LEMMA OneofMessageStored ==
    ASSUME NEW h, HeapOk(h), NEW o \in Objs, Alone(h, o), NEW v \in Numbers,
           NEW q, q = PrivateSetterOneofMessage(FilledOneof(h, o, v), o)
    PROVE  Changed(h, q, o, "one", <<MessageField, v>>)
<1>1. PICK g : g = FilledOneof(h, o, v)
  OBVIOUS
<1>2. Refilled(h, g, o, v)
  BY <1>1, FilledOneofRefilled
<1>3. PICK e, i, s : e = Payload(g, o) /\ i = e.one.value /\ s = Value(h, o)
  OBVIOUS
<1>4. HeapOk(g) /\ Alone(g, o) /\ g.dptr[o] # Null /\ ArgAsBefore(h, g) /\ e.one.type = "message"
  BY <1>2, <1>3, MemberIs DEF Refilled, Alone
<1>5. i \in DOMAIN g.inner
  <2>1. PayloadOk(e, g.inner)
    BY <1>3, <1>4, PayloadIsOk
  <2> QED BY <1>3, <1>4, <2>1 DEF PayloadOk, Leads
<1>6. PICK n : Value(g, o) = With(s, "one", <<n, v>>)
  BY <1>2, <1>3 DEF Refilled
<1>7. g.inner[i] = v
  <2>1. s = [num |-> s.num, text |-> s.text, opt |-> s.opt, msg |-> s.msg,
             one |-> s.one, unknown |-> s.unknown]
    BY <1>3, ValueIsRecord
  <2>2. Value(g, o).one = <<n, v>>
    BY <1>6, <2>1 DEF With
  <2>3. Value(g, o).one = <<e.one.fieldNumber, g.inner[i]>>
    BY <1>3, <1>4 DEF Value, Seen
  <2> QED BY <2>2, <2>3
<1>8. q = SetOneof(g, o, i, MessageField)
  BY <1>1, <1>3, MemberIs DEF PrivateSetterOneofMessage
<1>9. Changed(g, q, o, "one", <<MessageField, v>>) /\ Kind(q, o)
  BY <1>4, <1>5, <1>7, <1>8, SetOneofChanged
<1>10. ASSUME NEW p \in Objs \ {o} PROVE Keeps(h, q, p)
  <2>1. Keeps(h, g, p) /\ Keeps(g, q, p)
    BY <1>2, <1>9 DEF Refilled, Changed
  <2> QED BY <2>1, KeepsThen
<1>11. Value(q, o) = With(Value(h, o), "one", <<MessageField, v>>)
  BY <1>3, <1>6, <1>9, WithTwice DEF Changed
<1> QED BY <1>4, <1>9, <1>10, <1>11 DEF Changed, ArgAsBefore

LEMMA StoredUnknown ==
    ASSUME NEW h, HeapOk(h), NEW o \in Objs, h.dptr[o] # Null,
           NEW g, g = storeUnknownEntry(h, o)
    PROVE  Changed(h, g, o, "unknown", 1)
<1>1. PICK b : b = IF \E p \in Objs \ {o} : h.base[p] = h.base[o] THEN NewNumber(DOMAIN h.unknown)
                   ELSE h.base[o]
  OBVIOUS
<1>2. PICK f, e : f = Placed(h.unknown, b, 1) /\ e = h.unknown
  OBVIOUS
<1>3. g = [h EXCEPT !.base[o] = b, !.unknown = f]
  BY <1>1, <1>2 DEF storeUnknownEntry
<1>4. /\ HeapShape(g) /\ g.dptr = h.dptr /\ g.base = [h.base EXCEPT ![o] = b]
      /\ g.arg = h.arg /\ g.data = h.data /\ g.unknown = f /\ g.inner = h.inner
  BY <1>3 DEF HeapOk, HeapShape
<1>5. /\ b \in Nat \ {Null}
      /\ \A p \in Objs \ {o} : h.dptr[p] # Null => h.base[p] # b
  <2>1. CASE \E p \in Objs \ {o} : h.base[p] = h.base[o]
    <3>1. IsFiniteSet(DOMAIN h.unknown) /\ b = NewNumber(DOMAIN h.unknown)
      BY <1>1, <2>1 DEF HeapOk, Pool
    <3>2. b \in Nat \ {Null} /\ b \notin DOMAIN h.unknown
      BY <3>1, NewIsNew
    <3> QED BY <3>2 DEF HeapOk
  <2>2. CASE ~\E p \in Objs \ {o} : h.base[p] = h.base[o]
    <3>1. b = h.base[o]
      BY <1>1, <2>2
    <3> QED BY <2>2, <3>1 DEF HeapOk, Pool
  <2> QED BY <2>1, <2>2
<1>6. /\ Pool(f, Numbers) /\ DOMAIN f = DOMAIN e \cup {b} /\ f[b] = 1
      /\ \A x \in DOMAIN e : x # b => f[x] = e[x]
  <2>1. Pool(e, Numbers) /\ 1 \in Numbers
    BY <1>2 DEF HeapOk, Numbers
  <2>2. Extended(f, e, Numbers, b, 1)
    BY <1>2, <1>5, <2>1, PlacedIn
  <2> QED BY <2>2 DEF Extended
<1>7. g.base \in [Objs -> Nat] /\ g.base[o] = b /\ \A p \in Objs \ {o} : g.base[p] = h.base[p]
  BY <1>4, <1>5 DEF HeapOk
<1>8. HeapOk(g)
  BY <1>2, <1>4, <1>6, <1>7 DEF HeapOk
<1>9. ASSUME NEW p \in Objs \ {o} PROVE Keeps(h, g, p)
  <2>1. CASE h.dptr[p] = Null
    BY <1>4, <2>1 DEF Keeps
  <2>2. CASE h.dptr[p] # Null
    <3>1. Payload(g, p) = Payload(h, p) /\ g.dptr[p] # Null
      BY <1>4, <2>2 DEF Payload
    <3>2. Entry(g, p) = Entry(h, p)
      BY <1>2, <1>4, <1>5, <1>6, <1>7, <2>2 DEF Entry, HeapOk
    <3> QED BY <1>4, <2>2, <3>1, <3>2, Undisturbed, BeforeKeeps
  <2> QED BY <2>1, <2>2
<1>10. Payload(g, o) = Payload(h, o) /\ Entry(g, o) = 1
  BY <1>4, <1>6, <1>7 DEF Payload, Entry
<1>11. Value(g, o) = With(Value(h, o), "unknown", 1)
  BY <1>4, <1>10 DEF Value, Seen, With
<1>12. Kind(h, o) => Kind(g, o)
  BY <1>10 DEF Kind
<1> QED BY <1>4, <1>8, <1>9, <1>11, <1>12 DEF Changed, ArgAsBefore, Alone
-----------------------------------------------------------------------------
(* Objects come and go, and the user's own nested message.                 *)

\* The objects of g point to what objects of h point to, or to nothing.
Repointed(h, g) ==
    /\ HeapShape(g) /\ g.data = h.data /\ g.unknown = h.unknown /\ g.inner = h.inner
    /\ g.arg = h.arg /\ g.dptr \in [Objs -> Nat] /\ g.base \in [Objs -> Nat]
    /\ \A p \in Objs : g.dptr[p] # Null =>
           \E q \in Objs : g.dptr[p] = h.dptr[q] /\ g.base[p] = h.base[q]

LEMMA RepointedOk ==
    ASSUME NEW h, HeapOk(h), NEW g, Repointed(h, g)
    PROVE  HeapOk(g) /\ ArgAsBefore(h, g)
<1>1. \A p \in Objs : g.dptr[p] # Null => g.dptr[p] \in DOMAIN g.data /\ g.base[p] \in DOMAIN g.unknown
  BY DEF Repointed, HeapOk
<1> QED BY <1>1 DEF Repointed, HeapOk, ArgAsBefore

\* The object p of g has what the object q of h has.
Has(h, q, g, p) ==
    /\ g.dptr[p] # Null <=> h.dptr[q] # Null
    /\ h.dptr[q] # Null => Value(g, p) = Value(h, q) /\ (Kind(g, p) <=> Kind(h, q))

LEMMA HasIt ==
    ASSUME NEW h, NEW g, Repointed(h, g), NEW p, NEW q,
           g.dptr[p] = h.dptr[q], g.base[p] = h.base[q]
    PROVE  Has(h, q, g, p)
<1>1. Payload(g, p) = Payload(h, q) /\ Entry(g, p) = Entry(h, q) /\ g.inner = h.inner
  BY DEF Repointed, Payload, Entry
<1> QED BY <1>1 DEF Has, Value, Kind

LEMMA HasBefore ==
    ASSUME NEW h, NEW g, NEW p, Has(h, p, g, p) PROVE AsBefore(h, g, p)
BY DEF Has, AsBefore

LEMMA DestroyedOk ==
    ASSUME NEW h, HeapOk(h), NEW o \in Objs, NEW g,
           g = [h EXCEPT !.dptr[o] = Null, !.base[o] = Null]
    PROVE  /\ HeapOk(g) /\ ArgAsBefore(h, g) /\ g.dptr[o] = Null
           /\ \A p \in Objs \ {o} : AsBefore(h, g, p)
<1>1. /\ HeapShape(g) /\ g.data = h.data /\ g.unknown = h.unknown /\ g.inner = h.inner
      /\ g.arg = h.arg /\ g.dptr = [h.dptr EXCEPT ![o] = Null]
      /\ g.base = [h.base EXCEPT ![o] = Null]
  BY DEF HeapOk, HeapShape
<1>2. /\ g.dptr \in [Objs -> Nat] /\ g.base \in [Objs -> Nat] /\ g.dptr[o] = Null
      /\ \A p \in Objs \ {o} : g.dptr[p] = h.dptr[p] /\ g.base[p] = h.base[p]
  BY <1>1 DEF HeapOk, Null
<1>3. Repointed(h, g)
  BY <1>1, <1>2 DEF Repointed
<1>4. \A p \in Objs \ {o} : AsBefore(h, g, p)
  BY <1>2, <1>3, HasIt, HasBefore
<1> QED BY <1>2, <1>3, <1>4, RepointedOk

LEMMA CopiedOk ==
    ASSUME NEW h, HeapOk(h), NEW o \in Objs, NEW q \in Objs, NEW g, g = Copied(h, o, q)
    PROVE  /\ HeapOk(g) /\ ArgAsBefore(h, g) /\ Has(h, q, g, o)
           /\ \A p \in Objs \ {o} : AsBefore(h, g, p)
<1>1. /\ HeapShape(g) /\ g.data = h.data /\ g.unknown = h.unknown /\ g.inner = h.inner
      /\ g.arg = h.arg /\ g.dptr = [h.dptr EXCEPT ![o] = h.dptr[q]]
      /\ g.base = [h.base EXCEPT ![o] = h.base[q]]
  BY DEF HeapOk, HeapShape, Copied
<1>2. /\ g.dptr \in [Objs -> Nat] /\ g.base \in [Objs -> Nat]
      /\ g.dptr[o] = h.dptr[q] /\ g.base[o] = h.base[q]
      /\ \A p \in Objs \ {o} : g.dptr[p] = h.dptr[p] /\ g.base[p] = h.base[p]
  BY <1>1 DEF HeapOk
<1>3. Repointed(h, g)
  BY <1>1, <1>2 DEF Repointed
<1>4. \A p \in Objs \ {o} : AsBefore(h, g, p)
  BY <1>2, <1>3, HasIt, HasBefore
<1>5. Has(h, q, g, o)
  BY <1>2, <1>3, HasIt
<1> QED BY <1>3, <1>4, <1>5, RepointedOk

LEMMA SwappedOk ==
    ASSUME NEW h, HeapOk(h), NEW o \in Objs, NEW q \in Objs \ {o}, NEW g, g = Swapped(h, o, q)
    PROVE  /\ HeapOk(g) /\ ArgAsBefore(h, g) /\ Has(h, q, g, o) /\ Has(h, o, g, q)
           /\ \A p \in Objs \ {o, q} : AsBefore(h, g, p)
<1>1. /\ HeapShape(g) /\ g.data = h.data /\ g.unknown = h.unknown /\ g.inner = h.inner
      /\ g.arg = h.arg /\ g.dptr = [h.dptr EXCEPT ![o] = h.dptr[q], ![q] = h.dptr[o]]
      /\ g.base = [h.base EXCEPT ![o] = h.base[q], ![q] = h.base[o]]
  BY DEF HeapOk, HeapShape, Swapped
<1>2. /\ g.dptr \in [Objs -> Nat] /\ g.base \in [Objs -> Nat]
      /\ g.dptr[o] = h.dptr[q] /\ g.base[o] = h.base[q]
      /\ g.dptr[q] = h.dptr[o] /\ g.base[q] = h.base[o]
      /\ \A p \in Objs \ {o, q} : g.dptr[p] = h.dptr[p] /\ g.base[p] = h.base[p]
  BY <1>1 DEF HeapOk
<1>3. Repointed(h, g)
  BY <1>1, <1>2 DEF Repointed
<1>4. \A p \in Objs \ {o, q} : AsBefore(h, g, p)
  BY <1>2, <1>3, HasIt, HasBefore
<1>5. Has(h, q, g, o) /\ Has(h, o, g, q)
  BY <1>2, <1>3, HasIt
<1> QED BY <1>3, <1>4, <1>5, RepointedOk

LEMMA NewOk ==
    ASSUME NEW h, HeapOk(h), NEW o \in Objs, NEW g, g = New(h, o)
    PROVE  /\ HeapOk(g) /\ ArgAsBefore(h, g) /\ Alone(g, o)
           /\ Value(g, o) = DefaultValue /\ Kind(g, o)
           /\ \A p \in Objs \ {o} : AsBefore(h, g, p)
<1>1. PICK c, b, e, m : /\ c = NewNumber(DOMAIN h.data) /\ b = NewNumber(DOMAIN h.unknown)
                        /\ e = h.data /\ m = h.unknown
  OBVIOUS
<1>2. PICK f, u : f = Placed(e, c, NewData) /\ u = Placed(m, b, 0)
  OBVIOUS
<1>3. g = [h EXCEPT !.dptr[o] = c, !.data = f, !.base[o] = b, !.unknown = u]
  BY <1>1, <1>2 DEF New
<1>4. /\ HeapShape(g) /\ g.dptr = [h.dptr EXCEPT ![o] = c] /\ g.base = [h.base EXCEPT ![o] = b]
      /\ g.arg = h.arg /\ g.data = f /\ g.unknown = u /\ g.inner = h.inner
  BY <1>3 DEF HeapOk, HeapShape
<1>5. Pool(e, Payloads) /\ Pool(m, Numbers)
  BY <1>1 DEF HeapOk
<1>6. c \in Nat \ {Null} /\ c \notin DOMAIN e /\ b \in Nat \ {Null} /\ b \notin DOMAIN m
  <2>1. IsFiniteSet(DOMAIN e) /\ IsFiniteSet(DOMAIN m)
    BY <1>5 DEF Pool
  <2>2. c \in Nat \ {Null} /\ c \notin DOMAIN e
    BY <1>1, <2>1, NewIsNew
  <2>3. b \in Nat \ {Null} /\ b \notin DOMAIN m
    BY <1>1, <2>1, NewIsNew
  <2> QED BY <2>2, <2>3
<1>7. NewData \in Payloads /\ (\A i : ~Leads(NewData, i)) /\ 0 \in Numbers
  BY DEF NewData, Payloads, Oneofs, EmptyOneof, Leads, Floats, Numbers, Null, Absent,
         InvalidFieldNumber, NumberField, MessageField
<1>8. /\ Pool(f, Payloads) /\ DOMAIN f = DOMAIN e \cup {c} /\ f[c] = NewData
      /\ \A x \in DOMAIN e : x # c => f[x] = e[x]
  <2>1. Extended(f, e, Payloads, c, NewData)
    BY <1>2, <1>5, <1>6, <1>7, PlacedIn
  <2> QED BY <2>1 DEF Extended
<1>9. /\ Pool(u, Numbers) /\ DOMAIN u = DOMAIN m \cup {b} /\ u[b] = 0
      /\ \A x \in DOMAIN m : x # b => u[x] = m[x]
  <2>1. Extended(u, m, Numbers, b, 0)
    BY <1>2, <1>5, <1>6, <1>7, PlacedIn
  <2> QED BY <2>1 DEF Extended
<1>10. /\ g.dptr \in [Objs -> Nat] /\ g.base \in [Objs -> Nat] /\ g.dptr[o] = c /\ g.base[o] = b
       /\ \A p \in Objs \ {o} : g.dptr[p] = h.dptr[p] /\ g.base[p] = h.base[p]
  BY <1>4, <1>6 DEF HeapOk
<1>11. \A x \in DOMAIN g.data : PayloadOk(g.data[x], g.inner)
  BY <1>1, <1>4, <1>7, <1>8 DEF HeapOk, PayloadOk
<1>12. ASSUME NEW p \in Objs, g.dptr[p] # Null
       PROVE  g.dptr[p] \in DOMAIN g.data /\ g.base[p] \in DOMAIN g.unknown
  <2>1. CASE p = o
    BY <1>4, <1>8, <1>9, <1>10, <2>1
  <2>2. CASE p # o
    BY <1>1, <1>4, <1>8, <1>9, <1>10, <1>12, <2>2 DEF HeapOk
  <2> QED BY <2>1, <2>2
<1>13. HeapOk(g)
  BY <1>4, <1>8, <1>9, <1>10, <1>11, <1>12 DEF HeapOk
<1>14. Alone(g, o)
  BY <1>1, <1>6, <1>10 DEF Alone, HeapOk
<1>15. Payload(g, o) = NewData /\ Entry(g, o) = 0
  BY <1>4, <1>8, <1>9, <1>10 DEF Payload, Entry
<1>16. Value(g, o) = DefaultValue
  BY <1>15 DEF Value, Seen, NewData, EmptyOneof, DefaultValue
<1>17. Kind(g, o)
  BY <1>15 DEF Kind, KindOk, NewData, EmptyOneof
<1>18. ASSUME NEW p \in Objs \ {o} PROVE AsBefore(h, g, p)
  <2>1. CASE h.dptr[p] = Null
    BY <1>10, <2>1 DEF AsBefore
  <2>2. CASE h.dptr[p] # Null
    <3>1. h.dptr[p] \in DOMAIN e /\ h.base[p] \in DOMAIN m
      BY <1>1, <2>2 DEF HeapOk
    <3>2. Payload(g, p) = Payload(h, p) /\ Entry(g, p) = Entry(h, p) /\ g.dptr[p] # Null
      BY <1>1, <1>4, <1>6, <1>8, <1>9, <1>10, <2>2, <3>1 DEF Payload, Entry
    <3> QED BY <1>4, <2>2, <3>2, Undisturbed
  <2> QED BY <2>1, <2>2
<1> QED BY <1>4, <1>13, <1>14, <1>16, <1>17, <1>18 DEF ArgAsBefore

\* The user's nested message is another one, or none.
WithArg(h, g, a) ==
    /\ HeapOk(g) /\ g.arg = a /\ g.inner = h.inner /\ g.dptr = h.dptr
    /\ \A p : AsBefore(h, g, p)

LEMMA ArgOk ==
    ASSUME NEW h, HeapOk(h), NEW a, a = Null \/ a \in DOMAIN h.inner,
           NEW g, g = [h EXCEPT !.arg = a]
    PROVE  WithArg(h, g, a)
<1>1. /\ HeapShape(g) /\ g.dptr = h.dptr /\ g.base = h.base /\ g.data = h.data
      /\ g.unknown = h.unknown /\ g.inner = h.inner /\ g.arg = a
  BY DEF HeapOk, HeapShape
<1>2. a \in Nat
  BY DEF HeapOk, Pool, Null
<1>3. HeapOk(g)
  BY <1>1, <1>2 DEF HeapOk
<1>4. \A p : Value(g, p) = Value(h, p) /\ (Kind(g, p) <=> Kind(h, p))
  BY <1>1 DEF Value, Kind, Payload, Entry
<1> QED BY <1>1, <1>3, <1>4 DEF AsBefore, WithArg

LEMMA SetOneofMessageAltered ==
    ASSUME NEW h, HeapOk(h), NEW o \in Objs, h.dptr[o] # Null, h.arg # Null,
           NEW moved \in BOOLEAN, NEW q, q = SetOneofMessage(h, o, moved),
           NEW w, w = <<MessageField, h.inner[h.arg]>>
    PROVE  /\ Altered(h, q, o, "one", w)
           /\ q.arg # Null => /\ q.inner[q.arg] = h.inner[h.arg]
                              /\ ~moved \/ Value(h, o).one = w
<1>1. PICK g : g = SetOneof(h, o, h.arg, MessageField)
  OBVIOUS
<1>2. h.arg \in DOMAIN h.inner
  BY DEF HeapOk
<1>3. Changed(h, g, o, "one", w)
  BY <1>1, <1>2, SetOneofChanged
<1>4. HeapOk(g) /\ ArgAsBefore(h, g) /\ Altered(h, g, o, "one", w)
  BY <1>3 DEF Changed, Altered
<1>5. CASE moved /\ g # h
  <2>1. q = [g EXCEPT !.arg = Null]
    BY <1>1, <1>5 DEF SetOneofMessage
  <2>2. HeapOk(q) /\ q.arg = Null /\ q.dptr = g.dptr /\ \A p : AsBefore(g, q, p)
    BY <1>4, <2>1, ArgOk DEF WithArg
  <2>3. ASSUME NEW p \in Objs \ {o} PROVE Keeps(h, q, p)
    <3>1. Keeps(h, g, p) /\ Keeps(g, q, p)
      BY <1>4, <2>2, BeforeKeeps DEF Altered
    <3> QED BY <3>1, KeepsThen
  <2>4. Value(q, o) = Value(g, o) /\ (Kind(q, o) <=> Kind(g, o)) /\ q.dptr[o] # Null
    BY <1>4, <2>2 DEF Altered, AsBefore
  <2> QED BY <1>4, <2>2, <2>3, <2>4 DEF Altered
<1>6. CASE ~(moved /\ g # h)
  <2>1. q = g
    BY <1>1, <1>6 DEF SetOneofMessage
  <2>2. ASSUME moved PROVE Value(h, o).one = w
    <3>1. PICK s : s = Value(h, o)
      OBVIOUS
    <3>2. s = With(s, "one", w)
      BY <1>4, <1>6, <2>2, <3>1 DEF Altered
    <3>3. s = [num |-> s.num, text |-> s.text, opt |-> s.opt, msg |-> s.msg,
               one |-> s.one, unknown |-> s.unknown]
      BY <3>1, ValueIsRecord
    <3>4. With(s, "one", w).one = w
      BY <3>3 DEF With
    <3> QED BY <3>1, <3>2, <3>4
  <2> QED BY <1>4, <2>1, <2>2 DEF ArgAsBefore
<1> QED BY <1>5, <1>6

\* The const getter, read or copied from, and operator==.
LEMMA CopiedOut ==
    ASSUME NEW h, HeapOk(h), NEW o \in Objs, h.dptr[o] # Null, NEW g, g = get(h, o),
           NEW q, q = [g EXCEPT !.arg = Member(g, o, "msg")]
    PROVE  /\ HeapOk(q) /\ q.inner[q.arg] = NumberOf(Value(h, o))
           /\ \A p \in Objs : Keeps(h, q, p)
<1>1. PICK i : i = Member(g, o, "msg")
  OBVIOUS
<1>2. Filled(h, g, o)
  BY GetOk
<1>3. i \in DOMAIN g.inner /\ g.inner[i] = NumberOf(Value(h, o))
  BY <1>1, <1>2, FilledNumber
<1>4. HeapOk(g) /\ q = [g EXCEPT !.arg = i]
  BY <1>1, <1>2 DEF Filled
<1>5. HeapOk(q) /\ q.arg = i /\ q.inner = g.inner /\ \A p : AsBefore(g, q, p)
  <2>1. WithArg(g, q, i)
    BY <1>3, <1>4, ArgOk
  <2> QED BY <2>1 DEF WithArg
<1>6. ASSUME NEW p \in Objs PROVE Keeps(h, q, p)
  <2>1. Keeps(h, g, p) /\ Keeps(g, q, p)
    BY <1>2, <1>5, BeforeKeeps DEF Filled
  <2> QED BY <2>1, KeepsThen
<1> QED BY <1>3, <1>5, <1>6

LEMMA FetchedOk ==
    ASSUME NEW h, HeapOk(h), NEW o \in Objs, h.dptr[o] # Null, NEW p \in Objs, h.dptr[p] # Null,
           NEW q, q = Fetched(h, o, p)
    PROVE  HeapOk(q) /\ ArgAsBefore(h, q) /\ \A x \in Objs : Keeps(h, q, x)
<1>1. CASE hasMessage(h, o) = hasMessage(h, p)
  BY <1>1 DEF Fetched, ArgAsBefore, Keeps
<1>2. CASE hasMessage(h, o) # hasMessage(h, p)
  <2>1. PICK g : g = get(h, o)
    OBVIOUS
  <2>2. q = get(g, p)
    BY <1>2, <2>1 DEF Fetched
  <2>3. Filled(h, g, o)
    BY <2>1, GetOk
  <2>4. HeapOk(g) /\ g.dptr[p] # Null
    BY <2>3 DEF Filled
  <2>5. Filled(g, q, p)
    BY <2>2, <2>4, GetOk
  <2>6. ASSUME NEW x \in Objs PROVE Keeps(h, q, x)
    <3>1. Keeps(h, g, x) /\ Keeps(g, q, x)
      BY <2>3, <2>5 DEF Filled
    <3> QED BY <3>1, KeepsThen
  <2> QED BY <2>3, <2>5, <2>6 DEF Filled, ArgAsBefore
<1> QED BY <1>1, <1>2

\* The user sets the nested message it has, or another one if that is shared.
ArgTarget(h) ==
    IF h.arg # Null /\ Cardinality(InnerPlaces(h, h.arg)) = 1 THEN h.arg ELSE NewInner(h)

ArgHas(h, q, v) ==
    HeapOk(q) /\ q.inner[q.arg] = v /\ \A p \in Objs : AsBefore(h, q, p)

LEMMA ArgSet ==
    ASSUME NEW h, HeapOk(h), NEW v \in Numbers, NEW i, i = ArgTarget(h),
           NEW q, q = [h EXCEPT !.arg = i, !.inner = Placed(@, i, v)]
    PROVE  ArgHas(h, q, v)
<1>1. PICK k : k = [h EXCEPT !.inner = Placed(@, i, v)]
  OBVIOUS
<1>2. q = [k EXCEPT !.arg = i]
  BY <1>1 DEF HeapOk, HeapShape
<1>3. /\ i \in Nat \ {Null} /\ \A p \in Objs : h.dptr[p] # Null => ~Leads(Payload(h, p), i)
  <2>1. CASE h.arg # Null /\ Cardinality(InnerPlaces(h, h.arg)) = 1
    <3>1. i = h.arg /\ i \in DOMAIN h.inner /\ <<0, "arg">> \in InnerPlaces(h, i)
      BY <2>1 DEF HeapOk, InnerPlaces, ArgTarget
    <3>2. ASSUME NEW p \in Objs, h.dptr[p] # Null, Leads(Payload(h, p), i) PROVE FALSE
      <4>1. PICK c : c = h.dptr[p]
        OBVIOUS
      <4>2. c \in DOMAIN h.data /\ Leads(h.data[c], i)
        BY <3>2, <4>1 DEF HeapOk, Payload
      <4>3. <<c, "msg">> \in InnerPlaces(h, i) \/ <<c, "one">> \in InnerPlaces(h, i)
        BY <4>2 DEF InnerPlaces, Leads
      <4>4. ~(Cardinality(InnerPlaces(h, i)) > 1)
        BY <2>1, <3>1
      <4>5. c = 0
        <5>1. \A x \in InnerPlaces(h, i) : x = <<0, "arg">>
          BY <3>1, <4>4, SolePlace
        <5> QED BY <4>3, <5>1
      <4> QED BY <3>2, <4>1, <4>5 DEF Null
    <3>3. i \in Nat \ {Null}
      BY <3>1 DEF HeapOk, Pool
    <3> QED BY <3>2, <3>3
  <2>2. CASE ~(h.arg # Null /\ Cardinality(InnerPlaces(h, h.arg)) = 1)
    <3>1. i = NewInner(h)
      BY <2>2 DEF ArgTarget
    <3>2. i \in Nat \ {Null} /\ i \notin DOMAIN h.inner
      BY <3>1, NewInnerOk
    <3> QED BY <3>2 DEF HeapOk, PayloadOk, Payload
  <2> QED BY <2>1, <2>2
<1>4. Stored(h, k, i, v)
  BY <1>1, <1>3, StoredOk
<1>5. \A p \in Objs : AsBefore(h, k, p)
  BY <1>3, <1>4, StoredElsewhere
<1>6. HeapOk(k) /\ i \in DOMAIN k.inner /\ k.inner[i] = v
  BY <1>4 DEF Stored
<1>7. HeapOk(q) /\ q.arg = i /\ q.inner = k.inner /\ \A p : AsBefore(k, q, p)
  <2>1. WithArg(k, q, i)
    BY <1>2, <1>6, ArgOk
  <2> QED BY <2>1 DEF WithArg
<1>8. \A p \in Objs : AsBefore(h, q, p)
  BY <1>5, <1>7, BeforeThat
<1> QED BY <1>6, <1>7, <1>8 DEF ArgHas
-----------------------------------------------------------------------------
(* The inductive invariant.                                                *)

\* An object has the value v, or has an empty message where v has none.
Shows(h, o, v) ==
    Kind(h, o) /\ (Value(h, o) = v \/ (v.msg = Absent /\ Value(h, o) = With(v, "msg", 0)))

OneofValues ==
    {<<InvalidFieldNumber, 0>>} \cup ({NumberField, MessageField} \X Numbers)

ValueType ==
    [num : Floats, text : Numbers, opt : Numbers \cup {Absent}, msg : Numbers \cup {Absent},
     one : OneofValues, unknown : Numbers]

\* The history has a value for each object, and the object shows it; the one
\* that is being read has its payload for itself.
ObjectsOk(h, v, r, a) ==
    /\ HeapOk(h)
    /\ v \in [Objs -> ValueType \cup {Unspecified}]
    /\ \A o \in Objs : h.dptr[o] # Null /\ v[o] # Unspecified => Shows(h, o, v[o])
    /\ h.arg # Null => h.inner[h.arg] = a
    /\ r # NoObj => r \in Objs /\ v[r] # Unspecified /\ Alone(h, r)

ObjectsInv == ObjectsOk(heap, val, reading, argVal)

LEMMA SpecifiedOnes ==
    ASSUME NEW v \in ValueType
    PROVE  /\ v # Unspecified
           /\ v = [num |-> v.num, text |-> v.text, opt |-> v.opt, msg |-> v.msg,
                   one |-> v.one, unknown |-> v.unknown]
BY DEF ValueType, Unspecified, DefaultValue, Numbers, Absent

LEMMA KeepsShows ==
    ASSUME NEW h, NEW g, NEW p, Keeps(h, g, p), h.dptr[p] # Null, NEW v \in ValueType,
           Shows(h, p, v)
    PROVE  Shows(g, p, v)
<1>1. PICK x, y : x = Value(h, p) /\ y = Value(g, p)
  OBVIOUS
<1>2. y = x \/ (x.msg = Absent /\ y = With(x, "msg", 0))
  BY <1>1 DEF Keeps, With
<1>3. x = v \/ (v.msg = Absent /\ x = With(v, "msg", 0))
  BY <1>1 DEF Shows
<1>4. With(With(v, "msg", 0), "msg", 0) = With(v, "msg", 0)
  BY WithTwice
<1>5. y = v \/ (v.msg = Absent /\ y = With(v, "msg", 0))
  BY <1>2, <1>3, <1>4
<1> QED BY <1>1, <1>5 DEF Keeps, Shows

\* What is no longer pointed to is not missed.
LEMMA CollectedGood ==
    ASSUME NEW h, NEW v, NEW r, NEW a, ObjectsOk(h, v, r, a), NEW q, q = Collected(h)
    PROVE  ObjectsOk(q, v, r, a)
<1>1. /\ HeapOk(q) /\ q.dptr = h.dptr /\ q.arg = h.arg
      /\ \A p \in Objs : AsBefore(h, q, p)
      /\ h.arg # Null => q.inner[h.arg] = h.inner[h.arg]
  BY CollectedOk DEF ObjectsOk
<1>2. ASSUME NEW o \in Objs, q.dptr[o] # Null, v[o] # Unspecified PROVE Shows(q, o, v[o])
  <2>1. v[o] \in ValueType /\ Shows(h, o, v[o]) /\ Keeps(h, q, o) /\ h.dptr[o] # Null
    BY <1>1, <1>2, BeforeKeeps DEF ObjectsOk
  <2> QED BY <2>1, KeepsShows
<1> QED BY <1>1, <1>2 DEF ObjectsOk, Alone

Fits(name, w) ==
    \/ name = "num" /\ w \in Floats
    \/ name = "text" /\ w \in Numbers
    \/ name = "opt" /\ w \in Numbers \cup {Absent}
    \/ name = "msg" /\ w \in Numbers \cup {Absent}
    \/ name = "one" /\ w \in OneofValues
    \/ name = "unknown" /\ w \in Numbers

LEMMA WithFits ==
    ASSUME NEW v \in ValueType, NEW name, NEW w, Fits(name, w)
    PROVE  With(v, name, w) \in ValueType
BY DEF Fits, With, ValueType

LEMMA WithCommutes ==
    ASSUME NEW v \in ValueType, NEW name, NEW w, Fits(name, w)
    PROVE  \/ name = "msg"
           \/ /\ With(With(v, "msg", 0), name, w) = With(With(v, name, w), "msg", 0)
              /\ With(v, name, w).msg = v.msg
BY DEF Fits, With, ValueType

LEMMA AlteredShows ==
    ASSUME NEW h, NEW g, NEW o, NEW v \in ValueType, Shows(h, o, v), NEW name, NEW w,
           Fits(name, w), Altered(h, g, o, name, w)
    PROVE  Shows(g, o, With(v, name, w))
<1>1. PICK x, y : x = Value(h, o) /\ y = Value(g, o)
  OBVIOUS
<1>2. x = v \/ (v.msg = Absent /\ x = With(v, "msg", 0))
  BY <1>1 DEF Shows
<1>3. y = With(x, name, w) /\ Kind(g, o)
  BY <1>1 DEF Altered, Shows
<1>4. CASE x = v
  BY <1>1, <1>3, <1>4 DEF Shows
<1>5. CASE v.msg = Absent /\ x = With(v, "msg", 0)
  <2>1. CASE name = "msg"
    <3>1. With(With(v, "msg", 0), "msg", w) = With(v, "msg", w)
      BY WithTwice
    <3> QED BY <1>1, <1>3, <1>5, <2>1, <3>1 DEF Shows
  <2>2. CASE name # "msg"
    <3>1. /\ With(With(v, "msg", 0), name, w) = With(With(v, name, w), "msg", 0)
          /\ With(v, name, w).msg = v.msg
      BY <2>2, WithCommutes
    <3> QED BY <1>1, <1>3, <1>5, <3>1 DEF Shows
  <2> QED BY <2>1, <2>2
<1> QED BY <1>2, <1>4, <1>5

\* A member of one object is written, and nothing else is seen to change.
LEMMA AlteredGood ==
    ASSUME NEW h, NEW v, NEW r, NEW a, ObjectsOk(h, v, r, a), NEW o \in Objs, h.dptr[o] # Null,
           v[o] # Unspecified, NEW name, NEW w, Fits(name, w),
           NEW g, Altered(h, g, o, name, w), NEW b, g.arg # Null => g.inner[g.arg] = b,
           NEW n, n = [v EXCEPT ![o] = With(v[o], name, w)], r # NoObj => r = o /\ Alone(g, o)
    PROVE  ObjectsOk(g, n, r, b)
<1>1. v[o] \in ValueType /\ Shows(h, o, v[o])
  BY DEF ObjectsOk
<1>2. With(v[o], name, w) \in ValueType
  BY <1>1, WithFits
<1>3. Shows(g, o, With(v[o], name, w))
  BY <1>1, AlteredShows
<1>4. /\ n \in [Objs -> ValueType \cup {Unspecified}] /\ n[o] = With(v[o], name, w)
      /\ \A p \in Objs \ {o} : n[p] = v[p]
  BY <1>2 DEF ObjectsOk
<1>5. ASSUME NEW p \in Objs, g.dptr[p] # Null, n[p] # Unspecified PROVE Shows(g, p, n[p])
  <2>1. CASE p = o
    BY <1>3, <1>4, <2>1
  <2>2. CASE p # o
    <3>1. Keeps(h, g, p) /\ h.dptr[p] # Null /\ n[p] = v[p]
      BY <1>4, <1>5, <2>2 DEF Altered, Keeps
    <3>2. v[p] \in ValueType /\ Shows(h, p, v[p])
      BY <1>5, <3>1 DEF ObjectsOk
    <3> QED BY <3>1, <3>2, KeepsShows
  <2> QED BY <2>1, <2>2
<1>6. n[o] # Unspecified
  BY <1>2, <1>4, SpecifiedOnes
<1> QED BY <1>4, <1>5, <1>6 DEF ObjectsOk, Altered

LEMMA ChangedGood ==
    ASSUME NEW h, NEW v, NEW r, NEW a, ObjectsOk(h, v, r, a), NEW o \in Objs, h.dptr[o] # Null,
           v[o] # Unspecified, NEW name, NEW w, Fits(name, w),
           NEW g, Changed(h, g, o, name, w),
           NEW n, n = [v EXCEPT ![o] = With(v[o], name, w)], r = NoObj \/ r = o
    PROVE  ObjectsOk(g, n, r, a)
<1>1. Altered(h, g, o, name, w)
  BY DEF Changed, Altered
<1>2. g.arg # Null => g.inner[g.arg] = a
  BY DEF Changed, ArgAsBefore, ObjectsOk
<1>3. r # NoObj => r = o /\ Alone(g, o)
  BY DEF Changed, ObjectsOk
<1> QED BY <1>1, <1>2, <1>3, AlteredGood

\* Nothing is seen to change.
LEMMA KeptGood ==
    ASSUME NEW h, NEW v, NEW r, NEW a, ObjectsOk(h, v, r, a), r = NoObj, NEW g, HeapOk(g),
           \A p \in Objs : Keeps(h, g, p), NEW b, g.arg # Null => g.inner[g.arg] = b
    PROVE  ObjectsOk(g, v, r, b)
<1>1. ASSUME NEW p \in Objs, g.dptr[p] # Null, v[p] # Unspecified PROVE Shows(g, p, v[p])
  <2>1. Keeps(h, g, p) /\ h.dptr[p] # Null
    BY <1>1 DEF Keeps
  <2>2. v[p] \in ValueType /\ Shows(h, p, v[p])
    BY <1>1, <2>1 DEF ObjectsOk
  <2> QED BY <2>1, <2>2, KeepsShows
<1> QED BY <1>1 DEF ObjectsOk

\* One object is made, made again, or goes: nothing is seen to change elsewhere.
LEMMA RenewedGood ==
    ASSUME NEW h, NEW v, NEW a, ObjectsOk(h, v, NoObj, a), NEW o \in Objs, NEW g, HeapOk(g),
           ArgAsBefore(h, g), \A p \in Objs \ {o} : Keeps(h, g, p),
           NEW x \in ValueType \cup {Unspecified},
           g.dptr[o] # Null /\ x # Unspecified => Shows(g, o, x),
           NEW n, n = [v EXCEPT ![o] = x], NEW r, r # NoObj => r = o /\ Alone(g, o) /\ x # Unspecified
    PROVE  ObjectsOk(g, n, r, a)
<1>1. /\ n \in [Objs -> ValueType \cup {Unspecified}] /\ n[o] = x
      /\ \A p \in Objs \ {o} : n[p] = v[p]
  BY DEF ObjectsOk
<1>2. ASSUME NEW p \in Objs, g.dptr[p] # Null, n[p] # Unspecified PROVE Shows(g, p, n[p])
  <2>1. CASE p = o
    BY <1>1, <1>2, <2>1
  <2>2. CASE p # o
    <3>1. Keeps(h, g, p) /\ h.dptr[p] # Null /\ n[p] = v[p]
      BY <1>1, <1>2, <2>2 DEF Keeps
    <3>2. v[p] \in ValueType /\ Shows(h, p, v[p])
      BY <1>2, <3>1 DEF ObjectsOk
    <3> QED BY <3>1, <3>2, KeepsShows
  <2> QED BY <2>1, <2>2
<1>3. g.arg # Null => g.inner[g.arg] = a
  BY DEF ObjectsOk, ArgAsBefore
<1> QED BY <1>1, <1>2, <1>3 DEF ObjectsOk

LEMMA DefaultShown ==
    /\ DefaultValue \in ValueType
    /\ \A h, o : Value(h, o) = DefaultValue /\ Kind(h, o) => Shows(h, o, DefaultValue)
BY DEF DefaultValue, ValueType, Shows, Floats, Numbers, Absent, OneofValues
-----------------------------------------------------------------------------
(* The steps.                                                              *)

LEMMA ChangesIs ==
    ASSUME NEW o, NEW name, NEW w, Changes(o, name, w)
    PROVE  /\ val' = [val EXCEPT ![o] = With(val[o], name, w)]
           /\ reading' = reading /\ argVal' = argVal
BY DEF Changes, With

LEMMA MemberWritten ==
    ASSUME ObjectsInv, NEW o \in Objs, heap.dptr[o] # Null, val[o] # Unspecified,
           reading = NoObj \/ reading = o, NEW name, NEW w, Fits(name, w),
           NEW g, Changed(heap, g, o, name, w), Becomes(g), Changes(o, name, w)
    PROVE  ObjectsInv'
<1>1. PICK n : n = [val EXCEPT ![o] = With(val[o], name, w)]
  OBVIOUS
<1>2. ObjectsOk(g, n, reading, argVal)
  BY <1>1, ChangedGood DEF ObjectsInv
<1>3. val' = n /\ reading' = reading /\ argVal' = argVal /\ heap' = Collected(g)
  BY <1>1, ChangesIs DEF Becomes
<1>4. ObjectsOk(heap', n, reading, argVal)
  BY <1>2, <1>3, CollectedGood
<1> QED BY <1>3, <1>4 DEF ObjectsInv

LEMMA AccessedIs ==
    ASSUME NEW o, NEW name, Accessed(o, name)
    PROVE  heap.dptr[o] # Null /\ val[o] # Unspecified /\ reading = NoObj
BY DEF Accessed, Exists, Idle

LEMMA UserSetsStep ==
    ASSUME ObjectsInv, NEW o \in Objs, UserSets(o) PROVE ObjectsInv'
<1>1. HeapOk(heap)
  BY DEF ObjectsInv, ObjectsOk
<1>2. heap.dptr[o] # Null /\ val[o] # Unspecified /\ reading = NoObj
  BY AccessedIs DEF UserSets
<1>3. ASSUME NEW v \in Floats, Becomes(SetFloatingPoint(heap, o, v)), Changes(o, "num", v)
      PROVE  ObjectsInv'
  <2>1. PICK g : g = SetFloatingPoint(heap, o, v)
    OBVIOUS
  <2>2. Changed(heap, g, o, "num", v)
    BY <1>1, <1>2, <2>1, SetPlain
  <2>3. Fits("num", v) /\ Becomes(g)
    BY <1>3, <2>1 DEF Fits
  <2> QED BY <1>2, <1>3, <2>2, <2>3, MemberWritten
<1>4. ASSUME NEW v \in Numbers, Becomes(SetComplex(heap, o, v)), Changes(o, "text", v)
      PROVE  ObjectsInv'
  <2>1. PICK g : g = SetComplex(heap, o, v)
    OBVIOUS
  <2>2. Changed(heap, g, o, "text", v)
    BY <1>1, <1>2, <2>1, SetPlain
  <2>3. Fits("text", v) /\ Becomes(g)
    BY <1>4, <2>1 DEF Fits
  <2> QED BY <1>2, <1>4, <2>2, <2>3, MemberWritten
<1>5. ASSUME NEW v \in Numbers, Becomes(SetOptional(heap, o, v)), Changes(o, "opt", v)
      PROVE  ObjectsInv'
  <2>1. PICK g : g = SetOptional(heap, o, v)
    OBVIOUS
  <2>2. Changed(heap, g, o, "opt", v)
    BY <1>1, <1>2, <2>1, SetPlain
  <2>3. Fits("opt", v) /\ Becomes(g)
    BY <1>5, <2>1 DEF Fits
  <2> QED BY <1>2, <1>5, <2>2, <2>3, MemberWritten
<1>6. ASSUME NEW v \in Numbers, Becomes(SetOneof(heap, o, v, NumberField)),
             Changes(o, "one", <<NumberField, v>>)
      PROVE  ObjectsInv'
  <2>1. PICK g, w : g = SetOneof(heap, o, v, NumberField) /\ w = <<NumberField, v>>
    OBVIOUS
  <2>2. Changed(heap, g, o, "one", w)
    BY <1>1, <1>2, <2>1, SetOneofChanged
  <2>3. Fits("one", w) /\ Becomes(g) /\ Changes(o, "one", w)
    BY <1>6, <2>1 DEF Fits, OneofValues
  <2> QED BY <1>2, <2>2, <2>3, MemberWritten
<1>7. ASSUME NEW v \in Numbers, Becomes(Mutable(heap, o, v)), Changes(o, "msg", v)
      PROVE  ObjectsInv'
  <2>1. PICK g : g = Mutable(heap, o, v)
    OBVIOUS
  <2>2. Changed(heap, g, o, "msg", v)
    BY <1>1, <1>2, <2>1, MutableChanged
  <2>3. Fits("msg", v) /\ Becomes(g)
    BY <1>7, <2>1 DEF Fits
  <2> QED BY <1>2, <1>7, <2>2, <2>3, MemberWritten
<1> QED BY <1>3, <1>4, <1>5, <1>6, <1>7 DEF UserSets

LEMMA UserClearsStep ==
    ASSUME ObjectsInv, NEW o \in Objs, UserClears(o) PROVE ObjectsInv'
<1>1. HeapOk(heap)
  BY DEF ObjectsInv, ObjectsOk
<1>2. heap.dptr[o] # Null /\ val[o] # Unspecified /\ reading = NoObj
  BY AccessedIs DEF UserClears
<1>3. ASSUME Becomes(ClearOptional(heap, o)), Changes(o, "opt", Absent) PROVE ObjectsInv'
  <2>1. PICK g : g = ClearOptional(heap, o)
    OBVIOUS
  <2>2. Changed(heap, g, o, "opt", Absent)
    BY <1>1, <1>2, <2>1, SetPlain
  <2>3. Fits("opt", Absent) /\ Becomes(g)
    BY <1>3, <2>1 DEF Fits
  <2> QED BY <1>2, <1>3, <2>2, <2>3, MemberWritten
<1>4. ASSUME Becomes(ClearMessage(heap, o)), Changes(o, "msg", Absent) PROVE ObjectsInv'
  <2>1. PICK g : g = ClearMessage(heap, o)
    OBVIOUS
  <2>2. Changed(heap, g, o, "msg", Absent)
    BY <1>1, <1>2, <2>1, SetPlain
  <2>3. Fits("msg", Absent) /\ Becomes(g)
    BY <1>4, <2>1 DEF Fits
  <2> QED BY <1>2, <1>4, <2>2, <2>3, MemberWritten
<1>5. ASSUME Becomes(ClearOneof(heap, o)), Changes(o, "one", DefaultValue.one) PROVE ObjectsInv'
  <2>1. PICK g, w : g = ClearOneof(heap, o) /\ w = <<InvalidFieldNumber, 0>>
    OBVIOUS
  <2>2. PICK x, y : x = val[o] /\ y = Value(heap, o)
    OBVIOUS
  <2>3. x \in ValueType /\ Shows(heap, o, x)
    BY <1>2, <2>2 DEF ObjectsInv, ObjectsOk
  <2>4. y.one = x.one
    <3>1. y = x \/ y = With(x, "msg", 0)
      BY <2>2, <2>3 DEF Shows
    <3>2. With(x, "msg", 0).one = x.one
      BY <2>3 DEF ValueType, With
    <3> QED BY <3>1, <3>2
  <2>5. y.one[1] = InvalidFieldNumber => y.one = w
    BY <2>1, <2>3, <2>4 DEF ValueType, OneofValues, InvalidFieldNumber, NumberField, MessageField
  <2>6. Changed(heap, g, o, "one", w)
    BY <1>1, <1>2, <2>1, <2>2, <2>5, ClearOneofChanged
  <2>7. Fits("one", w) /\ Becomes(g) /\ Changes(o, "one", w)
    BY <1>5, <2>1 DEF Fits, OneofValues, DefaultValue
  <2> QED BY <1>2, <2>6, <2>7, MemberWritten
<1> QED BY <1>3, <1>4, <1>5 DEF UserClears

LEMMA ParseFieldStep ==
    ASSUME ObjectsInv, ParseField PROVE ObjectsInv'
<1>1. PICK o : o = reading
  OBVIOUS
<1>2. reading # NoObj
  BY DEF ParseField, Field, Idle
<1>3. /\ HeapOk(heap) /\ o \in Objs /\ val[o] # Unspecified /\ Alone(heap, o)
      /\ heap.dptr[o] # Null /\ reading = o
  BY <1>1, <1>2 DEF ObjectsInv, ObjectsOk, Alone
<1>4. ASSUME NEW v \in Floats, Becomes(SetFloatingPoint(heap, o, v)), Changes(o, "num", v)
      PROVE  ObjectsInv'
  <2>1. PICK g : g = SetFloatingPoint(heap, o, v)
    OBVIOUS
  <2>2. Changed(heap, g, o, "num", v)
    BY <1>3, <2>1, SetPlain
  <2>3. Fits("num", v) /\ Becomes(g)
    BY <1>4, <2>1 DEF Fits
  <2> QED BY <1>3, <1>4, <2>2, <2>3, MemberWritten
<1>5. ASSUME NEW v \in Numbers, Becomes(SetOptional(heap, o, v)), Changes(o, "opt", v)
      PROVE  ObjectsInv'
  <2>1. PICK g : g = SetOptional(heap, o, v)
    OBVIOUS
  <2>2. Changed(heap, g, o, "opt", v)
    BY <1>3, <2>1, SetPlain
  <2>3. Fits("opt", v) /\ Becomes(g)
    BY <1>5, <2>1 DEF Fits
  <2> QED BY <1>3, <1>5, <2>2, <2>3, MemberWritten
<1>6. ASSUME NEW v \in Numbers, Becomes(FilledMessage(heap, o, v)), Changes(o, "msg", v)
      PROVE  ObjectsInv'
  <2>1. PICK g : g = FilledMessage(heap, o, v)
    OBVIOUS
  <2>2. Changed(heap, g, o, "msg", v)
    BY <1>3, <2>1, FilledMessageChanged
  <2>3. Fits("msg", v) /\ Becomes(g)
    BY <1>6, <2>1 DEF Fits
  <2> QED BY <1>3, <1>6, <2>2, <2>3, MemberWritten
<1>7. ASSUME NEW v \in Numbers, Becomes(SetOneof(heap, o, v, NumberField)),
             Changes(o, "one", <<NumberField, v>>)
      PROVE  ObjectsInv'
  <2>1. PICK g, w : g = SetOneof(heap, o, v, NumberField) /\ w = <<NumberField, v>>
    OBVIOUS
  <2>2. Changed(heap, g, o, "one", w)
    BY <1>3, <2>1, SetOneofChanged
  <2>3. Fits("one", w) /\ Becomes(g) /\ Changes(o, "one", w)
    BY <1>7, <2>1 DEF Fits, OneofValues
  <2> QED BY <1>3, <2>2, <2>3, MemberWritten
<1>8. ASSUME NEW v \in Numbers,
             Becomes(PrivateSetterOneofMessage(FilledOneof(heap, o, v), o)),
             Changes(o, "one", <<MessageField, v>>)
      PROVE  ObjectsInv'
  <2>1. PICK g, w : /\ g = PrivateSetterOneofMessage(FilledOneof(heap, o, v), o)
                    /\ w = <<MessageField, v>>
    OBVIOUS
  <2>2. Changed(heap, g, o, "one", w)
    BY <1>3, <2>1, OneofMessageStored
  <2>3. Fits("one", w) /\ Becomes(g) /\ Changes(o, "one", w)
    BY <1>8, <2>1 DEF Fits, OneofValues
  <2> QED BY <1>3, <2>2, <2>3, MemberWritten
<1>9. ASSUME Becomes(storeUnknownEntry(heap, o)), Changes(o, "unknown", 1) PROVE ObjectsInv'
  <2>1. PICK g : g = storeUnknownEntry(heap, o)
    OBVIOUS
  <2>2. Changed(heap, g, o, "unknown", 1)
    BY <1>3, <2>1, StoredUnknown
  <2>3. Fits("unknown", 1) /\ Becomes(g)
    BY <1>9, <2>1 DEF Fits, Numbers
  <2> QED BY <1>3, <1>9, <2>2, <2>3, MemberWritten
<1> QED BY <1>1, <1>4, <1>5, <1>6, <1>7, <1>8, <1>9 DEF ParseField

\* No object is being read.
LEMMA NobodyReads ==
    ASSUME ObjectsInv PROVE ObjectsOk(heap, val, NoObj, argVal)
BY DEF ObjectsInv, ObjectsOk

LEMMA AllKept ==
    ASSUME NEW h, NEW g, NEW o, \A p \in Objs \ {o} : AsBefore(h, g, p)
    PROVE  \A p \in Objs \ {o} : Keeps(h, g, p)
BY BeforeKeeps

\* From what is known of the heap before what nobody points to goes.
LEMMA Collecting ==
    ASSUME NEW g, NEW n, NEW r, NEW a, ObjectsOk(g, n, r, a), Becomes(g),
           val' = n, reading' = r, argVal' = a
    PROVE  ObjectsInv'
<1>1. heap' = Collected(g)
  BY DEF Becomes
<1>2. ObjectsOk(heap', n, r, a)
  BY <1>1, CollectedGood
<1> QED BY <1>2 DEF ObjectsInv

LEMMA ConstructStep ==
    ASSUME ObjectsInv, NEW o \in Objs, Construct(o) \/ Deserialize(o) PROVE ObjectsInv'
<1>1. HeapOk(heap)
  BY DEF ObjectsInv, ObjectsOk
<1>2. PICK g, n, r : /\ g = New(heap, o) /\ n = [val EXCEPT ![o] = DefaultValue]
                     /\ r = IF Construct(o) THEN NoObj ELSE o
  OBVIOUS
<1>3. /\ HeapOk(g) /\ ArgAsBefore(heap, g) /\ Alone(g, o)
      /\ Value(g, o) = DefaultValue /\ Kind(g, o)
      /\ \A p \in Objs \ {o} : AsBefore(heap, g, p)
  BY <1>1, <1>2, NewOk
<1>4. /\ Becomes(g) /\ val' = n /\ argVal' = argVal
      /\ reading' = NoObj \/ reading' = o
  BY <1>2 DEF Construct, Deserialize, Idle
<1>5. \A p \in Objs \ {o} : Keeps(heap, g, p)
  BY <1>3, AllKept
<1>6. Shows(g, o, DefaultValue) /\ DefaultValue \in ValueType /\ DefaultValue # Unspecified
  BY <1>3, DefaultShown, SpecifiedOnes
<1>7. ASSUME NEW x, x = NoObj \/ x = o PROVE ObjectsOk(g, n, x, argVal)
  BY <1>2, <1>3, <1>5, <1>6, <1>7, NobodyReads, RenewedGood
<1>8. ObjectsOk(g, n, reading', argVal)
  BY <1>4, <1>7
<1> QED BY <1>4, <1>8, Collecting

LEMMA DestroyStep ==
    ASSUME ObjectsInv, NEW o \in Objs, Destroy(o) PROVE ObjectsInv'
<1>1. HeapOk(heap)
  BY DEF ObjectsInv, ObjectsOk
<1>2. PICK g, n : /\ g = [heap EXCEPT !.dptr[o] = Null, !.base[o] = Null]
                  /\ n = [val EXCEPT ![o] = DefaultValue]
  OBVIOUS
<1>3. /\ HeapOk(g) /\ ArgAsBefore(heap, g) /\ g.dptr[o] = Null
      /\ \A p \in Objs \ {o} : AsBefore(heap, g, p)
  BY <1>1, <1>2, DestroyedOk
<1>4. Becomes(g) /\ val' = n /\ argVal' = argVal /\ reading' = NoObj
  BY <1>2 DEF Destroy, Idle
<1>5. \A p \in Objs \ {o} : Keeps(heap, g, p)
  BY <1>3, AllKept
<1>6. ObjectsOk(g, n, NoObj, argVal)
  BY <1>2, <1>3, <1>5, NobodyReads, RenewedGood, DefaultShown
<1> QED BY <1>4, <1>6, Collecting

LEMMA CopyStep ==
    ASSUME ObjectsInv, NEW o \in Objs, NEW q \in Objs, Copy(o, q) PROVE ObjectsInv'
<1>1. HeapOk(heap) /\ val[q] \in ValueType \cup {Unspecified}
  BY DEF ObjectsInv, ObjectsOk
<1>2. PICK g, n, x : g = Copied(heap, o, q) /\ n = [val EXCEPT ![o] = x] /\ x = val[q]
  OBVIOUS
<1>3. /\ HeapOk(g) /\ ArgAsBefore(heap, g) /\ Has(heap, q, g, o)
      /\ \A p \in Objs \ {o} : AsBefore(heap, g, p)
  BY <1>1, <1>2, CopiedOk
<1>4. Becomes(g) /\ val' = n /\ argVal' = argVal /\ reading' = NoObj
  BY <1>2 DEF Copy, Idle
<1>5. \A p \in Objs \ {o} : Keeps(heap, g, p)
  BY <1>3, AllKept
<1>6. g.dptr[o] # Null /\ x # Unspecified => Shows(g, o, x)
  BY <1>2, <1>3 DEF Has, Shows, ObjectsInv, ObjectsOk
<1>7. ObjectsOk(g, n, NoObj, argVal)
  BY <1>1, <1>2, <1>3, <1>5, <1>6, NobodyReads, RenewedGood
<1> QED BY <1>4, <1>7, Collecting

LEMMA SwapStep ==
    ASSUME ObjectsInv, NEW o \in Objs, NEW q \in Objs, Swap(o, q) PROVE ObjectsInv'
<1>1. HeapOk(heap) /\ q \in Objs \ {o}
  BY DEF ObjectsInv, ObjectsOk, Swap
<1>2. PICK g, n : g = Swapped(heap, o, q) /\ n = [val EXCEPT ![o] = val[q], ![q] = val[o]]
  OBVIOUS
<1>3. /\ HeapOk(g) /\ ArgAsBefore(heap, g) /\ Has(heap, q, g, o) /\ Has(heap, o, g, q)
      /\ \A p \in Objs \ {o, q} : AsBefore(heap, g, p)
  BY <1>1, <1>2, SwappedOk
<1>4. Becomes(g) /\ val' = n /\ argVal' = argVal /\ reading' = NoObj
  BY <1>2 DEF Swap, Idle
<1>5. /\ n \in [Objs -> ValueType \cup {Unspecified}] /\ n[o] = val[q] /\ n[q] = val[o]
      /\ \A p \in Objs \ {o, q} : n[p] = val[p]
  BY <1>1, <1>2 DEF ObjectsInv, ObjectsOk
<1>6. ASSUME NEW p \in Objs, g.dptr[p] # Null, n[p] # Unspecified PROVE Shows(g, p, n[p])
  <2>1. PICK x \in Objs : Has(heap, x, g, p) /\ n[p] = val[x]
    <3>1. p \in Objs \ {o, q} => Has(heap, p, g, p)
      BY <1>3 DEF Has, AsBefore
    <3>2. CASE p = o
      BY <1>3, <1>5, <3>2
    <3>3. CASE p = q
      BY <1>3, <1>5, <3>3
    <3>4. CASE p \notin {o, q}
      BY <1>5, <3>1, <3>4
    <3> QED BY <3>2, <3>3, <3>4
  <2> QED BY <1>6, <2>1 DEF Has, Shows, ObjectsInv, ObjectsOk
<1>7. g.arg # Null => g.inner[g.arg] = argVal
  BY <1>3 DEF ArgAsBefore, ObjectsInv, ObjectsOk
<1>8. ObjectsOk(g, n, NoObj, argVal)
  BY <1>3, <1>5, <1>6, <1>7 DEF ObjectsOk
<1> QED BY <1>4, <1>8, Collecting

\* The number of the nested message is the one in the history.
LEMMA ShownNumber ==
    ASSUME NEW h, NEW o, NEW v \in ValueType, Shows(h, o, v)
    PROVE  NumberOf(Value(h, o)) = NumberOf(v)
<1>1. CASE Value(h, o) = v
  BY <1>1
<1>2. CASE v.msg = Absent /\ Value(h, o) = With(v, "msg", 0)
  <2>1. With(v, "msg", 0).msg = 0
    BY DEF ValueType, With
  <2> QED BY <1>2, <2>1 DEF NumberOf, Absent
<1> QED BY <1>1, <1>2 DEF Shows

LEMMA ReadMessageStep ==
    ASSUME ObjectsInv, NEW o \in Objs, ReadMessage(o) PROVE ObjectsInv'
<1>1. HeapOk(heap) /\ heap.dptr[o] # Null /\ reading = NoObj
  BY AccessedIs DEF ObjectsInv, ObjectsOk, ReadMessage
<1>2. PICK g : g = get(heap, o)
  OBVIOUS
<1>3. Filled(heap, g, o)
  BY <1>1, <1>2, GetOk
<1>4. HeapOk(g) /\ (\A p \in Objs : Keeps(heap, g, p)) /\ ArgAsBefore(heap, g)
  BY <1>3 DEF Filled
<1>5. g.arg # Null => g.inner[g.arg] = argVal
  BY <1>4 DEF ArgAsBefore, ObjectsInv, ObjectsOk
<1>6. ObjectsOk(g, val, NoObj, argVal)
  BY <1>4, <1>5, NobodyReads, KeptGood
<1>7. Becomes(g) /\ val' = val /\ reading' = NoObj /\ argVal' = argVal
  BY <1>1, <1>2 DEF ReadMessage
<1> QED BY <1>6, <1>7, Collecting

LEMMA CompareStep ==
    ASSUME ObjectsInv, NEW o \in Objs, NEW q \in Objs, Compare(o, q) PROVE ObjectsInv'
<1>1. HeapOk(heap) /\ heap.dptr[o] # Null /\ heap.dptr[q] # Null /\ reading = NoObj
  BY AccessedIs DEF ObjectsInv, ObjectsOk, Compare
<1>2. PICK g : g = Fetched(heap, o, q)
  OBVIOUS
<1>3. HeapOk(g) /\ ArgAsBefore(heap, g) /\ \A p \in Objs : Keeps(heap, g, p)
  BY <1>1, <1>2, FetchedOk
<1>4. g.arg # Null => g.inner[g.arg] = argVal
  BY <1>3 DEF ArgAsBefore, ObjectsInv, ObjectsOk
<1>5. ObjectsOk(g, val, NoObj, argVal)
  BY <1>3, <1>4, NobodyReads, KeptGood
<1>6. Becomes(g) /\ val' = val /\ reading' = NoObj /\ argVal' = argVal
  BY <1>1, <1>2 DEF Compare
<1> QED BY <1>5, <1>6, Collecting

LEMMA CopyOutStep ==
    ASSUME ObjectsInv, NEW o \in Objs, CopyOut(o) PROVE ObjectsInv'
<1>1. /\ HeapOk(heap) /\ heap.dptr[o] # Null /\ reading = NoObj
      /\ val[o] # Unspecified
  BY AccessedIs DEF ObjectsInv, ObjectsOk, CopyOut
<1>2. PICK h, g, b : /\ h = get(heap, o) /\ g = [h EXCEPT !.arg = Member(h, o, "msg")]
                     /\ b = NumberOf(val[o])
  OBVIOUS
<1>3. /\ HeapOk(g) /\ g.inner[g.arg] = NumberOf(Value(heap, o))
      /\ \A p \in Objs : Keeps(heap, g, p)
  BY <1>1, <1>2, CopiedOut
<1>4. NumberOf(Value(heap, o)) = b
  BY <1>1, <1>2, ShownNumber DEF ObjectsInv, ObjectsOk
<1>5. ObjectsOk(g, val, NoObj, b)
  BY <1>3, <1>4, NobodyReads, KeptGood
<1>6. Becomes(g) /\ val' = val /\ reading' = NoObj /\ argVal' = b
  BY <1>1, <1>2 DEF CopyOut, NumberOf
<1> QED BY <1>5, <1>6, Collecting

LEMMA SetArgStep ==
    ASSUME ObjectsInv, NEW v \in Numbers, SetArg(v) PROVE ObjectsInv'
<1>1. HeapOk(heap) /\ reading = NoObj
  BY DEF ObjectsInv, ObjectsOk, SetArg, Idle
<1>2. PICK i : i = ArgTarget(heap)
  OBVIOUS
<1>3. PICK g : g = [heap EXCEPT !.arg = i, !.inner = Placed(@, i, v)]
  OBVIOUS
<1>4. HeapOk(g) /\ g.inner[g.arg] = v /\ \A p \in Objs : AsBefore(heap, g, p)
  <2>1. ArgHas(heap, g, v)
    BY <1>1, <1>2, <1>3, ArgSet
  <2> QED BY <2>1 DEF ArgHas
<1>5. \A p \in Objs : Keeps(heap, g, p)
  BY <1>4, BeforeKeeps
<1>6. ObjectsOk(g, val, NoObj, v)
  BY <1>4, <1>5, NobodyReads, KeptGood
<1>7. Becomes(g) /\ val' = val /\ reading' = NoObj /\ argVal' = v
  BY <1>1, <1>2, <1>3 DEF SetArg, ArgTarget
<1> QED BY <1>6, <1>7, Collecting

LEMMA ArgIsNumber ==
    ASSUME ObjectsInv, heap.arg # Null
    PROVE  heap.inner[heap.arg] = argVal /\ argVal \in Numbers
BY DEF ObjectsInv, ObjectsOk, HeapOk, Pool

LEMMA PassMessageStep ==
    ASSUME ObjectsInv, NEW o \in Objs, NEW moved \in BOOLEAN, PassMessage(o, moved)
    PROVE  ObjectsInv'
<1>1. /\ HeapOk(heap) /\ heap.dptr[o] # Null /\ reading = NoObj /\ val[o] # Unspecified
      /\ heap.arg # Null /\ val[o] \in ValueType /\ Shows(heap, o, val[o])
  BY AccessedIs DEF ObjectsInv, ObjectsOk, PassMessage
<1>2. heap.inner[heap.arg] = argVal /\ argVal \in Numbers
  BY <1>1, ArgIsNumber
<1>3. PICK g, b, n : /\ g = SetMessage(heap, o, moved)
                     /\ b = IF moved THEN NumberOf(val[o]) ELSE argVal
                     /\ n = [val EXCEPT ![o] = With(val[o], "msg", argVal)]
  OBVIOUS
<1>4. /\ Altered(heap, g, o, "msg", heap.inner[heap.arg]) /\ g.arg # Null
      /\ g.inner[g.arg] = IF moved THEN NumberOf(Value(heap, o)) ELSE heap.inner[heap.arg]
  BY <1>1, <1>3, SetMessageAltered
<1>5. Altered(heap, g, o, "msg", argVal) /\ g.inner[g.arg] = b
  BY <1>1, <1>2, <1>3, <1>4, ShownNumber
<1>6. Fits("msg", argVal)
  BY <1>2 DEF Fits
<1>7. ObjectsOk(g, n, NoObj, b)
  BY <1>1, <1>3, <1>5, <1>6, NobodyReads, AlteredGood
<1>8. Becomes(g) /\ val' = n /\ reading' = NoObj
  BY <1>1, <1>3 DEF PassMessage, With
<1>9. argVal' = b
  BY <1>2, <1>3 DEF PassMessage, NumberOf, Numbers, Absent
<1> QED BY <1>7, <1>8, <1>9, Collecting

LEMMA PassOneofMessageStep ==
    ASSUME ObjectsInv, NEW o \in Objs, NEW moved \in BOOLEAN, PassOneofMessage(o, moved)
    PROVE  ObjectsInv'
<1>1. /\ HeapOk(heap) /\ heap.dptr[o] # Null /\ reading = NoObj /\ val[o] # Unspecified
      /\ heap.arg # Null /\ val[o] \in ValueType /\ Shows(heap, o, val[o])
  BY AccessedIs DEF ObjectsInv, ObjectsOk, PassOneofMessage
<1>2. heap.inner[heap.arg] = argVal /\ argVal \in Numbers
  BY <1>1, ArgIsNumber
<1>3. PICK g, w, b, n : /\ g = SetOneofMessage(heap, o, moved) /\ w = <<MessageField, argVal>>
                        /\ b = IF moved /\ val[o].one # w THEN Absent ELSE argVal
                        /\ n = [val EXCEPT ![o] = With(val[o], "one", w)]
  OBVIOUS
<1>4. /\ Altered(heap, g, o, "one", w)
      /\ g.arg # Null => g.inner[g.arg] = argVal /\ (~moved \/ Value(heap, o).one = w)
  BY <1>1, <1>2, <1>3, SetOneofMessageAltered
<1>5. Value(heap, o).one = val[o].one
  <2>1. PICK x : x = val[o] /\ x \in ValueType
    BY <1>1
  <2>2. Value(heap, o) = x \/ Value(heap, o) = With(x, "msg", 0)
    BY <1>1, <2>1 DEF Shows
  <2>3. With(x, "msg", 0).one = x.one
    BY <2>1 DEF ValueType, With
  <2> QED BY <2>1, <2>2, <2>3
<1>6. g.arg # Null => g.inner[g.arg] = b
  BY <1>3, <1>4, <1>5
<1>7. Fits("one", w)
  BY <1>2, <1>3 DEF Fits, OneofValues
<1>8. ObjectsOk(g, n, NoObj, b)
  BY <1>1, <1>3, <1>4, <1>6, <1>7, NobodyReads, AlteredGood
<1>9. Becomes(g) /\ val' = n /\ reading' = NoObj /\ argVal' = b
  BY <1>1, <1>3 DEF PassOneofMessage, With
<1> QED BY <1>8, <1>9, Collecting

LEMMA ParseFailsStep ==
    ASSUME ObjectsInv, ParseFails PROVE ObjectsInv'
<1>1. PICK o, n : o = reading /\ n = [val EXCEPT ![o] = Unspecified]
  OBVIOUS
<1>2. HeapOk(heap) /\ o \in Objs /\ Alone(heap, o)
  BY <1>1 DEF ObjectsInv, ObjectsOk, ParseFails, Idle
<1>3. val' = n /\ reading' = NoObj /\ argVal' = argVal
  BY <1>1 DEF ParseFails
<1>4. ASSUME NEW g, HeapOk(g), ArgAsBefore(heap, g), \A p \in Objs \ {o} : Keeps(heap, g, p)
      PROVE  ObjectsOk(g, n, NoObj, argVal)
  BY <1>1, <1>2, <1>4, NobodyReads, RenewedGood
<1>5. CASE heap' = heap
  <2>1. ArgAsBefore(heap, heap) /\ \A p \in Objs \ {o} : Keeps(heap, heap, p)
    BY DEF ArgAsBefore, Keeps
  <2>2. ObjectsOk(heap, n, NoObj, argVal)
    BY <1>2, <1>4, <2>1
  <2> QED BY <1>3, <1>5, <2>2 DEF ObjectsInv
<1>6. ASSUME NEW v \in Numbers, heap' = Collected(FilledOneof(heap, reading, v))
      PROVE  ObjectsInv'
  <2>1. PICK g : g = FilledOneof(heap, o, v)
    OBVIOUS
  <2>2. Refilled(heap, g, o, v)
    BY <1>2, <2>1, FilledOneofRefilled
  <2>3. HeapOk(g) /\ ArgAsBefore(heap, g) /\ \A p \in Objs \ {o} : Keeps(heap, g, p)
    BY <2>2 DEF Refilled
  <2>4. ObjectsOk(g, n, NoObj, argVal)
    BY <1>4, <2>3
  <2>5. heap' = Collected(g)
    BY <1>1, <1>6, <2>1
  <2>6. ObjectsOk(heap', n, NoObj, argVal)
    BY <2>4, <2>5, CollectedGood
  <2> QED BY <1>3, <2>6 DEF ObjectsInv
<1> QED BY <1>5, <1>6 DEF ParseFails

LEMMA ParseEndsStep ==
    ASSUME ObjectsInv, ParseEnds PROVE ObjectsInv'
BY NobodyReads DEF ParseEnds, ObjectsInv

LEMMA ObjectsStart ==
    Init => ObjectsInv
<1> SUFFICES ASSUME Init PROVE ObjectsInv
  OBVIOUS
<1>1. PICK e : e = <<>>
  OBVIOUS
<1>2. DOMAIN e = {} /\ \A V : e \in [DOMAIN e -> V]
  BY <1>1
<1>3. \A V : Pool(e, V)
  BY <1>2, FS_EmptySet DEF Pool
<1>4. PICK f : f = <<0>>
  OBVIOUS
<1>5. DOMAIN f = {1} /\ f[1] = 0 /\ f \in [DOMAIN f -> Numbers]
  BY <1>4 DEF Numbers
<1>6. Pool(f, Numbers)
  BY <1>5, FS_Singleton DEF Pool, Null
<1>7. /\ HeapShape(heap) /\ heap.dptr = [o \in Objs |-> Null] /\ heap.base = [o \in Objs |-> Null]
      /\ heap.data = e /\ heap.unknown = e /\ heap.inner = f /\ heap.arg = 1
  BY <1>1, <1>4 DEF Init, HeapShape
<1>8. HeapOk(heap)
  BY <1>2, <1>3, <1>5, <1>6, <1>7 DEF HeapOk, Null
<1>9. val \in [Objs -> ValueType \cup {Unspecified}]
  BY DefaultShown DEF Init
<1> QED BY <1>5, <1>7, <1>8, <1>9 DEF Init, ObjectsInv, ObjectsOk

LEMMA ObjectsGoOn ==
    ObjectsInv /\ [Next]_vars => ObjectsInv'
<1> SUFFICES ASSUME ObjectsInv, [Next]_vars PROVE ObjectsInv'
  OBVIOUS
<1>1. ASSUME NEW o \in Objs,
             Construct(o) \/ Destroy(o) \/ UserSets(o) \/ UserClears(o)
             \/ ReadMessage(o) \/ CopyOut(o) \/ Deserialize(o)
      PROVE  ObjectsInv'
  BY <1>1, ConstructStep, DestroyStep, UserSetsStep, UserClearsStep, ReadMessageStep, CopyOutStep
<1>2. ASSUME NEW o \in Objs, NEW p \in Objs, Copy(o, p) \/ Swap(o, p) \/ Compare(o, p)
      PROVE  ObjectsInv'
  BY <1>2, CopyStep, SwapStep, CompareStep
<1>3. ASSUME NEW v \in Numbers, SetArg(v) PROVE ObjectsInv'
  BY <1>3, SetArgStep
<1>4. ASSUME NEW o \in Objs, NEW moved \in BOOLEAN, PassMessage(o, moved) \/ PassOneofMessage(o, moved)
      PROVE  ObjectsInv'
  BY <1>4, PassMessageStep, PassOneofMessageStep
<1>5. CASE ParseField \/ ParseFails \/ ParseEnds
  BY <1>5, ParseFieldStep, ParseFailsStep, ParseEndsStep
<1>6. CASE UNCHANGED vars
  BY <1>6 DEF vars, ObjectsInv
<1> QED BY <1>1, <1>2, <1>3, <1>4, <1>5, <1>6 DEF Next
-----------------------------------------------------------------------------
(* What the invariant says of operator==.                                  *)

NormOf(v) == [v EXCEPT !.msg = IF @ = Absent THEN 0 ELSE @, !.num = @[2]]

LEMMA NormsEqual ==
    ASSUME NEW v \in ValueType, NEW w \in ValueType
    PROVE  NormOf(v) = NormOf(w) <=>
               /\ v.num[2] = w.num[2] /\ v.text = w.text /\ v.opt = w.opt
               /\ NumberOf(v) = NumberOf(w) /\ v.one = w.one /\ v.unknown = w.unknown
<1>1. PICK a, b : a = NormOf(v) /\ b = NormOf(w)
  OBVIOUS
<1>2. /\ a = [num |-> v.num[2], text |-> v.text, opt |-> v.opt, msg |-> NumberOf(v),
              one |-> v.one, unknown |-> v.unknown]
      /\ b = [num |-> w.num[2], text |-> w.text, opt |-> w.opt, msg |-> NumberOf(w),
              one |-> w.one, unknown |-> w.unknown]
  BY <1>1 DEF NormOf, NumberOf, ValueType
<1> QED BY <1>1, <1>2

\* What is shown is the value but for an empty message.
LEMMA ShownMembers ==
    ASSUME NEW h, NEW o, NEW v \in ValueType, Shows(h, o, v), NEW s, s = Value(h, o)
    PROVE  /\ s.num = v.num /\ s.text = v.text /\ s.opt = v.opt /\ s.one = v.one
           /\ s.unknown = v.unknown /\ NumberOf(s) = NumberOf(v)
<1>1. s = v \/ s = With(v, "msg", 0)
  BY DEF Shows
<1>2. PICK x : x = With(v, "msg", 0)
  OBVIOUS
<1>3. x.num = v.num /\ x.text = v.text /\ x.opt = v.opt /\ x.one = v.one /\ x.unknown = v.unknown
  BY <1>2 DEF With, ValueType
<1>4. NumberOf(s) = NumberOf(v)
  BY ShownNumber
<1> QED BY <1>1, <1>2, <1>3, <1>4

LEMMA NumbersCompared ==
    ASSUME NEW h, HeapOk(h), NEW o \in Objs, h.dptr[o] # Null
    PROVE  NumberAt(h, Payload(h, o).msg) = NumberOf(Value(h, o))
<1>1. PICK e : e = Payload(h, o)
  OBVIOUS
<1>2. PayloadOk(e, h.inner)
  BY <1>1, PayloadIsOk
<1>3. CASE e.msg = Null
  BY <1>1, <1>3 DEF Value, Seen, NumberAt, NumberOf
<1>4. CASE e.msg # Null
  <2>1. e.msg \in DOMAIN h.inner
    BY <1>2, <1>4 DEF PayloadOk, Leads
  <2>2. h.inner[e.msg] \in Numbers
    BY <2>1 DEF HeapOk, Pool
  <2>3. Value(h, o).msg = h.inner[e.msg]
    BY <1>1, <1>4 DEF Value, Seen
  <2> QED BY <1>1, <1>4, <2>2, <2>3 DEF NumberAt, NumberOf, Numbers, Absent
<1> QED BY <1>3, <1>4

LEMMA OneofsCompared ==
    ASSUME NEW h, NEW x, NEW y, KindOk(x), KindOk(y)
    PROVE  OneofsEqual(h, x, y) <=> SeenOne(x, h.inner) = SeenOne(y, h.inner)
BY DEF OneofsEqual, SeenOne, KindOk

LEMMA EqualValues ==
    ASSUME ObjectsInv PROVE EqualityByValue
<1> SUFFICES ASSUME NEW o \in Objs, NEW p \in Objs, Specified(o), Specified(p)
             PROVE  comparesEqual(heap, o, p) <=> NormOf(val[o]) = NormOf(val[p])
  BY DEF EqualityByValue, NormOf
<1>1. /\ HeapOk(heap) /\ heap.dptr[o] # Null /\ heap.dptr[p] # Null
      /\ val[o] \in ValueType /\ val[p] \in ValueType
      /\ Shows(heap, o, val[o]) /\ Shows(heap, p, val[p])
  BY DEF ObjectsInv, ObjectsOk, Specified, Exists
<1>2. PICK x, y, s, t, v, w : /\ x = Payload(heap, o) /\ y = Payload(heap, p)
                              /\ s = Value(heap, o) /\ t = Value(heap, p)
                              /\ v = val[o] /\ w = val[p]
  OBVIOUS
<1>3. /\ s.num = v.num /\ s.text = v.text /\ s.opt = v.opt /\ s.one = v.one
      /\ s.unknown = v.unknown /\ NumberOf(s) = NumberOf(v)
  BY <1>1, <1>2, ShownMembers
<1>4. /\ t.num = w.num /\ t.text = w.text /\ t.opt = w.opt /\ t.one = w.one
      /\ t.unknown = w.unknown /\ NumberOf(t) = NumberOf(w)
  BY <1>1, <1>2, ShownMembers
<1>5. /\ s.num = x.num /\ s.text = x.text /\ s.opt = x.opt /\ s.unknown = Entry(heap, o)
      /\ s.one = SeenOne(x.one, heap.inner)
  BY <1>2 DEF Value, Seen, SeenOne
<1>6. /\ t.num = y.num /\ t.text = y.text /\ t.opt = y.opt /\ t.unknown = Entry(heap, p)
      /\ t.one = SeenOne(y.one, heap.inner)
  BY <1>2 DEF Value, Seen, SeenOne
<1>7. (heap.base[o] = heap.base[p] \/ heap.unknown[heap.base[o]] = heap.unknown[heap.base[p]])
          <=> v.unknown = w.unknown
  BY <1>3, <1>4, <1>5, <1>6 DEF Entry
<1>8. Same(x.num, y.num) <=> v.num[2] = w.num[2]
  <2>1. x.num \in Floats /\ y.num \in Floats /\ x.num = v.num /\ y.num = w.num
    BY <1>1, <1>2, <1>3, <1>4, <1>5, <1>6, PayloadIsOk DEF Payloads
  <2>2. \A f \in Floats : f[2] = 0
    BY DEF Floats
  <2> QED BY <2>1, <2>2 DEF Same
<1>9. MessagesEqual(heap, x.msg, y.msg) <=> NumberOf(v) = NumberOf(w)
  <2>1. NumberAt(heap, x.msg) = NumberOf(v) /\ NumberAt(heap, y.msg) = NumberOf(w)
    BY <1>1, <1>2, <1>3, <1>4, NumbersCompared
  <2>2. x.msg = Null /\ y.msg = Null => NumberAt(heap, x.msg) = NumberAt(heap, y.msg)
    OBVIOUS
  <2> QED BY <2>1, <2>2 DEF MessagesEqual
<1>10. OneofsEqual(heap, x.one, y.one) <=> v.one = w.one
  <2>1. KindOk(x.one) /\ KindOk(y.one)
    BY <1>1, <1>2 DEF Shows, Kind
  <2> QED BY <1>3, <1>4, <1>5, <1>6, <2>1, OneofsCompared
<1>11. comparesEqual(heap, o, p) <=>
           /\ v.unknown = w.unknown /\ v.num[2] = w.num[2] /\ v.text = w.text /\ v.opt = w.opt
           /\ NumberOf(v) = NumberOf(w) /\ v.one = w.one
  <2>1. comparesEqual(heap, o, p) <=>
            /\ heap.base[o] = heap.base[p] \/ heap.unknown[heap.base[o]] = heap.unknown[heap.base[p]]
            /\ Same(x.num, y.num) /\ x.text = y.text /\ x.opt = y.opt
            /\ MessagesEqual(heap, x.msg, y.msg) /\ OneofsEqual(heap, x.one, y.one)
    BY <1>2 DEF comparesEqual, Payload
  <2>2. (x.text = y.text <=> v.text = w.text) /\ (x.opt = y.opt <=> v.opt = w.opt)
    BY <1>3, <1>4, <1>5, <1>6
  <2> QED BY <1>7, <1>8, <1>9, <1>10, <2>1, <2>2
<1>12. v \in ValueType /\ w \in ValueType
  BY <1>1, <1>2
<1> QED BY <1>2, <1>11, <1>12, NormsEqual

LEMMA ValuesFromInv ==
    ObjectsInv => ObjectsAreValues
<1> SUFFICES ASSUME ObjectsInv PROVE ObjectsAreValues
  OBVIOUS
<1>1. ASSUME NEW o \in Objs, Specified(o)
      PROVE  \/ Meaning(o) = val[o]
             \/ val[o].msg = Absent /\ Meaning(o) = [val[o] EXCEPT !.msg = 0]
  <2>1. Shows(heap, o, val[o])
    BY <1>1 DEF ObjectsInv, ObjectsOk, Specified, Exists
  <2>2. Meaning(o) = Value(heap, o)
    BY DEF Meaning, Value, Seen, Payload, Entry
  <2> QED BY <2>1, <2>2 DEF Shows, With
<1>2. heap.arg # Null => heap.inner[heap.arg] = argVal
  BY DEF ObjectsInv, ObjectsOk
<1> QED BY <1>1, <1>2, EqualValues DEF ObjectsAreValues

\* An object step of the whole, or a step of the rest that leaves the objects.
LEMMA StepObjects ==
    ASSUME ObjectsInv, [QtMessagesNext]_<<vars, registryVars, field>> PROVE ObjectsInv'
<1>1. CASE Next
  BY <1>1, ObjectsGoOn
<1>2. CASE UNCHANGED vars
  BY <1>2, ObjectsGoOn
<1> QED BY <1>1, <1>2 DEF QtMessagesNext, MessagesNext

LEMMA ObjectsInvariant == QtMessagesSpec => []ObjectsInv
<1>1. QtMessagesInit => ObjectsInv
  BY ObjectsStart DEF QtMessagesInit, MessagesInit
<1> QED BY <1>1, StepObjects, PTL DEF QtMessagesSpec

\* No pointer of an object, of a payload or of the user's nested message leads
\* to something that is gone, whatever is shared, moved or parsed into.
THEOREM PointersLeadSomewhere == QtMessagesSpec => []HeapOk(heap)
<1>1. ObjectsInv => HeapOk(heap)
  BY DEF ObjectsInv, ObjectsOk
<1> QED BY <1>1, ObjectsInvariant, PTL

\* Message objects are values for every set of objects of the user and every
\* set of fields, although copies share their payloads and nested messages are
\* shared one by one: each setter, getter, clear, copy, move, swap, comparison
\* and parse leaves every other object, and the nested message in the user's
\* hands, with what was last written through it, and operator== compares that.
THEOREM ObjectsKeepTheirValues == QtMessagesSpec => []ObjectsAreValues
BY ObjectsInvariant, ValuesFromInv, PTL
=============================================================================
