------------------------ MODULE InterceptedRpc_proofs ------------------------
(***************************************************************************)
(* Theorems about InterceptedRpc, for any interceptors, chains, RPCs and   *)
(* threads: a chain owns what it should and says what is true of its       *)
(* interceptors, every call reaches them in the right order, and they see  *)
(* the end of an RPC once, before the user does.                           *)
(*                                                                         *)
(* The loops over a chain are recursive functions over its prefixes; what  *)
(* they compute is shown by induction over the prefix.                     *)
(***************************************************************************)
EXTENDS InterceptedRpc, SequenceTheorems, FiniteSetTheorems, WellFoundedInduction, TLAPS

\* A set of numbers has a least one.
LEMMA NatMin ==
    ASSUME NEW T, T \subseteq Nat, T # {}
    PROVE  \E x \in T : \A y \in T : x <= y
<1>1. PICK R : R = OpToRel(<, Nat)
  OBVIOUS
<1>2. IsWellFoundedOn(R, Nat)
  BY <1>1, NatLessThanWellFounded
<1>3. R = {p \in Nat \X Nat : p[1] < p[2]}
  BY <1>1 DEF OpToRel
<1>4. PICK x \in T : \A y \in T : ~(<<y, x>> \in R)
  BY <1>2, WFMin
<1>5. ASSUME NEW y \in T PROVE x <= y
  <2>1. x \in Nat /\ y \in Nat
    OBVIOUS
  <2>2. <<y, x>> \notin R
    BY <1>4
  <2>3. ~(y < x)
    <3>1. <<y, x>>[1] = y /\ <<y, x>>[2] = x
      OBVIOUS
    <3>2. <<y, x>> \in Nat \X Nat
      BY <2>1
    <3> QED BY <1>3, <2>2, <3>1, <3>2
  <2> QED BY <2>1, <2>3
<1> QED BY <1>5

\* So a set of numbers that has 0 and each successor has them all.
LEMMA SetInduction ==
    ASSUME NEW S, 0 \in S, \A n \in Nat : n \in S => n + 1 \in S
    PROVE  Nat \subseteq S
<1> SUFFICES ASSUME NEW m \in Nat, m \notin S PROVE FALSE
  OBVIOUS
<1> DEFINE T == {n \in Nat : n \notin S}
<1>1. PICK x \in T : \A y \in T : x <= y
  <2>1. T \subseteq Nat /\ T # {}
    OBVIOUS
  <2> HIDE DEF T
  <2> QED BY <2>1, NatMin
<1>2. x \in Nat /\ x # 0
  OBVIOUS
<1>3. x - 1 \in Nat /\ x - 1 \in S
  <2>1. x - 1 \in Nat
    BY <1>2
  <2> QED BY <2>1, <1>1
<1> QED BY <1>2, <1>3

-----------------------------------------------------------------------------
(* Loops over a sequence.                                                  *)

\* f has the values that a loop of n steps goes through, all in V.
Loops(f, V, base, n, step) ==
    /\ f \in [0..n -> V] /\ f[0] = base
    /\ \A i \in 1..n : f[i] = step[<<f[i - 1], i>>]

\* g is a function that follows the loop as long as it stays in V.
Follows(g, V, base, n, step) ==
    /\ g = [i \in 0..n |-> g[i]] /\ g[0] = base
    /\ \A i \in 1..n : g[i - 1] \in V => g[i] = step[<<g[i - 1], i>>]

\* A loop of n steps from a base has a function of the values it goes through.
LEMMA LoopExists ==
    ASSUME NEW V, NEW base \in V, NEW n \in Nat, NEW step \in [V \X (1..n) -> V]
    PROVE  \E f : Loops(f, V, base, n, step)
<1> DEFINE Loop(f, m) == /\ f \in [0..m -> V] /\ f[0] = base
                         /\ \A i \in 1..m : f[i] = step[<<f[i - 1], i>>]
           Good == {m \in Nat : m <= n => \E f : Loop(f, m)}
<1>1. 0 \in Good
  <2>1. Loop([i \in 0..0 |-> base], 0)
    OBVIOUS
  <2> HIDE DEF Loop
  <2> QED BY <2>1
<1>2. ASSUME NEW m \in Nat, m \in Good PROVE m + 1 \in Good
  <2> SUFFICES ASSUME m + 1 <= n PROVE \E f : Loop(f, m + 1)
    OBVIOUS
  <2>1. PICK f : Loop(f, m)
    <3> HIDE DEF Loop
    <3> QED BY <1>2
  <2> DEFINE next == step[<<f[m], m + 1>>]
             g == [i \in 0..(m + 1) |-> IF i = m + 1 THEN next ELSE f[i]]
  <2>2. f[m] \in V /\ m + 1 \in 1..n
    BY <2>1
  <2>3. next \in V
    BY <2>2
  <2>4. \A i \in 0..m : g[i] = f[i] /\ f[i] \in V
    BY <2>1
  <2>5. g[m + 1] = next
    OBVIOUS
  <2>6. g = [i \in 0..(m + 1) |-> g[i]]
    OBVIOUS
  <2> HIDE DEF g
  <2>7. \A i \in 0..(m + 1) : i \in 0..m \/ i = m + 1
    OBVIOUS
  <2>8. g \in [0..(m + 1) -> V]
    BY <2>3, <2>4, <2>5, <2>6, <2>7
  <2>9. ASSUME NEW i \in 1..(m + 1) PROVE g[i] = step[<<g[i - 1], i>>]
    <3>1. CASE i = m + 1
      <4>1. i - 1 = m /\ m \in 0..m
        BY <3>1
      <4> QED BY <2>4, <2>5, <3>1, <4>1
    <3>2. CASE i \in 1..m
      <4>1. i - 1 \in 0..m /\ i \in 0..m
        BY <3>2
      <4> QED BY <2>1, <2>4, <3>2, <4>1
    <3> QED BY <3>1, <3>2
  <2>10. g[0] = base
    BY <2>1, <2>4
  <2> QED BY <2>8, <2>9, <2>10
<1> HIDE DEF Good
<1>3. n \in Good
  BY <1>1, <1>2, SetInduction
<1> QED BY <1>3 DEF Good, Loops

\* And no other function has them.
LEMMA LoopUnique ==
    ASSUME NEW V, NEW base \in V, NEW n \in Nat, NEW step \in [V \X (1..n) -> V],
           NEW f, Loops(f, V, base, n, step),
           NEW g, Follows(g, V, base, n, step)
    PROVE  g = f
<1> DEFINE Good == {m \in Nat : m <= n => g[m] = f[m]}
<1>1. 0 \in Good
  BY DEF Loops, Follows
<1>2. ASSUME NEW m \in Nat, m \in Good PROVE m + 1 \in Good
  <2> SUFFICES ASSUME m + 1 <= n PROVE g[m + 1] = f[m + 1]
    OBVIOUS
  <2>1. m + 1 \in 1..n /\ (m + 1) - 1 = m /\ m \in 0..n
    OBVIOUS
  <2>2. g[m] = f[m] /\ f[m] \in V
    BY <1>2, <2>1 DEF Loops
  <2>3. f[m + 1] = step[<<f[m], m + 1>>]
    BY <2>1 DEF Loops
  <2>4. g[m + 1] = step[<<g[m], m + 1>>]
    BY <2>1, <2>2 DEF Follows
  <2> QED BY <2>2, <2>3, <2>4
<1> HIDE DEF Good
<1>3. Nat \subseteq Good
  BY <1>1, <1>2, SetInduction
<1>4. ASSUME NEW i \in 0..n PROVE g[i] = f[i]
  <2>1. i \in Nat /\ i <= n
    OBVIOUS
  <2> QED BY <1>3, <2>1 DEF Good
<1>5. f = [i \in 0..n |-> f[i]]
  BY DEF Loops
<1>6. g = [i \in 0..n |-> g[i]]
  BY DEF Follows
<1> QED BY <1>4, <1>5, <1>6

Capability == Outbound \cup Inbound
Chains == [interceptors : Seq(Interceptors), combined : SUBSET Capability]
HandlerLists == [Capability -> Seq(Interceptors)]

\* add() keeps a chain a chain.
LEMMA AddToChain ==
    ASSUME NEW ch \in Chains, NEW i \in Interceptors PROVE AddTo(ch, i) \in Chains
<1>1. Capabilities[i] \subseteq Capability
  BY InterceptorAssumption DEF Capability
<1>2. Append(ch.interceptors, i) \in Seq(Interceptors)
  BY DEF Chains
<1> QED BY <1>1, <1>2 DEF AddTo, Chains

\* The loop of set(), step by step.
LEMMA BuiltLoop ==
    ASSUME NEW s \in Seq(Interceptors)
    PROVE  /\ Built(s) \in [0..Len(s) -> Chains] /\ Built(s)[0] = NewChain
           /\ \A i \in 1..Len(s) : Built(s)[i] = AddTo(Built(s)[i - 1], s[i])
<1>1. PICK step : step = [p \in Chains \X (1..Len(s)) |-> AddTo(p[1], s[p[2]])]
  OBVIOUS
<1>2. step \in [Chains \X (1..Len(s)) -> Chains]
  <2>1. \A p \in Chains \X (1..Len(s)) : AddTo(p[1], s[p[2]]) \in Chains
    BY AddToChain
  <2> QED BY <1>1, <2>1
<1>3. NewChain \in Chains
  BY DEF NewChain, Chains
<1>4. \A c \in Chains, i \in 1..Len(s) : step[<<c, i>>] = AddTo(c, s[i])
  BY <1>1
<1>5. PICK n : n = Len(s) /\ n \in Nat
  OBVIOUS
<1>6. PICK f : Loops(f, Chains, NewChain, n, step)
  BY <1>2, <1>3, <1>5, LoopExists
<1>7. f = [i \in 0..Len(s) |-> IF i = 0 THEN NewChain ELSE AddTo(f[i - 1], s[i])]
  <2>1. ASSUME NEW i \in 0..Len(s)
        PROVE  f[i] = IF i = 0 THEN NewChain ELSE AddTo(f[i - 1], s[i])
    <3>1. CASE i # 0
      <4>1. i \in 1..n /\ i - 1 \in 0..n
        BY <1>5, <3>1
      <4>2. f[i] = step[<<f[i - 1], i>>] /\ f[i - 1] \in Chains
        BY <1>6, <4>1 DEF Loops
      <4> QED BY <1>4, <1>5, <3>1, <4>1, <4>2
    <3> QED BY <1>6, <3>1 DEF Loops
  <2> QED BY <1>5, <1>6, <2>1 DEF Loops
<1>8. PICK b : b = Built(s)
  OBVIOUS
<1>9. b = [i \in 0..Len(s) |-> IF i = 0 THEN NewChain ELSE AddTo(b[i - 1], s[i])]
  BY <1>7, <1>8 DEF Built
<1>10. b = [i \in 0..n |-> b[i]] /\ b[0] = NewChain
  BY <1>5, <1>9
<1>11. \A i \in 1..n : b[i] = AddTo(b[i - 1], s[i])
  BY <1>5, <1>9
<1>12. \A i \in 1..n : b[i - 1] \in Chains => b[i] = step[<<b[i - 1], i>>]
  BY <1>4, <1>5, <1>11
<1>13. b = f
  <2>1. Follows(b, Chains, NewChain, n, step)
    BY <1>10, <1>12 DEF Follows
  <2> QED BY <1>2, <1>3, <1>5, <1>6, <2>1, LoopUnique
<1> QED BY <1>5, <1>6, <1>8, <1>11, <1>13 DEF Loops
\* An interceptor enters the lists of its capabilities, and no other list.
LEMMA AddToLists ==
    ASSUME NEW lists \in HandlerLists, NEW i \in Interceptors
    PROVE  /\ AddInterceptor(lists, i) \in HandlerLists
           /\ \A c \in Capability :
                  AddInterceptor(lists, i)[c] =
                      IF i \in Able(c) THEN Append(lists[c], i) ELSE lists[c]
<1>1. DOMAIN lists = Capability /\ \A c \in Capability : lists[c] \in Seq(Interceptors)
  BY DEF HandlerLists
<1>2. \A c \in Capability : c \in Capabilities[i] <=> i \in Able(c)
  BY DEF Able
<1> QED BY <1>1, <1>2 DEF AddInterceptor, HandlerLists

\* The loop of setInterceptorChain(), step by step.
LEMMA RegisteredLoop ==
    ASSUME NEW s \in Seq(Interceptors)
    PROVE  /\ Registered(s) \in [0..Len(s) -> HandlerLists] /\ Registered(s)[0] = NoHandlers
           /\ \A i \in 1..Len(s) : Registered(s)[i] = AddInterceptor(Registered(s)[i - 1], s[i])
<1>1. PICK step : step = [p \in HandlerLists \X (1..Len(s)) |-> AddInterceptor(p[1], s[p[2]])]
  OBVIOUS
<1>2. step \in [HandlerLists \X (1..Len(s)) -> HandlerLists]
  <2>1. \A p \in HandlerLists \X (1..Len(s)) : AddInterceptor(p[1], s[p[2]]) \in HandlerLists
    BY AddToLists
  <2> QED BY <1>1, <2>1
<1>3. NoHandlers \in HandlerLists
  BY DEF NoHandlers, HandlerLists, Capability
<1>4. \A c \in HandlerLists, i \in 1..Len(s) : step[<<c, i>>] = AddInterceptor(c, s[i])
  BY <1>1
<1>5. PICK n : n = Len(s) /\ n \in Nat
  OBVIOUS
<1>6. PICK f : Loops(f, HandlerLists, NoHandlers, n, step)
  BY <1>2, <1>3, <1>5, LoopExists
<1>7. f = [i \in 0..Len(s) |-> IF i = 0 THEN NoHandlers
                                ELSE AddInterceptor(f[i - 1], s[i])]
  <2>1. ASSUME NEW i \in 0..Len(s)
        PROVE  f[i] = IF i = 0 THEN NoHandlers ELSE AddInterceptor(f[i - 1], s[i])
    <3>1. CASE i # 0
      <4>1. i \in 1..n /\ i - 1 \in 0..n
        BY <1>5, <3>1
      <4>2. f[i] = step[<<f[i - 1], i>>] /\ f[i - 1] \in HandlerLists
        BY <1>6, <4>1 DEF Loops
      <4> QED BY <1>4, <1>5, <3>1, <4>1, <4>2
    <3> QED BY <1>6, <3>1 DEF Loops
  <2> QED BY <1>5, <1>6, <2>1 DEF Loops
<1>8. PICK b : b = Registered(s)
  OBVIOUS
<1>9. b = [i \in 0..Len(s) |-> IF i = 0 THEN NoHandlers
                                ELSE AddInterceptor(b[i - 1], s[i])]
  BY <1>7, <1>8 DEF Registered
<1>10. b = [i \in 0..n |-> b[i]] /\ b[0] = NoHandlers
  BY <1>5, <1>9
<1>11. \A i \in 1..n : b[i] = AddInterceptor(b[i - 1], s[i])
  BY <1>5, <1>9
<1>12. \A i \in 1..n : b[i - 1] \in HandlerLists => b[i] = step[<<b[i - 1], i>>]
  BY <1>4, <1>5, <1>11
<1>13. b = f
  <2>1. Follows(b, HandlerLists, NoHandlers, n, step)
    BY <1>10, <1>12 DEF Follows
  <2> QED BY <1>2, <1>3, <1>5, <1>6, <2>1, LoopUnique
<1> QED BY <1>5, <1>6, <1>8, <1>11, <1>13 DEF Loops

\* One turn of the loop of onFinished(), and one of a loop that selects.
Replaced(i, status) == IF i \in Rewriting THEN i ELSE status
Taken(x, T, selected) == IF x \in T THEN Append(selected, x) ELSE selected

\* The loop of onFinished(), step by step.
LEMMA InterceptedLoop ==
    ASSUME NEW who \in Seq(Interceptors), NEW status \in Statuses
    PROVE  /\ Intercepted(who, status) \in [0..Len(who) -> Statuses]
           /\ Intercepted(who, status)[0] = status
           /\ \A i \in 1..Len(who) :
                  Intercepted(who, status)[i] = Replaced(who[i], Intercepted(who, status)[i - 1])
<1>1. PICK step : step = [p \in Statuses \X (1..Len(who)) |-> Replaced(who[p[2]], p[1])]
  OBVIOUS
<1>2. step \in [Statuses \X (1..Len(who)) -> Statuses]
  <2>1. \A p \in Statuses \X (1..Len(who)) :
         Replaced(who[p[2]], p[1]) \in Statuses
    BY DEF Statuses, Replaced
  <2> QED BY <1>1, <2>1
<1>3. status \in Statuses
  OBVIOUS
<1>4. \A c \in Statuses, i \in 1..Len(who) : step[<<c, i>>] = Replaced(who[i], c)
  BY <1>1
<1>5. PICK n : n = Len(who) /\ n \in Nat
  OBVIOUS
<1>6. PICK f : Loops(f, Statuses, status, n, step)
  BY <1>2, <1>3, <1>5, LoopExists
<1>7. f = [i \in 0..Len(who) |-> IF i = 0 THEN status
                                ELSE Replaced(who[i], f[i - 1])]
  <2>1. ASSUME NEW i \in 0..Len(who)
        PROVE  f[i] = IF i = 0 THEN status ELSE Replaced(who[i], f[i - 1])
    <3>1. CASE i # 0
      <4>1. i \in 1..n /\ i - 1 \in 0..n
        BY <1>5, <3>1
      <4>2. f[i] = step[<<f[i - 1], i>>] /\ f[i - 1] \in Statuses
        BY <1>6, <4>1 DEF Loops
      <4> QED BY <1>4, <1>5, <3>1, <4>1, <4>2
    <3> QED BY <1>6, <3>1 DEF Loops
  <2> QED BY <1>5, <1>6, <2>1 DEF Loops
<1>8. PICK b : b = Intercepted(who, status)
  OBVIOUS
<1>9. b = [i \in 0..Len(who) |-> IF i = 0 THEN status
                                ELSE Replaced(who[i], b[i - 1])]
  BY <1>7, <1>8 DEF Intercepted, Replaced
<1>10. b = [i \in 0..n |-> b[i]] /\ b[0] = status
  BY <1>5, <1>9
<1>11. \A i \in 1..n : b[i] = Replaced(who[i], b[i - 1])
  BY <1>5, <1>9
<1>12. \A i \in 1..n : b[i - 1] \in Statuses => b[i] = step[<<b[i - 1], i>>]
  BY <1>4, <1>5, <1>11
<1>13. b = f
  <2>1. Follows(b, Statuses, status, n, step)
    BY <1>10, <1>12 DEF Follows
  <2> QED BY <1>2, <1>3, <1>5, <1>6, <2>1, LoopUnique
<1> QED BY <1>5, <1>6, <1>8, <1>11, <1>13 DEF Loops

\* f has what a loop over s, of elements of S, takes of T.
Selects(f, s, S, T) ==
    /\ f \in [0..Len(s) -> Seq(S \cap T)] /\ f[0] = <<>>
    /\ \A i \in 1..Len(s) : f[i] = Taken(s[i], T, f[i - 1])

\* What a loop over s takes of T, step by step.
LEMMA SelectedLoop ==
    ASSUME NEW S, NEW T, NEW s \in Seq(S)
    PROVE  Selects(Selected(s, T), s, S, T)
<1>1. PICK step : step = [p \in Seq(S \cap T) \X (1..Len(s)) |-> Taken(s[p[2]], T, p[1])]
  OBVIOUS
<1>2. step \in [Seq(S \cap T) \X (1..Len(s)) -> Seq(S \cap T)]
  <2>1. \A p \in Seq(S \cap T) \X (1..Len(s)) :
         Taken(s[p[2]], T, p[1]) \in Seq(S \cap T)
    <3> SUFFICES ASSUME NEW x \in Seq(S \cap T), NEW i \in 1..Len(s)
                 PROVE  Taken(s[i], T, x) \in Seq(S \cap T)
      OBVIOUS
    <3>1. s[i] \in S
      OBVIOUS
    <3> QED BY <3>1 DEF Taken
  <2> QED BY <1>1, <2>1
<1>3. <<>> \in Seq(S \cap T)
  OBVIOUS
<1>4. \A c \in Seq(S \cap T), i \in 1..Len(s) : step[<<c, i>>] = Taken(s[i], T, c)
  BY <1>1
<1>5. PICK n : n = Len(s) /\ n \in Nat
  OBVIOUS
<1>6. PICK f : Loops(f, Seq(S \cap T), <<>>, n, step)
  BY <1>2, <1>3, <1>5, LoopExists
<1>7. f = [i \in 0..Len(s) |-> IF i = 0 THEN <<>>
                                ELSE Taken(s[i], T, f[i - 1])]
  <2>1. ASSUME NEW i \in 0..Len(s)
        PROVE  f[i] = IF i = 0 THEN <<>> ELSE Taken(s[i], T, f[i - 1])
    <3>1. CASE i # 0
      <4>1. i \in 1..n /\ i - 1 \in 0..n
        BY <1>5, <3>1
      <4>2. f[i] = step[<<f[i - 1], i>>] /\ f[i - 1] \in Seq(S \cap T)
        BY <1>6, <4>1 DEF Loops
      <4> QED BY <1>4, <1>5, <3>1, <4>1, <4>2
    <3> QED BY <1>6, <3>1 DEF Loops
  <2> QED BY <1>5, <1>6, <2>1 DEF Loops
<1>8. PICK b : b = Selected(s, T)
  OBVIOUS
<1>9. b = [i \in 0..Len(s) |-> IF i = 0 THEN <<>>
                                ELSE Taken(s[i], T, b[i - 1])]
  BY <1>7, <1>8 DEF Selected, Taken
<1>10. b = [i \in 0..n |-> b[i]] /\ b[0] = <<>>
  BY <1>5, <1>9
<1>11. \A i \in 1..n : b[i] = Taken(s[i], T, b[i - 1])
  BY <1>5, <1>9
<1>12. \A i \in 1..n : b[i - 1] \in Seq(S \cap T) => b[i] = step[<<b[i - 1], i>>]
  BY <1>4, <1>5, <1>11
<1>13. b = f
  <2>1. Follows(b, Seq(S \cap T), <<>>, n, step)
    BY <1>10, <1>12 DEF Follows
  <2> QED BY <1>2, <1>3, <1>5, <1>6, <2>1, LoopUnique
<1> QED BY <1>5, <1>6, <1>8, <1>11, <1>13 DEF Loops, Selects

-----------------------------------------------------------------------------
(* What the loops compute.                                                 *)

\* The chain that set() builds of s is s, and can what its interceptors can.
LEMMA BuiltChain ==
    ASSUME NEW s \in Seq(Interceptors)
    PROVE  Built(s)[Len(s)] = [interceptors |-> s,
                               combined |-> UNION {Capabilities[i] : i \in ToSet(s)}]
<1>1. PICK b, n : /\ b = Built(s) /\ n = Len(s) /\ n \in Nat
                  /\ b \in [0..n -> Chains] /\ b[0] = NewChain
                  /\ \A i \in 1..n : b[i] = AddTo(b[i - 1], s[i])
  BY BuiltLoop
<1> DEFINE Upto(m) == /\ Len(b[m].interceptors) = m
                      /\ \A k \in 1..m : b[m].interceptors[k] = s[k]
                      /\ \A c : c \in b[m].combined <=> \E k \in 1..m : c \in Capabilities[s[k]]
           Good == {m \in Nat : m <= n => Upto(m)}
<1>2. 0 \in Good
  <2>1. b[0].interceptors = <<>> /\ b[0].combined = {}
    BY <1>1 DEF NewChain
  <2>2. 1..0 = {} /\ Len(<<>>) = 0
    OBVIOUS
  <2> QED BY <2>1, <2>2
<1>3. ASSUME NEW m \in Nat, m \in Good PROVE m + 1 \in Good
  <2> SUFFICES ASSUME m + 1 <= n PROVE Upto(m + 1)
    OBVIOUS
  <2>1. m + 1 \in 1..n /\ (m + 1) - 1 = m /\ m \in 0..n
    BY <1>1
  <2>2. Upto(m)
    BY <1>3, <2>1
  <2>3. PICK old, new, i : old = b[m] /\ new = b[m + 1] /\ i = s[m + 1]
    OBVIOUS
  <2>4. /\ new.interceptors = Append(old.interceptors, i)
        /\ new.combined = old.combined \cup Capabilities[i]
    <3>1. new = AddTo(old, i)
      BY <1>1, <2>1, <2>3
    <3> QED BY <3>1 DEF AddTo
  <2>5. old.interceptors \in Seq(Interceptors)
    BY <1>1, <2>1, <2>3 DEF Chains
  <2>6. Len(new.interceptors) = m + 1 /\ new.interceptors[m + 1] = i
    BY <2>2, <2>3, <2>4, <2>5
  <2>7. ASSUME NEW k \in 1..(m + 1) PROVE new.interceptors[k] = s[k]
    <3>1. CASE k \in 1..m
      <4>1. new.interceptors[k] = old.interceptors[k]
        BY <2>2, <2>3, <2>4, <2>5, <3>1
      <4> QED BY <2>2, <2>3, <3>1, <4>1
    <3>2. CASE k = m + 1
      BY <2>3, <2>6, <3>2
    <3> QED BY <3>1, <3>2
  <2>8. ASSUME NEW c
        PROVE  c \in new.combined <=> \E k \in 1..(m + 1) : c \in Capabilities[s[k]]
    <3>1. c \in new.combined <=> c \in old.combined \/ c \in Capabilities[i]
      BY <2>4
    <3>2. c \in old.combined <=> \E k \in 1..m : c \in Capabilities[s[k]]
      BY <2>2, <2>3
    <3>3. \A k : k \in 1..(m + 1) <=> k \in 1..m \/ k = m + 1
      OBVIOUS
    <3> QED BY <2>3, <3>1, <3>2, <3>3
  <2> QED BY <2>3, <2>6, <2>7, <2>8
<1> HIDE DEF Good
<1>4. Nat \subseteq Good
  BY <1>2, <1>3, SetInduction
<1>5. Upto(n)
  <2> HIDE DEF Upto
  <2> QED BY <1>1, <1>4 DEF Good
<1>6. PICK c : c = b[n] /\ c \in Chains
  BY <1>1
<1>7. c.interceptors = s
  <2>1. c.interceptors \in Seq(Interceptors)
    BY <1>6 DEF Chains
  <2>2. Len(c.interceptors) = Len(s) /\ \A k \in 1..Len(s) : c.interceptors[k] = s[k]
    BY <1>1, <1>5, <1>6
  <2> QED BY <2>1, <2>2, SeqEqual
<1>8. c.combined = UNION {Capabilities[i] : i \in ToSet(s)}
  <2>1. \A x : x \in c.combined <=> \E k \in 1..n : x \in Capabilities[s[k]]
    BY <1>5, <1>6
  <2>2. DOMAIN s = 1..n
    BY <1>1
  <2>3. \A i : i \in ToSet(s) <=> \E k \in 1..n : i = s[k]
    BY <2>2 DEF ToSet
  <2> QED BY <2>1, <2>3
<1>9. c = [interceptors |-> c.interceptors, combined |-> c.combined]
  BY <1>6 DEF Chains
<1> QED BY <1>1, <1>6, <1>7, <1>8, <1>9

\* The handlers of a capability are the interceptors that have it, in order.
LEMMA RegisteredHandlers ==
    ASSUME NEW s \in Seq(Interceptors)
    PROVE  /\ Registered(s)[Len(s)] \in HandlerLists
           /\ \A c \in Capability : Registered(s)[Len(s)][c] = Among(s, Able(c))
<1>1. PICK b, n : /\ b = Registered(s) /\ n = Len(s) /\ n \in Nat
                  /\ b \in [0..n -> HandlerLists] /\ b[0] = NoHandlers
                  /\ \A i \in 1..n : b[i] = AddInterceptor(b[i - 1], s[i])
  BY RegisteredLoop
<1>2. ASSUME NEW c \in Capability PROVE b[n][c] = Among(s, Able(c))
  <2>1. PICK f : /\ f = Selected(s, Able(c)) /\ f[0] = <<>>
                 /\ \A i \in 1..n : f[i] = Taken(s[i], Able(c), f[i - 1])
    <3>1. PICK T, f : T = Able(c) /\ f = Selected(s, T)
      OBVIOUS
    <3>2. Selects(Selected(s, T), s, Interceptors, T)
      BY SelectedLoop
    <3> QED BY <1>1, <3>1, <3>2 DEF Selects
  <2> DEFINE Good == {m \in Nat : m <= n => b[m][c] = f[m]}
  <2>2. 0 \in Good
    BY <1>1, <1>2, <2>1 DEF NoHandlers, Capability
  <2>3. ASSUME NEW m \in Nat, m \in Good PROVE m + 1 \in Good
    <3> SUFFICES ASSUME m + 1 <= n PROVE b[m + 1][c] = f[m + 1]
      OBVIOUS
    <3>1. m + 1 \in 1..n /\ (m + 1) - 1 = m /\ m \in 0..n
      BY <1>1
    <3>2. b[m] \in HandlerLists /\ s[m + 1] \in Interceptors /\ b[m][c] = f[m]
      BY <1>1, <2>3, <3>1
    <3>3. b[m + 1] = AddInterceptor(b[m], s[m + 1])
      BY <1>1, <3>1
    <3>4. f[m + 1] = Taken(s[m + 1], Able(c), f[m])
      BY <2>1, <3>1
    <3>5. b[m + 1][c] = Taken(s[m + 1], Able(c), b[m][c])
      BY <1>2, <3>2, <3>3, AddToLists DEF Taken
    <3> QED BY <3>2, <3>4, <3>5
  <2> HIDE DEF Good
  <2>4. Nat \subseteq Good
    BY <2>2, <2>3, SetInduction
  <2>5. b[n][c] = f[n]
    BY <1>1, <2>4 DEF Good
  <2> QED BY <1>1, <2>1, <2>5 DEF Among
<1> QED BY <1>1, <1>2

\* Among() takes elements of T only; it takes nothing when there are none, and
\* else the first of them comes first.
LEMMA AmongFirst ==
    ASSUME NEW S, NEW T, NEW s \in Seq(S)
    PROVE  /\ Among(s, T) \in Seq(S \cap T)
           /\ (\A k \in 1..Len(s) : s[k] \notin T) => Among(s, T) = <<>>
           /\ \A k \in 1..Len(s) :
                  s[k] \in T /\ (\A i \in 1..(k - 1) : s[i] \notin T)
                      => Among(s, T) # <<>> /\ Head(Among(s, T)) = s[k]
<1>1. PICK f, n : /\ f = Selected(s, T) /\ n = Len(s) /\ n \in Nat
                  /\ f \in [0..n -> Seq(S \cap T)] /\ f[0] = <<>>
                  /\ \A i \in 1..n : f[i] = Taken(s[i], T, f[i - 1])
  <2>1. PICK f, n : f = Selected(s, T) /\ n = Len(s) /\ n \in Nat
    OBVIOUS
  <2>2. /\ f \in [0..n -> Seq(S \cap T)] /\ f[0] = <<>>
        /\ \A i \in 1..n : f[i] = Taken(s[i], T, f[i - 1])
    <3>1. Selects(Selected(s, T), s, S, T)
      BY SelectedLoop
    <3> QED BY <2>1, <3>1 DEF Selects
  <2> QED BY <2>1, <2>2
<1>2. Among(s, T) = f[n] /\ f[n] \in Seq(S \cap T)
  BY <1>1 DEF Among
<1> DEFINE First(k) == k \in 1..n /\ s[k] \in T /\ \A i \in 1..(k - 1) : s[i] \notin T
           Upto(m) == /\ (\A k \in 1..m : s[k] \notin T) => f[m] = <<>>
                      /\ \A k \in 1..m : First(k) => f[m] # <<>> /\ f[m][1] = s[k]
           Good == {m \in Nat : m <= n => Upto(m)}
<1>3. 0 \in Good
  BY <1>1
<1>4. ASSUME NEW m \in Nat, m \in Good PROVE m + 1 \in Good
  <2> SUFFICES ASSUME m + 1 <= n PROVE Upto(m + 1)
    OBVIOUS
  <2>1. m + 1 \in 1..n /\ (m + 1) - 1 = m /\ m \in 0..n
    BY <1>1
  <2>2. Upto(m)
    BY <1>4, <2>1
  <2>3. PICK old, new, x : old = f[m] /\ new = f[m + 1] /\ x = s[m + 1]
    OBVIOUS
  <2>4. new = Taken(x, T, old) /\ old \in Seq(S \cap T) /\ x \in S
    BY <1>1, <2>1, <2>3
  <2>5. (\A k \in 1..(m + 1) : s[k] \notin T) => new = <<>>
    <3> SUFFICES ASSUME \A k \in 1..(m + 1) : s[k] \notin T PROVE new = <<>>
      OBVIOUS
    <3>1. x \notin T
      BY <2>3
    <3>2. old = <<>>
      BY <2>2, <2>3
    <3> QED BY <2>4, <3>1, <3>2 DEF Taken
  <2>6. ASSUME NEW k \in 1..(m + 1), First(k) PROVE new # <<>> /\ new[1] = s[k]
    <3>1. CASE k = m + 1
      <4>1. old = <<>> /\ x \in T
        BY <2>2, <2>3, <2>6, <3>1
      <4>2. new = Append(<<>>, x)
        BY <2>4, <4>1 DEF Taken
      <4> QED BY <2>3, <3>1, <4>2
    <3>2. CASE k \in 1..m
      <4>1. old # <<>> /\ old[1] = s[k]
        BY <2>2, <2>3, <2>6, <3>2
      <4>2. new = old \/ (new = Append(old, x) /\ x \in S \cap T)
        BY <2>4 DEF Taken
      <4> QED BY <2>4, <4>1, <4>2
    <3> QED BY <3>1, <3>2
  <2> QED BY <2>3, <2>5, <2>6
<1> HIDE DEF Good
<1>5. Nat \subseteq Good
  BY <1>3, <1>4, SetInduction
<1>6. Upto(n)
  <2> HIDE DEF Upto
  <2> QED BY <1>1, <1>5 DEF Good
<1>7. f[n] # <<>> => Head(f[n]) = f[n][1]
  BY <1>2
<1> QED BY <1>1, <1>2, <1>6, <1>7

\* r is the status that the last interceptor of who that replaces it has left.
LastWins(who, r) ==
    \A k \in 1..Len(who) :
        who[k] \in Rewriting /\ (\A i \in (k + 1)..Len(who) : who[i] \notin Rewriting)
            => r = who[k]

\* A status is the one that the last interceptor that replaces it has left.
LEMMA InterceptedLast ==
    ASSUME NEW who \in Seq(Interceptors), NEW status \in Statuses,
           NEW r, r = Intercepted(who, status)[Len(who)]
    PROVE  r \in Statuses /\ (r = status \/ r \in Rewriting) /\ LastWins(who, r)
<1>1. PICK f, n : /\ f = Intercepted(who, status) /\ n = Len(who) /\ n \in Nat
                  /\ f \in [0..n -> Statuses] /\ f[0] = status
                  /\ \A i \in 1..n : f[i] = Replaced(who[i], f[i - 1])
  BY InterceptedLoop
<1> DEFINE Upto(m) == /\ f[m] = status \/ f[m] \in Rewriting
                      /\ \A k \in 1..m : who[k] \in Rewriting
                                         /\ (\A i \in (k + 1)..m : who[i] \notin Rewriting)
                             => f[m] = who[k]
           Good == {m \in Nat : m <= n => Upto(m)}
<1>2. 0 \in Good
  BY <1>1
<1>3. ASSUME NEW m \in Nat, m \in Good PROVE m + 1 \in Good
  <2> SUFFICES ASSUME m + 1 <= n PROVE Upto(m + 1)
    OBVIOUS
  <2>1. m + 1 \in 1..n /\ (m + 1) - 1 = m /\ m \in 0..n
    BY <1>1
  <2>2. Upto(m)
    BY <1>3, <2>1
  <2>3. PICK x : x = who[m + 1]
    OBVIOUS
  <2>4. f[m + 1] = IF x \in Rewriting THEN x ELSE f[m]
    BY <1>1, <2>1, <2>3 DEF Replaced
  <2>5. ASSUME NEW k \in 1..(m + 1), who[k] \in Rewriting,
               \A i \in (k + 1)..(m + 1) : who[i] \notin Rewriting
        PROVE  f[m + 1] = who[k]
    <3>1. CASE k = m + 1
      BY <2>3, <2>4, <2>5, <3>1
    <3>2. CASE k \in 1..m
      <4>1. m + 1 \in (k + 1)..(m + 1) /\ \A i \in (k + 1)..m : i \in (k + 1)..(m + 1)
        BY <3>2
      <4>2. x \notin Rewriting /\ f[m] = who[k]
        BY <2>2, <2>3, <2>5, <3>2, <4>1
      <4> QED BY <2>4, <4>2
    <3> QED BY <3>1, <3>2
  <2>6. f[m + 1] = status \/ f[m + 1] \in Rewriting
    BY <2>2, <2>4
  <2> QED BY <2>5, <2>6
<1> HIDE DEF Good
<1>4. Nat \subseteq Good
  BY <1>2, <1>3, SetInduction
<1>5. Upto(n)
  <2> HIDE DEF Upto
  <2> QED BY <1>1, <1>4 DEF Good
<1>6. f[n] \in Statuses
  BY <1>1
<1> QED BY <1>1, <1>5, <1>6 DEF LastWins

\* Among() is empty only when there is nothing to take.
LEMMA AmongNone ==
    ASSUME NEW S, NEW T, NEW s \in Seq(S), NEW k \in 1..Len(s), s[k] \in T
    PROVE  \E i \in 1..Len(s) : /\ s[i] \in T /\ \A j \in 1..(i - 1) : s[j] \notin T
                                /\ Among(s, T) # <<>> /\ Head(Among(s, T)) = s[i]
<1> DEFINE Hits == {i \in 1..Len(s) : s[i] \in T}
<1>1. Hits \subseteq Nat /\ Hits # {}
  OBVIOUS
<1>2. PICK i \in Hits : \A j \in Hits : i <= j
  <2> HIDE DEF Hits
  <2> QED BY <1>1, NatMin
<1>3. i \in 1..Len(s) /\ s[i] \in T
  OBVIOUS
<1>4. \A j \in 1..(i - 1) : s[j] \notin T
  <2> SUFFICES ASSUME NEW j \in 1..(i - 1), s[j] \in T PROVE FALSE
    OBVIOUS
  <2>1. j \in Hits
    BY <1>3
  <2>2. i <= j
    BY <1>2, <2>1
  <2> QED BY <1>3, <2>2
<1>5. Among(s, T) # <<>> /\ Head(Among(s, T)) = s[i]
  BY <1>3, <1>4, AmongFirst
<1> QED BY <1>3, <1>4, <1>5

\* The reverse of a list of interceptors is one.
LEMMA ReverseType ==
    ASSUME NEW w \in Seq(Interceptors), NEW who, who = Reverse(w)
    PROVE  /\ who \in Seq(Interceptors) /\ Len(who) = Len(w)
           /\ \A i \in 1..Len(w) : who[i] = w[(Len(w) - i) + 1]
<1>1. who = [i \in 1..Len(w) |-> w[(Len(w) - i) + 1]] /\ Len(w) \in Nat
  BY DEF Reverse
<1>2. \A i \in 1..Len(w) : (Len(w) - i) + 1 \in 1..Len(w)
  BY <1>1
<1>3. \A i \in 1..Len(w) : w[(Len(w) - i) + 1] \in Interceptors
  BY <1>2
<1>4. who \in [1..Len(w) -> Interceptors]
  BY <1>1, <1>3
<1>5. who \in Seq(Interceptors) /\ Len(who) = Len(w)
  BY <1>1, <1>4
<1> QED BY <1>1, <1>5

\* On the way to the user the interceptor nearest to the application decides.
LEMMA NearestDecides ==
    ASSUME NEW w \in Seq(Interceptors), NEW who, who = Reverse(w), NEW status \in Statuses,
           NEW r, r = Intercepted(who, status)[Len(who)]
    PROVE  /\ r \in Statuses /\ (r = status \/ r \in Rewriting)
           /\ Among(w, Rewriting) # <<>> => r = Head(Among(w, Rewriting))
<1>1. /\ who \in Seq(Interceptors) /\ Len(who) = Len(w) /\ Len(w) \in Nat
      /\ \A i \in 1..Len(w) : who[i] = w[(Len(w) - i) + 1]
  BY ReverseType
<1>2. r \in Statuses /\ (r = status \/ r \in Rewriting)
  BY <1>1, InterceptedLast
<1>3. ASSUME Among(w, Rewriting) # <<>> PROVE r = Head(Among(w, Rewriting))
  <2>1. PICK k \in 1..Len(w) : w[k] \in Rewriting
    BY <1>3, AmongFirst
  <2>2. PICK i \in 1..Len(w) : /\ w[i] \in Rewriting
                               /\ \A j \in 1..(i - 1) : w[j] \notin Rewriting
                               /\ Head(Among(w, Rewriting)) = w[i]
    BY <2>1, AmongNone
  <2>3. PICK m : m = (Len(w) - i) + 1
    OBVIOUS
  <2>4. m \in 1..Len(w) /\ (Len(w) - m) + 1 = i
    BY <1>1, <2>3
  <2>5. who[m] = w[i]
    BY <1>1, <2>4
  <2>6. ASSUME NEW j \in (m + 1)..Len(who) PROVE who[j] \notin Rewriting
    <3>1. j \in 1..Len(w) /\ (Len(w) - j) + 1 \in 1..(i - 1)
      BY <1>1, <2>3, <2>4
    <3>2. who[j] = w[(Len(w) - j) + 1]
      BY <1>1, <3>1
    <3> QED BY <2>2, <3>1, <3>2
  <2>7. r = who[m]
    <3>1. LastWins(who, r)
      BY <1>1, InterceptedLast
    <3>2. m \in 1..Len(who) /\ who[m] \in Rewriting
      BY <1>1, <2>2, <2>4, <2>5
    <3> QED BY <2>6, <3>1, <3>2 DEF LastWins
  <2> QED BY <2>2, <2>5, <2>7
<1> QED BY <1>2, <1>3

-----------------------------------------------------------------------------
(* The inductive invariant.                                                *)

Entries == [what : Capability \cup {"finished"}, who : Seq(Interceptors),
            thread : Threads, status : Statuses \cup {"none"}]

\* The interceptors of s that have a capability.
HavingIn(s, c) == Among(s, Able(c))

\* What is true of the entry k of the log l of an RPC, when the chain is s and
\* bound says that the RPC can reach it: the four clauses that are checked.
ReachedOk(l, k, s) ==
    /\ l[k].what \in Inbound => l[k].who = Reverse(HavingIn(s, l[k].what))
    /\ l[k].what \in Outbound \ {"Start"} => l[k].who = HavingIn(s, l[k].what)
    /\ l[k].what = "Start" =>
           k = 1 /\ l[k].who # <<>> /\ IsPrefix(l[k].who, HavingIn(s, "Start"))
    /\ l[k].what = "Finished" /\ Among(HavingIn(s, "Finished"), Rewriting) # <<>> =>
           l[k + 1].status = Head(Among(HavingIn(s, "Finished"), Rewriting))

OnceOk(l, k) ==
    /\ l[k].what = "Finished" => k < Len(l) /\ l[k + 1].what = "finished"
    /\ l[k].what = "finished" =>
           \A n \in (k + 1)..Len(l) : l[n].what \in {"WriteMessage", "WritesDone"}

SeenOk(l, k, s, bound) ==
    l[k].what = "finished" /\ bound /\ HavingIn(s, "Finished") # <<>> =>
        k > 1 /\ l[k - 1].what = "Finished"

AnnouncedOk(l, k, s) ==
    l[k].status = "Cancelled" /\ HavingIn(s, "Cancel") # <<>> =>
        \E n \in (k - 2)..(k - 1) : n > 0 /\ l[n].what = "Cancel"

EntryOk(l, k, s, bound) ==
    ReachedOk(l, k, s) /\ OnceOk(l, k) /\ SeenOk(l, k, s, bound) /\ AnnouncedOk(l, k, s)

LogOk(l, s, bound) ==
    /\ l \in Seq(Entries)
    /\ \A k \in 1..Len(l) : EntryOk(l, k, s, bound)

Ended(l) == \E k \in 1..Len(l) : l[k].what = "finished"

RpcType(r) ==
    /\ r = [state |-> r.state, linked |-> r.linked, running |-> r.running,
            tracked |-> r.tracked, posted |-> r.posted, thread |-> r.thread, log |-> r.log]
    /\ r.state \in {"Unused", "Invalid", "Valid", "Finished", "Destroyed"}
    /\ r.linked \in BOOLEAN /\ r.running \in BOOLEAN /\ r.tracked \in BOOLEAN
    /\ r.posted \in {"none", "Aborted", "Internal", "Unavailable"} /\ r.thread \in Threads

\* What ties the state of an RPC to the posted end, to the channel that runs it,
\* to the client that tracks it and to what was called on its behalf.
Life(r, chan) ==
    /\ r.state = "Unused" =>
           r.log = <<>> /\ ~r.linked /\ ~r.running /\ ~r.tracked /\ r.posted = "none"
    /\ r.state = "Destroyed" => ~r.running /\ r.posted = "none"
    /\ r.running => r.state = "Valid" /\ r.linked /\ chan = "live" /\ r.posted = "none"
    /\ r.posted = "Aborted" => ~r.tracked
    /\ r.tracked /\ chan = "live" => r.state = "Valid" /\ (r.running \/ r.posted = "Unavailable")
    /\ Ended(r.log) => r.state \in {"Finished", "Destroyed"}
    /\ chan = "none" =>
           /\ ~r.linked /\ ~r.tracked
           /\ \A k \in 1..Len(r.log) : /\ r.log[k].what = "finished"
                                       /\ r.log[k].status # "Cancelled"

RpcOk(r, chan, s) ==
    RpcType(r) /\ Life(r, chan) /\ LogOk(r.log, s, r.linked /\ chan = "live")

\* OneOwner, of these values of the variables.
OwnedOnce(h, al, chan, c, e) ==
    /\ \A i \in Owning :
         (IF i \in h THEN 1 ELSE 0) + Times(i, c) + (IF chan = "live" THEN Times(i, e) ELSE 0)
           = IF i \in al THEN 1 ELSE 0
    /\ ToSet(c) \subseteq al
    /\ chan = "live" => ToSet(e) \subseteq al

\* A chain can do what its interceptors can.
Exact(ch) ==
    /\ ch \in Chains /\ Len(ch.interceptors) <= MaxChain
    /\ ch.combined = UNION {Capabilities[i] : i \in ToSet(ch.interceptors)}

\* The chains, and the lists that the engine made of its own.
ChainInv ==
    /\ held \subseteq Owning /\ alive \subseteq Interceptors
    /\ channel \in {"none", "live", "gone"}
    /\ engine = [chain |-> engine.chain, handlers |-> engine.handlers]
    /\ engine.handlers \in HandlerLists
    /\ \A c \in Capability : engine.handlers[c] = HavingIn(engine.chain.interceptors, c)
    /\ Exact(chain) /\ Exact(engine.chain)
    /\ OwnedOnce(held, alive, channel, chain.interceptors, engine.chain.interceptors)

RpcsInv ==
    /\ rpc = [o \in Ops |-> rpc[o]]
    /\ \A o \in Ops : RpcOk(rpc[o], channel, engine.chain.interceptors)

-----------------------------------------------------------------------------
(* The log grows.                                                          *)

\* m is the log l with more entries.
Grows(l, m) == Len(l) <= Len(m) /\ \A k \in 1..Len(l) : m[k] = l[k]

\* What was true of an entry stays true, if only writes follow the end.
LEMMA OldEntries ==
    ASSUME NEW s, NEW bound, NEW l, LogOk(l, s, bound), NEW m \in Seq(Entries), Grows(l, m),
           Ended(l) => \A n \in (Len(l) + 1)..Len(m) : m[n].what \in {"WriteMessage", "WritesDone"}
    PROVE  \A k \in 1..Len(l) : EntryOk(m, k, s, bound)
<1> SUFFICES ASSUME NEW k \in 1..Len(l) PROVE EntryOk(m, k, s, bound)
  OBVIOUS
<1>1. /\ EntryOk(l, k, s, bound) /\ Len(l) \in Nat /\ Len(m) \in Nat /\ Len(l) <= Len(m)
      /\ \A i \in 1..Len(l) : m[i] = l[i]
  BY DEF LogOk, Grows
<1>2. m[k] = l[k] /\ (k > 1 => k - 1 \in 1..Len(l)) /\ (k < Len(l) => k + 1 \in 1..Len(l))
  BY <1>1
<1>3. k > 1 => m[k - 1] = l[k - 1]
  BY <1>1, <1>2
<1>4. k < Len(l) => m[k + 1] = l[k + 1]
  BY <1>1, <1>2
<1>5. OnceOk(m, k)
  <2>1. OnceOk(l, k)
    BY <1>1 DEF EntryOk
  <2>2. l[k].what = "Finished" => k < Len(m) /\ m[k + 1].what = "finished"
    BY <1>1, <1>4, <2>1 DEF OnceOk
  <2>3. ASSUME l[k].what = "finished", NEW n \in (k + 1)..Len(m)
        PROVE  m[n].what \in {"WriteMessage", "WritesDone"}
    <3>1. Ended(l)
      BY <2>3 DEF Ended
    <3>2. CASE n \in (Len(l) + 1)..Len(m)
      BY <3>1, <3>2
    <3>3. CASE n \in (k + 1)..Len(l)
      <4>1. m[n] = l[n]
        BY <1>1, <3>3
      <4> QED BY <2>1, <2>3, <3>3, <4>1 DEF OnceOk
    <3>4. n \in (Len(l) + 1)..Len(m) \/ n \in (k + 1)..Len(l)
      BY <1>1
    <3> QED BY <3>2, <3>3, <3>4
  <2> QED BY <1>2, <2>2, <2>3 DEF OnceOk
<1>6. ReachedOk(m, k, s)
  <2>1. ReachedOk(l, k, s) /\ OnceOk(l, k)
    BY <1>1 DEF EntryOk
  <2>2. l[k].what = "Finished" => m[k + 1] = l[k + 1]
    BY <1>4, <2>1 DEF OnceOk
  <2> QED BY <1>2, <2>1, <2>2 DEF ReachedOk
<1>7. SeenOk(m, k, s, bound)
  <2>1. SeenOk(l, k, s, bound)
    BY <1>1 DEF EntryOk
  <2> QED BY <1>2, <1>3, <2>1 DEF SeenOk
<1>8. AnnouncedOk(m, k, s)
  <2>1. AnnouncedOk(l, k, s)
    BY <1>1 DEF EntryOk
  <2>2. ASSUME NEW n \in (k - 2)..(k - 1), n > 0 PROVE m[n] = l[n]
    <3>1. n \in 1..Len(l)
      BY <1>1, <2>2
    <3> QED BY <1>1, <3>1
  <2> QED BY <1>2, <2>1, <2>2 DEF AnnouncedOk
<1> QED BY <1>5, <1>6, <1>7, <1>8 DEF EntryOk

\* e is the entry of a call that may follow the log l.
MayFollow(e, l, s) ==
    /\ e \in Entries /\ e.what \notin {"Finished", "finished"} /\ e.status = "none"
    /\ e.what \in Inbound => e.who = Reverse(HavingIn(s, e.what))
    /\ e.what \in Outbound \ {"Start"} => e.who = HavingIn(s, e.what)
    /\ e.what = "Start" =>
           l = <<>> /\ e.who # <<>> /\ IsPrefix(e.who, HavingIn(s, "Start"))
    /\ Ended(l) => e.what \in {"WriteMessage", "WritesDone"}

\* A call into the chain, other than that of the end.
LEMMA CallLogged ==
    ASSUME NEW s, NEW bound, NEW l, LogOk(l, s, bound), NEW e, MayFollow(e, l, s),
           NEW m, m = Append(l, e)
    PROVE  /\ LogOk(m, s, bound) /\ Len(m) = Len(l) + 1 /\ m[Len(m)] = e
           /\ (Ended(m) <=> Ended(l))
<1> USE DEF MayFollow
<1>1. /\ l \in Seq(Entries) /\ m \in Seq(Entries) /\ Len(l) \in Nat /\ Len(m) = Len(l) + 1
      /\ m[Len(m)] = e /\ \A k \in 1..Len(l) : m[k] = l[k]
  BY DEF LogOk
<1>2. \A k \in 1..Len(m) : k \in 1..Len(l) \/ k = Len(m)
  BY <1>1
<1>3. \A k \in 1..Len(l) : EntryOk(m, k, s, bound)
  <2>1. Grows(l, m)
    BY <1>1 DEF Grows
  <2>2. \A n \in (Len(l) + 1)..Len(m) : m[n] = e
    BY <1>1
  <2> QED BY <1>1, <2>1, <2>2, OldEntries
<1>4. EntryOk(m, Len(m), s, bound)
  <2>1. ReachedOk(m, Len(m), s)
    <3>1. e.what = "Start" => Len(m) = 1
      BY <1>1
    <3> QED BY <1>1, <3>1 DEF ReachedOk
  <2>2. OnceOk(m, Len(m))
    BY <1>1 DEF OnceOk
  <2>3. SeenOk(m, Len(m), s, bound) /\ AnnouncedOk(m, Len(m), s)
    BY <1>1 DEF SeenOk, AnnouncedOk
  <2> QED BY <2>1, <2>2, <2>3 DEF EntryOk
<1>5. Ended(m) <=> Ended(l)
  <2>1. ASSUME NEW k \in 1..Len(m), m[k].what = "finished" PROVE k \in 1..Len(l) /\ l[k].what = "finished"
    BY <1>1, <1>2, <2>1
  <2>2. \A k \in 1..Len(l) : k \in 1..Len(m)
    BY <1>1
  <2> QED BY <1>1, <2>1, <2>2 DEF Ended
<1> QED BY <1>1, <1>2, <1>3, <1>4, <1>5 DEF LogOk

\* The end, which the interceptors see right before the user.
LEMMA EndLogged ==
    ASSUME NEW s, NEW bound, NEW l, LogOk(l, s, bound), ~Ended(l),
           NEW e \in Entries, e.what = "finished",
           e.status = "Cancelled" /\ HavingIn(s, "Cancel") # <<>> =>
               l # <<>> /\ l[Len(l)].what = "Cancel",
           NEW m,
           \/ m = Append(l, e) /\ (bound => HavingIn(s, "Finished") = <<>>)
           \/ \E f \in Entries :
                 /\ m = Append(Append(l, f), e)
                 /\ f.what = "Finished" /\ f.who = Reverse(HavingIn(s, "Finished"))
                 /\ f.status = "none"
                 /\ Among(HavingIn(s, "Finished"), Rewriting) # <<>> =>
                        e.status = Head(Among(HavingIn(s, "Finished"), Rewriting))
    PROVE  LogOk(m, s, bound)
<1>1. l \in Seq(Entries) /\ Len(l) \in Nat
  BY DEF LogOk
<1>2. ASSUME NEW n \in Nat, m \in Seq(Entries), Len(m) = n, n > Len(l), n <= Len(l) + 2,
             Grows(l, m), m[n] = e
      PROVE  OnceOk(m, n) /\ ReachedOk(m, n, s) /\ AnnouncedOk(m, n, s)
             /\ \A k \in 1..Len(l) : EntryOk(m, k, s, bound)
  <2>1. OnceOk(m, n) /\ ReachedOk(m, n, s)
    BY <1>2 DEF OnceOk, ReachedOk, Inbound, Outbound
  <2>2. AnnouncedOk(m, n, s)
    <3> SUFFICES ASSUME e.status = "Cancelled", HavingIn(s, "Cancel") # <<>>
                 PROVE  \E i \in (n - 2)..(n - 1) : i > 0 /\ m[i].what = "Cancel"
      BY <1>2 DEF AnnouncedOk
    <3>1. l # <<>> /\ l[Len(l)].what = "Cancel"
      OBVIOUS
    <3>2. Len(l) \in 1..Len(l) /\ Len(l) > 0 /\ Len(l) \in (n - 2)..(n - 1)
      BY <1>1, <1>2, <3>1
    <3>3. m[Len(l)] = l[Len(l)]
      BY <1>2, <3>2 DEF Grows
    <3> QED BY <3>1, <3>2, <3>3
  <2>3. \A k \in 1..Len(l) : EntryOk(m, k, s, bound)
    BY <1>2, OldEntries
  <2> QED BY <2>1, <2>2, <2>3
<1>3. CASE m = Append(l, e) /\ (bound => HavingIn(s, "Finished") = <<>>)
  <2>1. PICK n : n = Len(l) + 1 /\ n \in Nat
    BY <1>1
  <2>2. /\ m \in Seq(Entries) /\ Len(m) = n /\ m[n] = e /\ Grows(l, m)
        /\ n > Len(l) /\ n <= Len(l) + 2
    BY <1>1, <1>3, <2>1 DEF Grows
  <2>3. SeenOk(m, n, s, bound)
    BY <1>3 DEF SeenOk
  <2>4. EntryOk(m, n, s, bound) /\ \A k \in 1..Len(l) : EntryOk(m, k, s, bound)
    BY <1>2, <2>1, <2>2, <2>3 DEF EntryOk
  <2>5. \A k \in 1..Len(m) : k \in 1..Len(l) \/ k = n
    BY <1>1, <2>1, <2>2
  <2> QED BY <2>2, <2>4, <2>5 DEF LogOk
<1>4. CASE \E f \in Entries :
              /\ m = Append(Append(l, f), e)
              /\ f.what = "Finished" /\ f.who = Reverse(HavingIn(s, "Finished"))
              /\ f.status = "none"
              /\ Among(HavingIn(s, "Finished"), Rewriting) # <<>> =>
                     e.status = Head(Among(HavingIn(s, "Finished"), Rewriting))
  <2>1. PICK f \in Entries :
              /\ m = Append(Append(l, f), e)
              /\ f.what = "Finished" /\ f.who = Reverse(HavingIn(s, "Finished"))
              /\ f.status = "none"
              /\ Among(HavingIn(s, "Finished"), Rewriting) # <<>> =>
                     e.status = Head(Among(HavingIn(s, "Finished"), Rewriting))
    BY <1>4
  <2>2. PICK n : n = Len(l) + 2 /\ n \in Nat
    BY <1>1
  <2>3. PICK h : h = Append(l, f)
    OBVIOUS
  <2>4. /\ h \in Seq(Entries) /\ Len(h) = Len(l) + 1 /\ h[Len(l) + 1] = f
        /\ \A k \in 1..Len(l) : h[k] = l[k]
    BY <1>1, <2>1, <2>3
  <2>5. /\ m \in Seq(Entries) /\ Len(m) = n /\ m[n] = e
        /\ \A k \in 1..Len(h) : m[k] = h[k]
    BY <2>1, <2>2, <2>3, <2>4
  <2>6. m[n - 1] = f /\ Grows(l, m) /\ n > Len(l) /\ n <= Len(l) + 2 /\ n > 1
    BY <1>1, <2>2, <2>4, <2>5 DEF Grows
  <2>7. SeenOk(m, n, s, bound)
    BY <2>1, <2>6 DEF SeenOk
  <2>8. EntryOk(m, n, s, bound) /\ \A k \in 1..Len(l) : EntryOk(m, k, s, bound)
    BY <1>2, <2>2, <2>5, <2>6, <2>7 DEF EntryOk
  <2>9. EntryOk(m, n - 1, s, bound)
    <3>1. (n - 1) + 1 = n /\ n - 1 < n
      BY <2>2
    <3>2. OnceOk(m, n - 1)
      BY <2>1, <2>5, <2>6, <3>1 DEF OnceOk
    <3>3. ReachedOk(m, n - 1, s)
      BY <2>1, <2>5, <2>6, <3>1 DEF ReachedOk, Inbound, Outbound
    <3>4. SeenOk(m, n - 1, s, bound) /\ AnnouncedOk(m, n - 1, s)
      BY <2>1, <2>6 DEF SeenOk, AnnouncedOk
    <3> QED BY <3>2, <3>3, <3>4 DEF EntryOk
  <2>10. \A k \in 1..Len(m) : k \in 1..Len(l) \/ k = n - 1 \/ k = n
    BY <1>1, <2>2, <2>5
  <2> QED BY <2>5, <2>8, <2>9, <2>10 DEF LogOk
<1> QED BY <1>3, <1>4

-----------------------------------------------------------------------------
(* The calls of an RPC.                                                    *)

\* What the engine says of its chain is true, and the chain is s.
EngineOk(s) ==
    /\ s = engine.chain.interceptors /\ s \in Seq(Interceptors)
    /\ engine.handlers \in HandlerLists
    /\ \A c \in Capability : /\ engine.handlers[c] = HavingIn(s, c)
                             /\ HasHandlerFor(c) <=> HavingIn(s, c) # <<>>

\* The order in which Flow() takes the handlers.
FlowIn(s, c) == IF c \in Outbound THEN HavingIn(s, c) ELSE Reverse(HavingIn(s, c))

LEMMA FlowIsIt ==
    ASSUME NEW s, EngineOk(s), NEW c \in Capability
    PROVE  /\ Flow(c) = FlowIn(s, c) /\ HavingIn(s, c) \in Seq(Interceptors)
           /\ Flow(c) \in Seq(Interceptors)
           /\ Len(Flow(c)) = Len(HavingIn(s, c)) /\ Len(Flow(c)) \in Nat
<1>1. HavingIn(s, c) \in Seq(Interceptors)
  BY DEF EngineOk, HandlerLists
<1>2. Flow(c) = FlowIn(s, c)
  BY DEF EngineOk, Flow, FlowIn
<1>3. PICK h, w : h = HavingIn(s, c) /\ w = Reverse(h)
  OBVIOUS
<1>4. w \in Seq(Interceptors) /\ Len(w) = Len(h)
  BY <1>1, <1>3, ReverseType
<1> QED BY <1>1, <1>2, <1>3, <1>4 DEF FlowIn

\* Only the log of an RPC changes.
WithLog(r, l) == [r EXCEPT !.log = l]

LEMMA WithLogFields ==
    ASSUME NEW r, RpcType(r), NEW l, NEW q, q = WithLog(r, l)
    PROVE  /\ RpcType(q) /\ q.log = l /\ q.state = r.state /\ q.linked = r.linked
           /\ q.running = r.running /\ q.tracked = r.tracked /\ q.posted = r.posted
           /\ q.thread = r.thread
BY DEF RpcType, WithLog

\* The entry of a call.
LEMMA EventType ==
    ASSUME NEW c \in Capability, NEW r, RpcType(r),
           NEW who \in Seq(Interceptors), NEW e, e = Event(r, c, who)
    PROVE  /\ e \in Entries /\ e.what = c /\ e.who = who /\ e.status = "none"
BY DEF Event, Entries, RpcType

\* A call other than onStart() and onFinished() keeps the log right.
LEMMA InvokeOk ==
    ASSUME NEW s, EngineOk(s), NEW c \in Capability \ {"Start", "Finished"},
           NEW r, RpcType(r), NEW bound, LogOk(r.log, s, bound),
           Ended(r.log) => c \in {"WriteMessage", "WritesDone"},
           NEW q, q = Invoke(r, c)
    PROVE  /\ q = WithLog(r, q.log) /\ LogOk(q.log, s, bound) /\ (Ended(q.log) <=> Ended(r.log))
           /\ Lock(r) /\ HavingIn(s, c) # <<>> => q.log # <<>> /\ q.log[Len(q.log)].what = c
<1>1. CASE Lock(r) /\ HasHandlerFor(c)
  <2>1. PICK w, e, l, m : /\ w = Flow(c) /\ e = Event(r, c, w)
                          /\ l = r.log /\ m = Append(l, e)
    OBVIOUS
  <2>2. q = WithLog(r, m)
    BY <1>1, <2>1 DEF Invoke, WithLog
  <2>3. w \in Seq(Interceptors) /\ w = FlowIn(s, c)
    BY <2>1, FlowIsIt
  <2>4. e \in Entries /\ e.what = c /\ e.who = w /\ e.status = "none"
    BY <2>1, <2>3, EventType
  <2>5. q.log = m
    BY <2>2, WithLogFields
  <2>6. /\ e.what \in Inbound => e.who = Reverse(HavingIn(s, e.what))
        /\ e.what \in Outbound \ {"Start"} => e.who = HavingIn(s, e.what)
    BY <2>3, <2>4 DEF FlowIn, Inbound, Outbound
  <2>7. e.what \notin {"Finished", "finished"} /\ e.what # "Start"
    BY <2>4 DEF Capability, Inbound, Outbound
  <2>8. /\ LogOk(q.log, s, bound) /\ Len(q.log) = Len(r.log) + 1 /\ q.log[Len(q.log)] = e
        /\ (Ended(q.log) <=> Ended(r.log))
    <3>1. LogOk(l, s, bound) /\ (Ended(l) => e.what \in {"WriteMessage", "WritesDone"})
      BY <2>1, <2>4
    <3>2. LogOk(m, s, bound) /\ Len(m) = Len(l) + 1 /\ m[Len(m)] = e /\ (Ended(m) <=> Ended(l))
      <4>1. MayFollow(e, l, s)
        BY <2>4, <2>6, <2>7, <3>1 DEF MayFollow
      <4>2. m = Append(l, e)
        BY <2>1
      <4>3. LogOk(m, s, bound) /\ (Ended(m) <=> Ended(l))
        BY <3>1, <4>1, <4>2, CallLogged
      <4> QED BY <3>1, <4>1, <4>2, <4>3 DEF LogOk, MayFollow
    <3> QED BY <2>1, <2>5, <3>2
  <2>9. q.log # <<>>
    BY <2>5, <2>8 DEF LogOk
  <2> QED BY <2>2, <2>4, <2>5, <2>8, <2>9
<1>2. CASE ~(Lock(r) /\ HasHandlerFor(c))
  <2>1. q = r /\ q = WithLog(r, q.log)
    BY <1>2 DEF Invoke, WithLog, RpcType
  <2>2. ~(Lock(r) /\ HavingIn(s, c) # <<>>)
    BY <1>2 DEF EngineOk
  <2> QED BY <2>1, <2>2
<1> QED BY <1>1, <1>2

\* onStart(), up to the interceptor n.
LEMMA StartOk ==
    ASSUME NEW s, EngineOk(s), NEW r, RpcType(r), NEW bound, r.log = <<>>,
           NEW n \in 0..Len(Flow("Start")), NEW q, q = StartSeenBy(r, n)
    PROVE  q = WithLog(r, q.log) /\ LogOk(q.log, s, bound) /\ ~Ended(q.log)
<1>1. LogOk(<<>>, s, bound) /\ ~Ended(<<>>)
  BY DEF LogOk, Ended
<1>2. CASE n = 0
  <2>1. q = r /\ q = WithLog(r, q.log)
    BY <1>2 DEF StartSeenBy, WithLog, RpcType
  <2> QED BY <1>1, <2>1
<1>3. CASE n # 0
  <2>1. PICK h, w : h = HavingIn(s, "Start") /\ w = SubSeq(h, 1, n)
    OBVIOUS
  <2>2. h = Flow("Start") /\ h \in Seq(Interceptors)
    BY <2>1, FlowIsIt DEF FlowIn, Capability, Outbound
  <2>3. n \in 1..Len(h) /\ Len(h) \in Nat
    BY <1>3, <2>2
  <2>4. w \in Seq(Interceptors) /\ Len(w) = n /\ w # <<>>
    BY <2>1, <2>2, <2>3
  <2>5. IsPrefix(w, h)
    <3>1. SubSeq(w, 1, n) = SubSeq(h, 1, n)
      BY <2>1, <2>2, <2>3, <2>4
    <3> QED BY <2>3, <2>4, <3>1 DEF IsPrefix
  <2>6. PICK e : e = Event(r, "Start", w)
    OBVIOUS
  <2>7. e \in Entries /\ e.what = "Start" /\ e.who = w /\ e.status = "none"
    BY <2>4, <2>6, EventType DEF Capability, Outbound
  <2>8. q = WithLog(r, Append(<<>>, e))
    BY <1>3, <2>1, <2>2, <2>6 DEF StartSeenBy, WithLog
  <2>9. q.log = Append(<<>>, e)
    BY <2>8, WithLogFields
  <2>10. LogOk(q.log, s, bound) /\ ~Ended(q.log)
    <3>1. PICK l, m : l = <<>> /\ m = Append(l, e)
      OBVIOUS
    <3>2. e.what \notin Inbound /\ e.what \notin Outbound \ {"Start"}
      BY <2>7 DEF Inbound, Outbound
    <3>3. e.who # <<>> /\ IsPrefix(e.who, HavingIn(s, "Start"))
      BY <2>1, <2>4, <2>5, <2>7
    <3>4. LogOk(m, s, bound) /\ (Ended(m) <=> Ended(l))
      <4>1. MayFollow(e, l, s)
        BY <1>1, <2>7, <3>1, <3>2, <3>3 DEF MayFollow
      <4> QED BY <1>1, <3>1, <4>1, CallLogged
    <3> QED BY <1>1, <2>9, <3>1, <3>4
  <2> QED BY <2>8, <2>9, <2>10
<1> QED BY <1>2, <1>3

-----------------------------------------------------------------------------
(* The end of an RPC.                                                      *)

\* The RPC r has come to its end, with the log l.
EndedAs(r, l) == [r EXCEPT !.state = "Finished", !.tracked = FALSE, !.log = l]

LEMMA EndedFields ==
    ASSUME NEW r, RpcType(r), NEW l, NEW q, q = EndedAs(r, l)
    PROVE  /\ RpcType(q) /\ q.log = l /\ q.state = "Finished" /\ q.linked = r.linked
           /\ q.running = r.running /\ ~q.tracked /\ q.posted = r.posted
           /\ q.thread = r.thread
BY DEF RpcType, EndedAs

\* The entry for the user.
UserEntry(r, status) ==
    [what |-> "finished", who |-> <<>>, thread |-> r.thread, status |-> status]

LEMMA UserEntryType ==
    ASSUME NEW r, RpcType(r), NEW status \in Statuses, NEW e, e = UserEntry(r, status)
    PROVE  e \in Entries /\ e.what = "finished" /\ e.status = status
BY DEF UserEntry, Entries, RpcType

\* A cancellation has been announced to the interceptors, if any wants to know.
Announced(l, s) == HavingIn(s, "Cancel") # <<>> => l # <<>> /\ l[Len(l)].what = "Cancel"

\* finished(): the interceptors that can see the end see it, then the user.
LEMMA FinishedOk ==
    ASSUME NEW s, EngineOk(s), NEW r, RpcType(r), LogOk(r.log, s, Lock(r)), ~Ended(r.log),
           r.state # "Finished", NEW status \in Codes,
           status = "Cancelled" => Announced(r.log, s), NEW q, q = Finished(r, status)
    PROVE  /\ q = EndedAs(r, q.log) /\ LogOk(q.log, s, Lock(r))
           /\ ~Lock(r) => q.log = Append(r.log, UserEntry(r, status))
<1>1. PICK l : l = r.log /\ l \in Seq(Entries)
  BY DEF LogOk
<1>2. CASE Lock(r) /\ HasHandlerFor("Finished")
  <2>1. PICK h, who, r1, f, last, e, m :
            /\ h = HavingIn(s, "Finished") /\ who = Flow("Finished")
            /\ r1 = [r EXCEPT !.state = "Finished"] /\ f = Event(r, "Finished", who)
            /\ last = Intercepted(who, status)[Len(who)] /\ e = UserEntry(r, last)
            /\ m = Append(Append(l, f), e)
    OBVIOUS
  <2>2. who = Reverse(h) /\ h \in Seq(Interceptors) /\ who \in Seq(Interceptors)
    BY <2>1, FlowIsIt DEF FlowIn, Capability, Inbound, Outbound
  <2>3. f \in Entries /\ f.what = "Finished" /\ f.who = who /\ f.status = "none"
    <3>1. PICK c : c = "Finished" /\ c \in Capability /\ f = Event(r, c, who)
      BY <2>1 DEF Capability, Inbound
    <3>2. f \in Entries /\ f.what = c /\ f.who = who /\ f.status = "none"
      BY <2>2, <3>1, EventType
    <3> QED BY <3>1, <3>2
  <2>4. Invoke(r1, "Finished") = WithLog(r1, Append(l, f))
    <3>1. Lock(r1) /\ r1.log = l /\ Event(r1, "Finished", who) = f
      BY <1>1, <1>2, <2>1 DEF Lock, RpcType, Event
    <3> QED BY <1>2, <2>1, <3>1 DEF Invoke, WithLog
  <2>5. q = [WithLog(r1, Append(l, f)) EXCEPT !.tracked = FALSE, !.log = Append(@, e)]
    BY <1>2, <2>1, <2>4 DEF Finished, UserEntry
  <2>6. q = EndedAs(r, m) /\ q.log = m
    BY <1>1, <2>1, <2>5 DEF WithLog, EndedAs, RpcType
  <2>7. last \in Statuses /\ (last = status \/ last \in Rewriting)
        /\ (Among(h, Rewriting) # <<>> => last = Head(Among(h, Rewriting)))
    BY <2>1, <2>2, NearestDecides DEF Statuses
  <2>8. e \in Entries /\ e.what = "finished" /\ e.status = last
    BY <2>1, <2>7, UserEntryType
  <2>9. last = "Cancelled" => status = "Cancelled"
    BY <2>7, InterceptorAssumption DEF Codes
  <2>10. LogOk(m, s, Lock(r))
    <3>1. e.status = "Cancelled" /\ HavingIn(s, "Cancel") # <<>> =>
              l # <<>> /\ l[Len(l)].what = "Cancel"
      BY <1>1, <2>8, <2>9 DEF Announced
    <3>2. Among(HavingIn(s, "Finished"), Rewriting) # <<>> =>
              e.status = Head(Among(HavingIn(s, "Finished"), Rewriting))
      BY <2>1, <2>7, <2>8
    <3>3. f.who = Reverse(HavingIn(s, "Finished"))
      BY <2>1, <2>2, <2>3
    <3> QED BY <1>1, <2>1, <2>3, <2>8, <3>1, <3>2, <3>3, EndLogged
  <2> QED BY <1>2, <2>6, <2>10
<1>3. CASE ~(Lock(r) /\ HasHandlerFor("Finished"))
  <2>1. PICK r1, e, m :
            /\ r1 = [r EXCEPT !.state = "Finished"]
            /\ e = UserEntry(r, status) /\ m = Append(l, e)
    OBVIOUS
  <2>2. Invoke(r1, "Finished") = r1
    <3>1. Lock(r1) <=> Lock(r)
      BY <2>1 DEF Lock, RpcType
    <3> QED BY <1>3, <3>1 DEF Invoke
  <2>3. q = [r1 EXCEPT !.tracked = FALSE, !.log = Append(@, e)]
    BY <1>3, <2>1, <2>2 DEF Finished, UserEntry
  <2>4. q = EndedAs(r, m) /\ q.log = m
    BY <1>1, <2>1, <2>3 DEF EndedAs, RpcType
  <2>5. e \in Entries /\ e.what = "finished" /\ e.status = status
    BY <2>1, UserEntryType DEF Statuses
  <2>6. Lock(r) => HavingIn(s, "Finished") = <<>>
    BY <1>3 DEF EngineOk, Capability, Inbound
  <2>7. LogOk(m, s, Lock(r))
    <3>1. e.status = "Cancelled" /\ HavingIn(s, "Cancel") # <<>> =>
              l # <<>> /\ l[Len(l)].what = "Cancel"
      BY <1>1, <2>5 DEF Announced
    <3> QED BY <1>1, <2>1, <2>5, <2>6, <3>1, EndLogged
  <2> QED BY <1>1, <2>1, <2>4, <2>7
<1> QED BY <1>2, <1>3

\* It is emitted once.
LEMMA FinishedTwice ==
    ASSUME NEW r, r.state = "Finished", NEW status PROVE Finished(r, status) = r
BY DEF Finished

-----------------------------------------------------------------------------
(* The steps of one RPC.  The channel and its chain stay what they are.    *)

\* What RpcOk() says of r, with the chain s of a channel that is as it is now.
Well(r, s) == RpcOk(r, channel, s)

LEMMA WellFacts ==
    ASSUME NEW r, NEW s
    PROVE  Well(r, s) <=> RpcType(r) /\ Life(r, channel) /\ LogOk(r.log, s, Lock(r))
BY DEF Well, RpcOk, Lock

\* An RPC that is started: nothing has been called for it.
LEMMA ValidFacts ==
    ASSUME NEW o, NEW s, Well(rpc[o], s), MayStart(o), NEW v, v = Valid(o)
    PROVE  /\ RpcType(v) /\ v.log = <<>> /\ v.state = "Valid" /\ v.linked /\ ~v.running
           /\ ~v.tracked /\ v.posted = "none" /\ channel = "live"
<1>1. PICK r : r = rpc[o]
  OBVIOUS
<1>2. /\ RpcType(r) /\ channel = "live" /\ r.log = <<>> /\ ~r.linked /\ ~r.running /\ ~r.tracked
      /\ r.posted = "none"
  BY <1>1, WellFacts DEF MayStart, Life
<1>3. v = [r EXCEPT !.state = "Valid", !.linked = TRUE]
  BY <1>1 DEF Valid
<1> QED BY <1>2, <1>3 DEF RpcType

\* The three ways a start can end, after onStart() was called up to n.
StartsAs(v, l, state, running, tracked, post) ==
    [v EXCEPT !.log = l, !.state = state, !.running = running, !.tracked = tracked,
              !.posted = post]

LEMMA StartsWell ==
    ASSUME NEW s, EngineOk(s), NEW v, RpcType(v), v.log = <<>>, v.linked, channel = "live",
           NEW n \in 0..Len(Flow("Start")), NEW l, l = StartSeenBy(v, n).log,
           NEW state \in {"Valid", "Invalid"}, NEW running \in BOOLEAN, NEW tracked \in BOOLEAN,
           NEW post \in {"none", "Aborted", "Internal", "Unavailable"},
           running => state = "Valid" /\ post = "none",
           post = "Aborted" => ~tracked,
           tracked => state = "Valid" /\ (running \/ post = "Unavailable"),
           NEW q, q = StartsAs(v, l, state, running, tracked, post)
    PROVE  Well(q, s)
<1>1. LogOk(l, s, TRUE) /\ ~Ended(l)
  <2>1. PICK w : w = StartSeenBy(v, n)
    OBVIOUS
  <2>2. LogOk(w.log, s, TRUE) /\ ~Ended(w.log)
    BY <2>1, StartOk
  <2> QED BY <2>1, <2>2
<1>2. /\ RpcType(q) /\ q.log = l /\ q.state = state /\ q.running = running /\ q.linked
      /\ q.tracked = tracked /\ q.posted = post
  BY DEF StartsAs, RpcType
<1>3. Life(q, channel)
  BY <1>1, <1>2 DEF Life
<1>4. Lock(q) = TRUE
  BY <1>2 DEF Lock, RpcType
<1> QED BY <1>1, <1>2, <1>3, <1>4, WellFacts

\* onStart() changes nothing but the log.
LEMMA StartFields ==
    ASSUME NEW s, EngineOk(s), NEW v, RpcType(v), v.log = <<>>,
           NEW n \in 0..Len(Flow("Start")), NEW w, w = StartSeenBy(v, n)
    PROVE  w = WithLog(v, w.log)
BY StartOk

\* Dropped by an interceptor, not serialized, accepted or refused by the channel.
LEMMA StartingWell ==
    ASSUME NEW s, EngineOk(s), NEW o, Well(rpc[o], s), NEW q,
           Becomes(o, q), Dropped(o) \/ NotSerialized(o) \/ Started(o),
           rpc' = [rpc EXCEPT ![o] = q], rpc = [i \in Ops |-> rpc[i]], o \in Ops
    PROVE  Well(q, s)
<1>1. PICK r : r = rpc[o]
  OBVIOUS
<1>2. MayStart(o)
  BY DEF Dropped, NotSerialized, Started
<1>3. PICK v : v = Valid(o)
  OBVIOUS
<1>4. /\ RpcType(v) /\ v.log = <<>> /\ v.state = "Valid" /\ v.linked /\ ~v.running
      /\ ~v.tracked /\ v.posted = "none" /\ channel = "live"
  BY <1>2, <1>3, ValidFacts
<1>5. PICK N : N = Len(Flow("Start")) /\ N \in Nat
  BY FlowIsIt DEF Capability, Outbound
<1>6. \A n \in 0..N : \E l : StartSeenBy(v, n) = WithLog(v, l) /\ StartSeenBy(v, n).log = l
  BY <1>4, <1>5, StartFields
<1>7. \A x : rpc' = [rpc EXCEPT ![o] = x] => x = q
  <2>1. rpc'[o] = q
    OBVIOUS
  <2> QED BY <2>1
<1>8. CASE Dropped(o)
  <2>1. PICK n \in 1..N : q = [StartSeenBy(v, n) EXCEPT !.posted = "Aborted"]
    BY <1>3, <1>5, <1>7, <1>8 DEF Dropped, Becomes
  <2>2. PICK l : StartSeenBy(v, n) = WithLog(v, l) /\ l = StartSeenBy(v, n).log
    BY <1>5, <1>6, <2>1
  <2>3. q = StartsAs(v, l, "Valid", FALSE, FALSE, "Aborted")
    BY <1>4, <2>1, <2>2 DEF StartsAs, WithLog, RpcType
  <2>4. n \in 0..N
    BY <1>5
  <2> QED BY <1>4, <1>5, <2>2, <2>3, <2>4, StartsWell
<1>9. CASE NotSerialized(o)
  <2>1. q = Invalid(StartSeenBy(v, N), "Internal")
    BY <1>3, <1>5, <1>7, <1>9 DEF NotSerialized, Becomes
  <2>2. N \in 0..N
    BY <1>5
  <2>3. PICK l : StartSeenBy(v, N) = WithLog(v, l) /\ l = StartSeenBy(v, N).log
    BY <1>6, <2>2
  <2>4. q = StartsAs(v, l, "Invalid", FALSE, FALSE, "Internal")
    BY <1>4, <2>1, <2>3 DEF StartsAs, WithLog, RpcType, Invalid
  <2> QED BY <1>4, <1>5, <2>2, <2>3, <2>4, StartsWell
<1>10. CASE Started(o)
  <2>1. PICK accepted \in BOOLEAN :
            q = [StartSeenBy(v, N) EXCEPT !.running = accepted, !.tracked = TRUE,
                     !.posted = IF accepted THEN "none" ELSE "Unavailable"]
    BY <1>3, <1>5, <1>7, <1>10 DEF Started, Becomes
  <2>2. N \in 0..N
    BY <1>5
  <2>3. PICK l, post : /\ StartSeenBy(v, N) = WithLog(v, l) /\ l = StartSeenBy(v, N).log
                       /\ post = IF accepted THEN "none" ELSE "Unavailable"
    BY <1>6, <2>2
  <2>4. q = StartsAs(v, l, "Valid", accepted, TRUE, post)
    BY <1>4, <2>1, <2>3 DEF StartsAs, WithLog, RpcType
  <2> QED BY <1>4, <1>5, <2>2, <2>3, <2>4, StartsWell
<1> QED BY <1>8, <1>9, <1>10

\* An RPC that cannot be started.
LEMMA NotStartableWell ==
    ASSUME NEW s, EngineOk(s), NEW o \in Ops, Well(rpc[o], s), NEW t \in Threads, NotStartable(o, t),
           rpc = [i \in Ops |-> rpc[i]], NEW q, rpc' = [rpc EXCEPT ![o] = q]
    PROVE  Well(q, s)
<1>1. PICK r : r = rpc[o]
  OBVIOUS
<1>2. /\ RpcType(r) /\ r.log = <<>> /\ ~r.linked /\ ~r.running /\ ~r.tracked /\ r.posted = "none"
  BY <1>1, WellFacts DEF NotStartable, Life
<1>3. rpc'[o] = q /\ \A x : rpc' = [rpc EXCEPT ![o] = x] => x = q
  <2>1. rpc'[o] = q
    OBVIOUS
  <2> QED BY <2>1
<1>4. \/ q = Invalid([r EXCEPT !.thread = t], "Aborted") /\ channel = "none"
      \/ q = Invalid([r EXCEPT !.thread = t, !.linked = TRUE], "Aborted") /\ channel = "live"
  BY <1>1, <1>3 DEF NotStartable, Becomes
<1>5. /\ RpcType(q) /\ q.log = <<>> /\ ~q.running /\ ~q.tracked /\ q.posted = "Aborted"
      /\ q.state = "Invalid" /\ (channel = "none" => ~q.linked) /\ channel \in {"none", "live"}
  BY <1>2, <1>4 DEF Invalid, RpcType
<1>6. LogOk(q.log, s, Lock(q)) /\ ~Ended(q.log)
  BY <1>5 DEF LogOk, Ended
<1>7. Life(q, channel)
  BY <1>5, <1>6 DEF Life
<1> QED BY <1>5, <1>6, <1>7, WellFacts

\* A call is made for an RPC that goes on.
LEMMA InvokedWell ==
    ASSUME NEW s, EngineOk(s), NEW r, Well(r, s), NEW c \in Capability \ {"Start", "Finished"},
           Lock(r), r.state # "Unused",
           c \in {"WriteMessage", "WritesDone"} \/ r.state \in {"Valid", "Invalid"},
           NEW q, q = Invoke(r, c)
    PROVE  /\ Well(q, s) /\ q = WithLog(r, q.log) /\ Lock(q)
           /\ c = "Cancel" => Announced(q.log, s)
<1>1. RpcType(r) /\ Life(r, channel) /\ LogOk(r.log, s, Lock(r)) /\ channel = "live"
  BY WellFacts DEF Lock
<1>2. Ended(r.log) => c \in {"WriteMessage", "WritesDone"}
  BY <1>1 DEF Life
<1>3. /\ q = WithLog(r, q.log) /\ LogOk(q.log, s, Lock(r)) /\ (Ended(q.log) <=> Ended(r.log))
      /\ HavingIn(s, c) # <<>> => q.log # <<>> /\ q.log[Len(q.log)].what = c
  <2>1. PICK bound : bound = Lock(r)
    OBVIOUS
  <2>2. /\ q = WithLog(r, q.log) /\ LogOk(q.log, s, bound) /\ (Ended(q.log) <=> Ended(r.log))
        /\ Lock(r) /\ HavingIn(s, c) # <<>> => q.log # <<>> /\ q.log[Len(q.log)].what = c
    <3>1. LogOk(r.log, s, bound)
      BY <1>1, <2>1
    <3>2. /\ q = WithLog(r, q.log)
          /\ Lock(r) /\ HavingIn(s, c) # <<>> => q.log # <<>> /\ q.log[Len(q.log)].what = c
      BY <1>1, <1>2, <3>1, InvokeOk
    <3>3. LogOk(q.log, s, bound)
      BY <1>1, <1>2, <3>1, InvokeOk
    <3>4. Ended(q.log) <=> Ended(r.log)
      BY <1>1, <1>2, <3>1, InvokeOk
    <3> QED BY <3>2, <3>3, <3>4
  <2> QED BY <2>1, <2>2
<1>4. PICK l : l = q.log /\ q = WithLog(r, l)
  BY <1>3
<1>5. /\ RpcType(q) /\ q.state = r.state /\ q.linked = r.linked /\ q.running = r.running
      /\ q.tracked = r.tracked /\ q.posted = r.posted
  BY <1>1, <1>4, WithLogFields
<1>6. Life(q, channel)
  BY <1>1, <1>3, <1>5 DEF Life
<1>7. Lock(q) = Lock(r)
  BY <1>5 DEF Lock
<1> QED BY <1>1, <1>3, <1>5, <1>6, <1>7, WellFacts DEF Announced

\* The handler ends the RPC it runs.
LEMMA EndWell ==
    ASSUME NEW s, EngineOk(s), NEW r, Well(r, s), r.running, NEW status \in Codes,
           status = "Cancelled" => Announced(r.log, s), NEW q, q = End(r, status)
    PROVE  Well(q, s)
<1>1. /\ RpcType(r) /\ Life(r, channel) /\ LogOk(r.log, s, Lock(r)) /\ channel = "live"
      /\ r.state = "Valid" /\ r.linked /\ ~Ended(r.log) /\ r.posted = "none"
  BY WellFacts DEF Life
<1>2. PICK r1 : r1 = [r EXCEPT !.running = FALSE]
  OBVIOUS
<1>3. /\ RpcType(r1) /\ r1.log = r.log /\ r1.state = "Valid" /\ r1.linked /\ ~r1.running
      /\ r1.posted = "none"
  BY <1>1, <1>2 DEF RpcType
<1>4. Lock(r1) = Lock(r)
  BY <1>1, <1>3 DEF Lock
<1>5. q = Finished(r1, status)
  BY <1>2 DEF End
<1>6. q = EndedAs(r1, q.log) /\ LogOk(q.log, s, Lock(r1))
  BY <1>1, <1>3, <1>4, <1>5, FinishedOk
<1>7. PICK l : l = q.log /\ q = EndedAs(r1, l)
  BY <1>6
<1>8. /\ RpcType(q) /\ q.state = "Finished" /\ q.linked /\ ~q.running /\ ~q.tracked
      /\ q.posted = "none"
  BY <1>3, <1>7, EndedFields
<1>9. Life(q, channel)
  BY <1>1, <1>8 DEF Life
<1>10. Lock(q) = Lock(r1)
  BY <1>3, <1>8 DEF Lock
<1> QED BY <1>6, <1>8, <1>9, <1>10, WellFacts

\* Cancelling, once the interceptors have been told.
LEMMA CancelWell ==
    ASSUME NEW s, EngineOk(s), NEW r, Well(r, s), Announced(r.log, s),
           NEW q, q = CancelRequested(r)
    PROVE  Well(q, s)
<1>1. CASE r.running
  <2>1. q = End(r, "Cancelled")
    BY <1>1 DEF CancelRequested
  <2> QED BY <1>1, <2>1, EndWell DEF Codes
<1>2. CASE ~r.running
  BY <1>2 DEF CancelRequested
<1> QED BY <1>1, <1>2

\* A message that cannot be serialized: the second of the two ends is ignored.
LEMMA WriteFailsWell ==
    ASSUME NEW s, EngineOk(s), NEW r, Well(r, s), Lock(r), r.state \in {"Valid", "Invalid", "Finished"},
           NEW q, q = CancelRequested(Finished(r, "Internal"))
    PROVE  Well(q, s)
<1>1. RpcType(r) /\ Life(r, channel) /\ LogOk(r.log, s, Lock(r)) /\ channel = "live"
  BY WellFacts DEF Lock
<1>2. CASE r.state = "Finished"
  <2>1. Finished(r, "Internal") = r /\ ~r.running
    BY <1>1, <1>2, FinishedTwice DEF Life
  <2>2. q = r
    BY <2>1 DEF CancelRequested
  <2> QED BY <2>2
<1>3. CASE r.state # "Finished"
  <2>1. PICK f : f = Finished(r, "Internal")
    OBVIOUS
  <2>2. ~Ended(r.log)
    BY <1>1, <1>3 DEF Life
  <2>3. f = EndedAs(r, f.log) /\ LogOk(f.log, s, Lock(r))
    <3>1. PICK status : status = "Internal" /\ status \in Codes
      BY DEF Codes
    <3> QED BY <1>1, <1>3, <2>1, <2>2, <3>1, FinishedOk
  <2>4. PICK l : l = f.log /\ f = EndedAs(r, l)
    BY <2>3
  <2>5. /\ RpcType(f) /\ f.log = l /\ f.state = "Finished" /\ f.linked = r.linked
        /\ f.running = r.running /\ ~f.tracked /\ f.posted = r.posted
    BY <1>1, <2>4, EndedFields
  <2>6. q = [f EXCEPT !.running = FALSE]
    <3>1. CASE f.running
      <4>1. PICK g : g = [f EXCEPT !.running = FALSE]
        OBVIOUS
      <4>2. g.state = "Finished"
        BY <2>5, <4>1 DEF RpcType
      <4>3. q = Finished(g, "Cancelled")
        BY <2>1, <3>1, <4>1 DEF CancelRequested, End
      <4> QED BY <4>1, <4>2, <4>3, FinishedTwice
    <3>2. CASE ~f.running
      <4>1. q = f
        BY <2>1, <3>2 DEF CancelRequested
      <4> QED BY <2>5, <3>2, <4>1 DEF RpcType
    <3> QED BY <3>1, <3>2
  <2>7. /\ RpcType(q) /\ q.log = l /\ q.state = "Finished" /\ q.linked = r.linked /\ ~q.running
        /\ ~q.tracked /\ q.posted = r.posted
    BY <2>5, <2>6 DEF RpcType
  <2>8. Life(q, channel)
    BY <1>1, <2>7 DEF Life
  <2>9. Lock(q) = Lock(r)
    BY <2>7 DEF Lock
  <2> QED BY <2>3, <2>4, <2>7, <2>8, <2>9, WellFacts
<1> QED BY <1>2, <1>3

\* A posted end is delivered.
LEMMA DispatchWell ==
    ASSUME NEW s, EngineOk(s), NEW r, Well(r, s), r.posted # "none",
           NEW q, q = Finished([r EXCEPT !.posted = "none"], r.posted)
    PROVE  Well(q, s)
<1>1. /\ RpcType(r) /\ Life(r, channel) /\ LogOk(r.log, s, Lock(r)) /\ ~r.running
      /\ r.state \in {"Valid", "Invalid", "Finished"}
  BY WellFacts DEF Life, RpcType
<1>2. PICK r1, status : /\ r1 = [r EXCEPT !.posted = "none"] /\ status = r.posted
                        /\ status \in {"Aborted", "Internal", "Unavailable"}
  BY <1>1 DEF RpcType
<1>3. /\ RpcType(r1) /\ r1.log = r.log /\ r1.state = r.state /\ r1.linked = r.linked /\ ~r1.running
      /\ r1.tracked = r.tracked /\ r1.posted = "none"
  BY <1>1, <1>2 DEF RpcType
<1>4. Lock(r1) = Lock(r)
  BY <1>3 DEF Lock
<1>5. CASE r.state = "Finished"
  <2>1. q = r1
    BY <1>2, <1>3, <1>5, FinishedTwice
  <2>2. Life(q, channel)
    BY <1>1, <1>3, <1>5, <2>1 DEF Life
  <2> QED BY <1>1, <1>3, <1>4, <2>1, <2>2, WellFacts
<1>6. CASE r.state # "Finished"
  <2>1. ~Ended(r1.log)
    BY <1>1, <1>3, <1>6 DEF Life
  <2>2. /\ q = EndedAs(r1, q.log) /\ LogOk(q.log, s, Lock(r1))
        /\ ~Lock(r1) => q.log = Append(r1.log, UserEntry(r1, status))
    <3>1. status \in Codes /\ status # "Cancelled"
      BY <1>2 DEF Codes
    <3>2. q = Finished(r1, status)
      BY <1>2
    <3>3. LogOk(r1.log, s, Lock(r1)) /\ r1.state # "Finished"
      BY <1>1, <1>3, <1>4, <1>6
    <3> QED BY <1>3, <2>1, <3>1, <3>2, <3>3, FinishedOk
  <2>3. PICK l : l = q.log /\ q = EndedAs(r1, l)
    BY <2>2
  <2>4. /\ RpcType(q) /\ q.log = l /\ q.state = "Finished" /\ q.linked = r1.linked
        /\ ~q.running /\ ~q.tracked /\ q.posted = "none"
    BY <1>3, <2>3, EndedFields
  <2>5. channel = "none" =>
            ~q.linked /\ \A k \in 1..Len(l) : l[k].what = "finished" /\ l[k].status # "Cancelled"
    <3> SUFFICES ASSUME channel = "none"
                 PROVE  ~q.linked /\ \A k \in 1..Len(l) : /\ l[k].what = "finished"
                                                          /\ l[k].status # "Cancelled"
      OBVIOUS
    <3>1. ~q.linked /\ \A k \in 1..Len(r.log) : /\ r.log[k].what = "finished"
                                                /\ r.log[k].status # "Cancelled"
      BY <1>1, <1>3, <2>4 DEF Life
    <3>2. PICK h, e : h = r.log /\ h \in Seq(Entries) /\ e = UserEntry(r1, status)
      BY <1>1 DEF LogOk
    <3>3. l = Append(h, e)
      BY <1>3, <2>2, <2>3, <3>2 DEF Lock
    <3>4. e \in Entries /\ e.what = "finished" /\ e.status = status
      BY <1>2, <1>3, <3>2, UserEntryType DEF Statuses, Codes
    <3>5. \A k \in 1..Len(l) : (k \in 1..Len(h) /\ l[k] = h[k]) \/ l[k] = e
      BY <3>2, <3>3, <3>4
    <3> QED BY <1>2, <3>1, <3>2, <3>4, <3>5
  <2>6. Life(q, channel)
    BY <2>4, <2>5 DEF Life
  <2>7. Lock(q) = Lock(r1)
    BY <2>4 DEF Lock
  <2> QED BY <2>2, <2>4, <2>6, <2>7, WellFacts
<1> QED BY <1>5, <1>6

\* An RPC is destroyed.
LEMMA DestroyWell ==
    ASSUME NEW s, NEW r, Well(r, s), r.state \in {"Valid", "Invalid", "Finished"}, NEW q,
           q = [r EXCEPT !.state = "Destroyed", !.posted = "none", !.running = FALSE,
                         !.tracked = FALSE]
    PROVE  Well(q, s)
<1>1. RpcType(r) /\ Life(r, channel) /\ LogOk(r.log, s, Lock(r))
  BY WellFacts
<1>2. /\ RpcType(q) /\ q.log = r.log /\ q.linked = r.linked /\ q.state = "Destroyed"
      /\ ~q.running /\ ~q.tracked /\ q.posted = "none"
  BY <1>1 DEF RpcType
<1>3. Life(q, channel)
  BY <1>1, <1>2 DEF Life
<1>4. Lock(q) = Lock(r)
  BY <1>2 DEF Lock
<1> QED BY <1>1, <1>2, <1>3, <1>4, WellFacts

\* The channel goes.  What it runs ends, and no interceptor is told.
LEMMA GoneOk ==
    ASSUME NEW s, NEW r, RpcOk(r, "live", s), NEW q,
           q = IF r.running
               THEN [r EXCEPT !.running = FALSE, !.tracked = FALSE, !.state = "Finished",
                       !.log = Append(@, [what |-> "finished", who |-> <<>>,
                                          thread |-> Main, status |-> "Unavailable"])]
               ELSE [r EXCEPT !.tracked = FALSE]
    PROVE  RpcOk(q, "gone", s)
<1>1. RpcType(r) /\ Life(r, "live") /\ LogOk(r.log, s, r.linked)
  BY DEF RpcOk, RpcType
<1>2. LogOk(r.log, s, FALSE)
  BY <1>1 DEF LogOk, EntryOk, SeenOk
<1>3. CASE r.running
  <2>1. PICK l, e, m : /\ l = r.log /\ m = Append(l, e)
                       /\ e = [what |-> "finished", who |-> <<>>, thread |-> Main,
                               status |-> "Unavailable"]
    OBVIOUS
  <2>2. /\ RpcType(q) /\ q.log = m /\ q.state = "Finished" /\ ~q.running /\ ~q.tracked
        /\ q.posted = "none"
    BY <1>1, <1>3, <2>1 DEF RpcType, Life
  <2>3. e \in Entries /\ e.what = "finished" /\ e.status # "Cancelled"
    BY <2>1, InterceptorAssumption DEF Entries, Statuses, Codes
  <2>4. ~Ended(l)
    BY <1>1, <1>3, <2>1 DEF Life
  <2>5. LogOk(m, s, FALSE)
    BY <1>2, <2>1, <2>3, <2>4, EndLogged
  <2>6. Life(q, "gone")
    BY <2>2 DEF Life
  <2> QED BY <2>2, <2>5, <2>6 DEF RpcOk
<1>4. CASE ~r.running
  <2>1. /\ RpcType(q) /\ q.log = r.log /\ q.state = r.state /\ ~q.running /\ ~q.tracked
        /\ q.posted = r.posted /\ q.linked = r.linked
    BY <1>1, <1>4 DEF RpcType
  <2>2. Life(q, "gone")
    BY <1>1, <2>1 DEF Life
  <2> QED BY <1>2, <2>1, <2>2 DEF RpcOk
<1> QED BY <1>3, <1>4

\* A channel is created.  What ended before was not bound to it.
LEMMA NewOk ==
    ASSUME NEW s, NEW z, NEW r, RpcOk(r, "none", s) PROVE RpcOk(r, "live", z)
<1>1. RpcType(r) /\ Life(r, "none") /\ LogOk(r.log, s, FALSE)
  BY DEF RpcOk
<1>2. ~r.linked
  BY <1>1 DEF Life
<1>3. LogOk(r.log, z, r.linked /\ "live" = "live")
  <2>1. PICK l : l = r.log
    OBVIOUS
  <2>2. l \in Seq(Entries) /\ \A k \in 1..Len(l) : /\ OnceOk(l, k) /\ l[k].what = "finished"
                                                   /\ l[k].status # "Cancelled"
    BY <1>1, <2>1 DEF Life, LogOk, EntryOk
  <2>3. ASSUME NEW k \in 1..Len(l) PROVE EntryOk(l, k, z, r.linked /\ "live" = "live")
    <3>1. ReachedOk(l, k, z)
      BY <2>2, <2>3 DEF ReachedOk, Inbound, Outbound
    <3>2. SeenOk(l, k, z, r.linked /\ "live" = "live") /\ AnnouncedOk(l, k, z)
      BY <1>2, <2>2, <2>3 DEF SeenOk, AnnouncedOk
    <3> QED BY <2>2, <2>3, <3>1, <3>2 DEF EntryOk
  <2> QED BY <2>1, <2>2, <2>3 DEF LogOk
<1>4. Life(r, "live")
  BY <1>1 DEF Life
<1> QED BY <1>1, <1>3, <1>4 DEF RpcOk

-----------------------------------------------------------------------------
(* Every step keeps the RPCs right.                                        *)

\* The engine knows who of its chain has a capability, and whether any has.
LEMMA EngineFacts == ASSUME ChainInv PROVE EngineOk(engine.chain.interceptors)
<1>1. PICK ch, s : /\ ch = engine.chain /\ s = ch.interceptors
                   /\ s \in Seq(Interceptors)
  BY DEF ChainInv, Exact, Chains
<1>2. ch.combined = UNION {Capabilities[i] : i \in ToSet(s)}
  BY <1>1 DEF ChainInv, Exact
<1>3. ASSUME NEW c \in Capability
      PROVE  engine.handlers[c] = HavingIn(s, c) /\ (HasHandlerFor(c) <=> HavingIn(s, c) # <<>>)
  <2>1. engine.handlers[c] = HavingIn(s, c)
    BY <1>1, <1>3 DEF ChainInv
  <2>2. HasHandlerFor(c) <=> \E k \in 1..Len(s) : s[k] \in Able(c)
    <3>1. HasHandlerFor(c) <=> \E i \in ToSet(s) : c \in Capabilities[i]
      BY <1>1, <1>2 DEF HasHandlerFor
    <3>2. \A i : i \in ToSet(s) <=> \E k \in 1..Len(s) : s[k] = i
      BY <1>1 DEF ToSet
    <3>3. \A k \in 1..Len(s) : s[k] \in Interceptors
      BY <1>1
    <3> QED BY <3>1, <3>2, <3>3 DEF Able
  <2>3. HavingIn(s, c) # <<>> <=> \E k \in 1..Len(s) : s[k] \in Able(c)
    <3>1. ASSUME NEW k \in 1..Len(s), s[k] \in Able(c) PROVE Among(s, Able(c)) # <<>>
      BY <1>1, <3>1, AmongNone
    <3>2. ASSUME \A k \in 1..Len(s) : s[k] \notin Able(c) PROVE Among(s, Able(c)) = <<>>
      BY <1>1, <3>2, AmongFirst
    <3> QED BY <3>1, <3>2 DEF HavingIn
  <2> QED BY <2>1, <2>2, <2>3
<1>4. engine.handlers \in HandlerLists
  BY DEF ChainInv
<1> QED BY <1>1, <1>3, <1>4 DEF EngineOk

\* One RPC changes.
LEMMA OneChanges ==
    ASSUME RpcsInv, NEW o \in Ops, NEW q, Becomes(o, q)
    PROVE  /\ rpc = [i \in Ops |-> rpc[i]] /\ rpc' = [rpc EXCEPT ![o] = q] /\ q = rpc'[o]
           /\ Well(rpc[o], engine.chain.interceptors)
           /\ Well(q, engine.chain.interceptors) => RpcsInv'
<1>1. /\ rpc = [i \in Ops |-> rpc[i]] /\ rpc' = [rpc EXCEPT ![o] = q]
      /\ channel' = channel /\ engine' = engine
  BY DEF RpcsInv, Becomes
<1>2. rpc' = [i \in Ops |-> IF i = o THEN q ELSE rpc[i]]
  BY <1>1
<1>3. /\ rpc' = [i \in Ops |-> rpc'[i]] /\ rpc'[o] = q
      /\ \A i \in Ops : i # o => rpc'[i] = rpc[i]
  BY <1>2
<1>4. \A i \in Ops : RpcOk(rpc[i], channel, engine.chain.interceptors)
  BY DEF RpcsInv
<1>5. ASSUME Well(q, engine.chain.interceptors) PROVE RpcsInv'
  <2>1. \A i \in Ops : RpcOk(rpc'[i], channel, engine.chain.interceptors)
    BY <1>3, <1>4, <1>5 DEF Well
  <2> QED BY <1>1, <1>3, <2>1 DEF RpcsInv
<1> QED BY <1>1, <1>3, <1>4, <1>5 DEF Well

\* What the user asks of an RPC.
LEMMA AskedOk ==
    ASSUME ChainInv, RpcsInv, NEW o \in Ops,
           WriteMessage(o) \/ WriteFails(o) \/ WritesDone(o) \/ Cancel(o) \/ Destroy(o)
    PROVE  RpcsInv'
<1>1. PICK s, r : s = engine.chain.interceptors /\ r = rpc[o] /\ EngineOk(s)
  BY EngineFacts
<1>2. Well(r, s)
  BY <1>1 DEF RpcsInv, Well
<1>3. CASE WriteMessage(o)
  <2>1. PICK q, c : /\ c = "WriteMessage" /\ c \in Capability \ {"Start", "Finished"}
                    /\ q = Invoke(r, c) /\ Becomes(o, q) /\ Lock(r) /\ r.state # "Unused"
    BY <1>1, <1>3 DEF WriteMessage, Exists, Capability, Outbound
  <2>2. Well(q, s)
    BY <1>1, <1>2, <2>1, InvokedWell
  <2> QED BY <1>1, <2>1, <2>2, OneChanges
<1>4. CASE WritesDone(o)
  <2>1. PICK q, c : /\ c = "WritesDone" /\ c \in Capability \ {"Start", "Finished"}
                    /\ q = Invoke(r, c) /\ Becomes(o, q) /\ Lock(r) /\ r.state # "Unused"
    BY <1>1, <1>4 DEF WritesDone, Exists, Capability, Outbound
  <2>2. Well(q, s)
    BY <1>1, <1>2, <2>1, InvokedWell
  <2> QED BY <1>1, <2>1, <2>2, OneChanges
<1>5. CASE WriteFails(o)
  <2>1. PICK w, q, c : /\ c = "WriteMessage" /\ c \in Capability \ {"Start", "Finished"}
                       /\ w = Invoke(r, c) /\ q = CancelRequested(Finished(w, "Internal"))
                       /\ Becomes(o, q) /\ Lock(r)
                       /\ r.state \in {"Valid", "Invalid", "Finished"}
    BY <1>1, <1>5 DEF WriteFails, Exists, Capability, Outbound
  <2>2. Well(w, s) /\ Lock(w) /\ w = WithLog(r, w.log)
    BY <1>1, <1>2, <2>1, InvokedWell
  <2>3. w.state = r.state
    <3>1. PICK l : l = w.log /\ w = WithLog(r, l)
      BY <2>2
    <3>2. RpcType(r)
      BY <1>2, WellFacts
    <3> QED BY <3>1, <3>2, WithLogFields
  <2>4. Well(q, s)
    BY <1>1, <2>1, <2>2, <2>3, WriteFailsWell
  <2> QED BY <1>1, <2>1, <2>4, OneChanges
<1>6. CASE Cancel(o)
  <2>1. PICK w, q, c : /\ c = "Cancel" /\ c \in Capability \ {"Start", "Finished"}
                       /\ w = Invoke(r, c) /\ q = CancelRequested(w)
                       /\ Becomes(o, q) /\ Lock(r) /\ r.state \in {"Valid", "Invalid"}
    BY <1>1, <1>6 DEF Cancel, Exists, Capability, Outbound
  <2>2. Well(w, s) /\ Announced(w.log, s)
    BY <1>1, <1>2, <2>1, InvokedWell
  <2>3. Well(q, s)
    BY <1>1, <2>1, <2>2, CancelWell
  <2> QED BY <1>1, <2>1, <2>3, OneChanges
<1>7. CASE Destroy(o)
  <2>1. PICK q : /\ q = [r EXCEPT !.state = "Destroyed", !.posted = "none",
                                  !.running = FALSE, !.tracked = FALSE]
                 /\ Becomes(o, q) /\ r.state \in {"Valid", "Invalid", "Finished"}
    BY <1>1, <1>7 DEF Destroy, Exists
  <2>2. Well(q, s)
    BY <1>2, <2>1, DestroyWell
  <2> QED BY <1>1, <2>1, <2>2, OneChanges
<1> QED BY <1>3, <1>4, <1>5, <1>6, <1>7

\* What the channel does to an RPC, and the delivery of a posted end.
LEMMA AnsweredOk ==
    ASSUME ChainInv, RpcsInv, NEW o \in Ops, Dispatch(o) \/ Deliver(o) \/ ChannelFinishes(o)
    PROVE  RpcsInv'
<1>1. PICK s, r : s = engine.chain.interceptors /\ r = rpc[o] /\ EngineOk(s)
  BY EngineFacts
<1>2. Well(r, s)
  BY <1>1 DEF RpcsInv, Well
<1>3. CASE Dispatch(o)
  <2>1. PICK q : /\ q = Finished([r EXCEPT !.posted = "none"], r.posted) /\ Becomes(o, q)
                 /\ r.posted # "none"
    BY <1>1, <1>3 DEF Dispatch
  <2>2. Well(q, s)
    BY <1>1, <1>2, <2>1, DispatchWell
  <2> QED BY <1>1, <2>1, <2>2, OneChanges
<1>4. CASE Deliver(o)
  <2>1. PICK q, c : /\ c \in Capability \ {"Start", "Finished"}
                    /\ q = Invoke(r, c) /\ Becomes(o, q) /\ r.running
    BY <1>1, <1>4 DEF Deliver, Capability, Inbound
  <2>2. Lock(r) /\ r.state = "Valid"
    BY <1>2, <2>1, WellFacts DEF Life, Lock
  <2>3. Well(q, s)
    BY <1>1, <1>2, <2>1, <2>2, InvokedWell
  <2> QED BY <1>1, <2>1, <2>3, OneChanges
<1>5. CASE ChannelFinishes(o)
  <2>1. PICK q, status : /\ status \in Codes /\ status # "Cancelled"
                         /\ q = End(r, status) /\ Becomes(o, q) /\ r.running
    BY <1>1, <1>5 DEF ChannelFinishes, Codes
  <2>2. Well(q, s)
    BY <1>1, <1>2, <2>1, EndWell
  <2> QED BY <1>1, <2>1, <2>2, OneChanges
<1> QED BY <1>3, <1>4, <1>5

\* The start of an RPC.
LEMMA StartingOk ==
    ASSUME ChainInv, RpcsInv, NEW o \in Ops,
           \/ \E t \in Threads : NotStartable(o, t)
           \/ Dropped(o) \/ NotSerialized(o) \/ Started(o)
    PROVE  RpcsInv'
<1>1. PICK s : s = engine.chain.interceptors /\ EngineOk(s)
  BY EngineFacts
<1>2. Well(rpc[o], s)
  BY <1>1 DEF RpcsInv, Well
<1>3. CASE \E t \in Threads : NotStartable(o, t)
  <2>1. PICK t \in Threads : NotStartable(o, t)
    BY <1>3
  <2>2. PICK q : Becomes(o, q)
    BY <2>1 DEF NotStartable
  <2>3. rpc = [i \in Ops |-> rpc[i]] /\ rpc' = [rpc EXCEPT ![o] = q]
    BY <2>2, OneChanges
  <2>4. Well(q, s)
    BY <1>1, <1>2, <2>1, <2>3, NotStartableWell
  <2> QED BY <1>1, <2>2, <2>4, OneChanges
<1>4. CASE Dropped(o) \/ NotSerialized(o) \/ Started(o)
  <2>1. PICK q : Becomes(o, q)
    BY <1>4 DEF Dropped, NotSerialized, Started
  <2>2. rpc = [i \in Ops |-> rpc[i]] /\ rpc' = [rpc EXCEPT ![o] = q]
    BY <2>1, OneChanges
  <2>3. Well(q, s)
    BY <1>1, <1>2, <1>4, <2>1, <2>2, StartingWell
  <2> QED BY <1>1, <2>1, <2>3, OneChanges
<1> QED BY <1>3, <1>4

\* No step leaves an RPC in a state it may not be in.
LEMMA RpcsStep == ASSUME ChainInv, RpcsInv, [Next]_vars PROVE RpcsInv'
<1>1. ASSUME UNCHANGED <<channel, engine, rpc>> PROVE RpcsInv'
  BY <1>1 DEF RpcsInv
<1>2. CASE UNCHANGED vars \/ Clear
           \/ (\E i \in Interceptors : Add(i) \/ DeleteRaw(i))
           \/ \E s \in SetArguments : Set(s)
  BY <1>1, <1>2 DEF vars, Clear, Add, DeleteRaw, Set
<1>3. CASE CreateChannel
  <2>1. channel = "none" /\ channel' = "live" /\ rpc' = rpc
    BY <1>3 DEF CreateChannel
  <2>2. \A o \in Ops : RpcOk(rpc[o], "none", engine.chain.interceptors)
    BY <2>1 DEF RpcsInv
  <2>3. \A o \in Ops : RpcOk(rpc[o], "live", engine'.chain.interceptors)
    BY <2>2, NewOk
  <2> QED BY <2>1, <2>3 DEF RpcsInv
<1>4. CASE DestroyChannel
  <2>1. channel = "live" /\ channel' = "gone" /\ engine' = engine
    BY <1>4 DEF DestroyChannel
  <2>2. ASSUME NEW o \in Ops PROVE RpcOk(rpc'[o], "gone", engine.chain.interceptors)
    <3>1. PICK r, q : r = rpc[o] /\ q = rpc'[o]
      OBVIOUS
    <3>2. RpcOk(r, "live", engine.chain.interceptors)
      BY <2>1, <3>1 DEF RpcsInv
    <3>3. q = IF r.running
              THEN [r EXCEPT !.running = FALSE, !.tracked = FALSE, !.state = "Finished",
                      !.log = Append(@, [what |-> "finished", who |-> <<>>,
                                         thread |-> Main, status |-> "Unavailable"])]
              ELSE [r EXCEPT !.tracked = FALSE]
      BY <1>4, <2>2, <3>1 DEF DestroyChannel
    <3> QED BY <3>1, <3>2, <3>3, GoneOk
  <2>3. rpc' = [o \in Ops |-> rpc'[o]]
    BY <1>4 DEF DestroyChannel
  <2> QED BY <2>1, <2>2, <2>3 DEF RpcsInv
<1>5. ASSUME NEW o \in Ops,
             \/ \E t \in Threads : NotStartable(o, t)
             \/ Dropped(o) \/ NotSerialized(o) \/ Started(o) \/ Dispatch(o)
             \/ WriteMessage(o) \/ WriteFails(o) \/ WritesDone(o) \/ Cancel(o)
             \/ Deliver(o) \/ ChannelFinishes(o) \/ Destroy(o)
      PROVE  RpcsInv'
  BY <1>5, StartingOk, AskedOk, AnsweredOk
<1> QED BY <1>2, <1>3, <1>4, <1>5 DEF Next

-----------------------------------------------------------------------------
(* Who owns an interceptor.                                                *)

\* How often an interceptor is in a list.
LEMMA TimesType ==
    ASSUME NEW s \in Seq(Interceptors), NEW i
    PROVE  /\ Times(i, s) \in Nat /\ (Times(i, s) = 0 <=> i \notin ToSet(s))
           /\ IsFiniteSet({k \in DOMAIN s : s[k] = i})
<1>1. PICK T : T = {k \in DOMAIN s : s[k] = i}
  OBVIOUS
<1>2. IsFiniteSet(T)
  <2>1. IsFiniteSet(1..Len(s)) /\ T \subseteq 1..Len(s)
    BY <1>1, FS_Interval
  <2> QED BY <2>1, FS_Subset
<1>3. Cardinality(T) \in Nat /\ (Cardinality(T) = 0 <=> T = {})
  BY <1>2, FS_CardinalityType, FS_EmptySet
<1>4. T = {} <=> i \notin ToSet(s)
  BY <1>1 DEF ToSet
<1> QED BY <1>1, <1>2, <1>3, <1>4 DEF Times

LEMMA TimesAppend ==
    ASSUME NEW s \in Seq(Interceptors), NEW x \in Interceptors, NEW i, NEW m, m = Append(s, x)
    PROVE  /\ ToSet(m) = ToSet(s) \cup {x}
           /\ Times(i, m) = Times(i, s) + (IF x = i THEN 1 ELSE 0)
<1>1. /\ m \in Seq(Interceptors) /\ Len(s) \in Nat /\ Len(m) = Len(s) + 1 /\ m[Len(m)] = x
      /\ DOMAIN s = 1..Len(s) /\ DOMAIN m = 1..Len(m) /\ \A k \in 1..Len(s) : m[k] = s[k]
  OBVIOUS
<1>2. \A k : k \in 1..Len(m) <=> k \in 1..Len(s) \/ k = Len(m)
  BY <1>1
<1>3. ToSet(m) = ToSet(s) \cup {x}
  BY <1>1, <1>2 DEF ToSet
<1>4. PICK T, U : T = {k \in DOMAIN s : s[k] = i} /\ U = {k \in DOMAIN m : m[k] = i}
  OBVIOUS
<1>5. IsFiniteSet(T) /\ Times(i, s) = Cardinality(T) /\ Times(i, m) = Cardinality(U)
      /\ Times(i, s) \in Nat
  BY <1>4, TimesType DEF Times
<1>6. CASE x = i
  <2>1. U = T \cup {Len(m)} /\ Len(m) \notin T
    BY <1>1, <1>2, <1>4, <1>6
  <2>2. Cardinality(U) = Cardinality(T) + 1
    BY <1>5, <2>1, FS_AddElement
  <2> QED BY <1>3, <1>5, <1>6, <2>2
<1>7. CASE x # i
  <2>1. U = T
    BY <1>1, <1>2, <1>4, <1>7
  <2> QED BY <1>3, <1>5, <1>7, <2>1
<1> QED BY <1>6, <1>7

LEMMA TimesOnce ==
    ASSUME NEW s \in Seq(Interceptors), IsInjective(s), NEW i \in ToSet(s)
    PROVE  Times(i, s) = 1
<1>1. PICK k \in DOMAIN s : s[k] = i
  BY DEF ToSet
<1>2. {n \in DOMAIN s : s[n] = i} = {k}
  <2>1. \A n \in DOMAIN s : s[n] = s[k] => n = k
    BY <1>1 DEF IsInjective
  <2> QED BY <1>1, <2>1
<1> QED BY <1>2, FS_Singleton DEF Times

\* What OneOwner says of an interceptor: either the application has it, or the
\* chain c has it once, or the chain e of the engine, or it is deleted.
One(i, h, al, c, e) ==
    /\ i \in al <=> i \in h \cup ToSet(c) \cup ToSet(e)
    /\ i \in h => i \notin ToSet(c) \cup ToSet(e)
    /\ i \in ToSet(c) => i \notin ToSet(e) /\ Times(i, c) = 1
    /\ i \in ToSet(e) => Times(i, e) = 1

Owners(h, al, c, e) ==
    (\A i \in Owning : One(i, h, al, c, e)) /\ ToSet(c) \subseteq al /\ ToSet(e) \subseteq al

Engaged(chan, e) == IF chan = "live" THEN e ELSE <<>>

LEMMA OwnersOnce ==
    ASSUME NEW h, NEW al, NEW chan, NEW c \in Seq(Interceptors), NEW e \in Seq(Interceptors)
    PROVE  OwnedOnce(h, al, chan, c, e) <=> Owners(h, al, c, Engaged(chan, e))
<1>1. PICK n : n = Engaged(chan, e) /\ n \in Seq(Interceptors)
  <2>1. <<>> \in Seq(Interceptors)
    OBVIOUS
  <2>2. Engaged(chan, e) \in Seq(Interceptors)
    BY <2>1 DEF Engaged
  <2> QED BY <2>2
<1>2. ASSUME NEW i
      PROVE  (IF chan = "live" THEN Times(i, e) ELSE 0) = Times(i, n)
  <2>1. CASE chan = "live"
    BY <1>1, <2>1 DEF Engaged
  <2>2. CASE chan # "live"
    <3>1. n = <<>> /\ ToSet(n) = {}
      <4>1. n = <<>>
        BY <1>1, <2>2 DEF Engaged
      <4> QED BY <4>1 DEF ToSet
    <3>2. Times(i, n) = 0
      BY <1>1, <3>1, TimesType
    <3> QED BY <2>2, <3>2
  <2> QED BY <2>1, <2>2
<1>3. ASSUME NEW i
      PROVE  (IF i \in h THEN 1 ELSE 0) + Times(i, c) + Times(i, n) = (IF i \in al THEN 1 ELSE 0)
                 <=> One(i, h, al, c, n)
  <2>1. PICK a, b : /\ a = Times(i, c) /\ b = Times(i, n) /\ a \in Nat /\ b \in Nat
                    /\ (a = 0 <=> i \notin ToSet(c)) /\ (b = 0 <=> i \notin ToSet(n))
    BY <1>1, TimesType
  <2>2. One(i, h, al, c, n) <=>
            /\ i \in al <=> i \in h \/ a # 0 \/ b # 0
            /\ i \in h => a = 0 /\ b = 0
            /\ a # 0 => b = 0 /\ a = 1
            /\ b # 0 => b = 1
    BY <2>1 DEF One
  <2>3. (IF i \in h THEN 1 ELSE 0) + a + b = (IF i \in al THEN 1 ELSE 0) <=>
            /\ i \in al <=> i \in h \/ a # 0 \/ b # 0
            /\ i \in h => a = 0 /\ b = 0
            /\ a # 0 => b = 0 /\ a = 1
            /\ b # 0 => b = 1
    <3>1. CASE i \in h
      BY <2>1, <3>1
    <3>2. CASE i \notin h /\ i \in al
      BY <2>1, <3>2
    <3>3. CASE i \notin h /\ i \notin al
      <4>1. 0 + a + b = 0 <=> a = 0 /\ b = 0
        BY <2>1
      <4> QED BY <3>3, <4>1
    <3> QED BY <3>1, <3>2, <3>3
  <2> QED BY <2>1, <2>2, <2>3
<1>4. (chan = "live" => ToSet(e) \subseteq al) <=> ToSet(n) \subseteq al
  <2>1. chan = "live" => n = e
    BY <1>1 DEF Engaged
  <2>2. chan # "live" => n = <<>>
    BY <1>1 DEF Engaged
  <2>3. ToSet(<<>>) = {}
    BY DEF ToSet
  <2> QED BY <2>1, <2>2, <2>3
<1> QED BY <1>1, <1>2, <1>3, <1>4 DEF OwnedOnce, Owners

\* add().
LEMMA OwnersAdd ==
    ASSUME NEW c \in Seq(Interceptors), NEW e, NEW h, h \subseteq Owning, NEW al,
           Owners(h, al, c, e), NEW i \in Interceptors, i \in (al \ Owning) \cup h,
           NEW m, m = Append(c, i)
    PROVE  Owners(h \ {i}, al, m, e)
<1>1. /\ ToSet(m) = ToSet(c) \cup {i}
      /\ \A j : Times(j, m) = Times(j, c) + (IF i = j THEN 1 ELSE 0)
  BY TimesAppend
<1>2. ASSUME NEW j \in Owning PROVE One(j, h \ {i}, al, m, e)
  <2>1. One(j, h, al, c, e) /\ Times(j, c) \in Nat /\ (Times(j, c) = 0 <=> j \notin ToSet(c))
    BY TimesType DEF Owners
  <2>2. CASE j = i
    <3>1. i \in h
      BY <2>2
    <3>2. Times(j, c) = 0 /\ j \in al /\ j \notin ToSet(e)
      BY <2>1, <2>2, <3>1 DEF One
    <3>3. Times(j, m) = 1
      BY <1>1, <2>2, <3>2
    <3> QED BY <1>1, <2>2, <3>2, <3>3 DEF One
  <2>3. CASE j # i
    <3>1. Times(j, m) = Times(j, c)
      BY <1>1, <2>1, <2>3
    <3> QED BY <1>1, <2>1, <2>3, <3>1 DEF One
  <2> QED BY <2>2, <2>3
<1>3. i \in al
  BY DEF Owners, One
<1> QED BY <1>1, <1>2, <1>3 DEF Owners

\* set() and clear(): the chain that is replaced deletes what it owns.
LEMMA OwnersSet ==
    ASSUME NEW c, NEW e, NEW h, h \subseteq Owning, NEW al, Owners(h, al, c, e),
           NEW s \in Seq(Interceptors), ToSet(s) \subseteq (al \ Owning) \cup h,
           IsInjective(s) \/ ToSet(s) \cap Owning = {}
    PROVE  Owners(h \ ToSet(s), al \ (ToSet(c) \cap Owning), s, e)
<1>1. ASSUME NEW j \in Owning
      PROVE  One(j, h \ ToSet(s), al \ (ToSet(c) \cap Owning), s, e)
  <2>1. One(j, h, al, c, e)
    BY DEF Owners
  <2>2. j \in ToSet(s) => j \in h /\ Times(j, s) = 1
    BY TimesOnce
  <2> QED BY <2>1, <2>2 DEF One
<1>2. ToSet(s) \subseteq al \ (ToSet(c) \cap Owning)
  <2> SUFFICES ASSUME NEW j \in ToSet(s) PROVE j \in al \ (ToSet(c) \cap Owning)
    OBVIOUS
  <2>1. CASE j \in h
    <3>1. One(j, h, al, c, e)
      BY <2>1 DEF Owners
    <3> QED BY <2>1, <3>1 DEF One
  <2>2. CASE j \in al \ Owning
    BY <2>2
  <2> QED BY <2>1, <2>2
<1>3. ToSet(e) \subseteq al \ (ToSet(c) \cap Owning)
  BY DEF Owners, One
<1> QED BY <1>1, <1>2, <1>3 DEF Owners

\* The channel takes the chain over.
LEMMA OwnersCreate ==
    ASSUME NEW c, NEW h, NEW al, Owners(h, al, c, <<>>) PROVE Owners(h, al, <<>>, c)
<1>1. ToSet(<<>>) = {}
  BY DEF ToSet
<1>2. ASSUME NEW j \in Owning PROVE One(j, h, al, <<>>, c)
  <2>1. One(j, h, al, c, <<>>)
    BY DEF Owners
  <2> QED BY <1>1, <2>1 DEF One
<1> QED BY <1>1, <1>2 DEF Owners

\* The channel goes, and its chain with it.
LEMMA OwnersGone ==
    ASSUME NEW c, NEW e, NEW h, NEW al, Owners(h, al, c, e)
    PROVE  Owners(h, al \ (ToSet(e) \cap Owning), c, <<>>)
<1>1. ToSet(<<>>) = {}
  BY DEF ToSet
<1>2. ASSUME NEW j \in Owning PROVE One(j, h, al \ (ToSet(e) \cap Owning), c, <<>>)
  <2>1. One(j, h, al, c, e)
    BY DEF Owners
  <2> QED BY <1>1, <2>1 DEF One
<1>3. ToSet(c) \subseteq al \ (ToSet(e) \cap Owning)
  BY DEF Owners, One
<1> QED BY <1>1, <1>2, <1>3 DEF Owners

\* The application deletes an interceptor of its own.
LEMMA OwnersDelete ==
    ASSUME NEW c, NEW e, NEW h, NEW al, Owners(h, al, c, e), NEW i, i \notin Owning,
           i \notin ToSet(c) \cup ToSet(e)
    PROVE  Owners(h, al \ {i}, c, e)
<1>1. ASSUME NEW j \in Owning PROVE One(j, h, al \ {i}, c, e)
  <2>1. One(j, h, al, c, e)
    BY DEF Owners
  <2> QED BY <2>1 DEF One
<1> QED BY <1>1 DEF Owners

-----------------------------------------------------------------------------
(* Every step keeps the chains right.                                      *)

\* What is checked of the chains.
LEMMA ChainSays == ASSUME ChainInv PROVE ChainExact
<1>1. OneOwner
  BY DEF ChainInv, OneOwner, OwnedOnce
<1>2. CombinedExact
  BY DEF ChainInv, CombinedExact, Exact
<1> QED BY <1>1, <1>2 DEF ChainExact

\* The empty chain.
LEMMA NewExact == Exact(NewChain)
<1>1. NewChain.interceptors = <<>> /\ NewChain.combined = {} /\ NewChain \in Chains
  BY DEF NewChain, Chains
<1>2. ToSet(<<>>) = {} /\ Len(<<>>) = 0
  BY DEF ToSet
<1> QED BY <1>1, <1>2, InterceptorAssumption DEF Exact

\* One more.
LEMMA AddExact ==
    ASSUME NEW ch, Exact(ch), NEW i \in Interceptors, Len(ch.interceptors) < MaxChain
    PROVE  Exact(AddTo(ch, i)) /\ AddTo(ch, i).interceptors = Append(ch.interceptors, i)
<1>1. PICK a, s : /\ a = AddTo(ch, i) /\ s = ch.interceptors /\ s \in Seq(Interceptors)
                  /\ Len(s) \in Nat /\ Len(s) < MaxChain
  BY DEF Exact, Chains
<1>2. a \in Chains /\ a.interceptors = Append(s, i) /\ a.combined = ch.combined \cup Capabilities[i]
  BY <1>1, AddToChain DEF AddTo, Exact
<1>3. ToSet(a.interceptors) = ToSet(s) \cup {i}
  BY <1>1, <1>2, TimesAppend
<1>4. a.combined = UNION {Capabilities[j] : j \in ToSet(a.interceptors)}
  BY <1>1, <1>2, <1>3 DEF Exact
<1>5. Len(a.interceptors) <= MaxChain
  BY <1>1, <1>2, InterceptorAssumption
<1> QED BY <1>1, <1>2, <1>4, <1>5 DEF Exact

\* All at once.
LEMMA SetExact ==
    ASSUME NEW s \in Seq(Interceptors), Len(s) <= MaxChain
    PROVE  Exact(Built(s)[Len(s)]) /\ Built(s)[Len(s)].interceptors = s
<1>1. PICK b : b = Built(s)[Len(s)]
  OBVIOUS
<1>2. b = [interceptors |-> s, combined |-> UNION {Capabilities[i] : i \in ToSet(s)}]
  BY <1>1, BuiltChain
<1>3. b \in Chains
  BY <1>1, BuiltLoop
<1> QED BY <1>1, <1>2, <1>3 DEF Exact

\* The chain changes, and nothing of the channel.
LEMMA ChainChanges ==
    ASSUME ChainInv, channel' = channel, engine' = engine,
           held' \subseteq held, alive' \subseteq alive, Exact(chain'),
           Owners(held', alive', chain'.interceptors, Engaged(channel, engine.chain.interceptors))
    PROVE  ChainInv'
<1>1. PICK c, e : /\ c = chain'.interceptors /\ c \in Seq(Interceptors)
                  /\ e = engine.chain.interceptors /\ e \in Seq(Interceptors)
  BY DEF ChainInv, Exact, Chains
<1>2. OwnedOnce(held', alive', channel, c, e)
  BY <1>1, OwnersOnce
<1> QED BY <1>1, <1>2 DEF ChainInv

\* The empty list.
LEMMA EmptyList ==
    ASSUME NEW s, s = <<>> PROVE s \in Seq(Interceptors) /\ ToSet(s) = {}
<1>1. <<>> \in Seq(Interceptors)
  OBVIOUS
<1>2. ToSet(<<>>) = {}
  BY DEF ToSet
<1> QED BY <1>1, <1>2

\* Who owns what, before a step.
LEMMA OwnersBefore ==
    ASSUME ChainInv, NEW c, c = chain.interceptors, NEW e,
           e = Engaged(channel, engine.chain.interceptors)
    PROVE  /\ c \in Seq(Interceptors) /\ e \in Seq(Interceptors)
           /\ Owners(held, alive, c, e)
           /\ held \subseteq Owning /\ held \subseteq alive /\ alive \subseteq Interceptors
<1>1. PICK n : n = engine.chain.interceptors /\ n \in Seq(Interceptors)
  BY DEF ChainInv, Exact, Chains
<1>2. c \in Seq(Interceptors)
  BY DEF ChainInv, Exact, Chains
<1>3. e \in Seq(Interceptors)
  <2>1. e = n \/ e = <<>>
    BY <1>1 DEF Engaged
  <2> QED BY <1>1, <2>1, EmptyList
<1>4. Owners(held, alive, c, e)
  <2>1. OwnedOnce(held, alive, channel, c, n)
    BY <1>1 DEF ChainInv
  <2> QED BY <1>1, <1>2, <2>1, OwnersOnce
<1>5. held \subseteq Owning /\ alive \subseteq Interceptors
  BY DEF ChainInv
<1>6. held \subseteq alive
  BY <1>4, <1>5 DEF Owners, One
<1> QED BY <1>2, <1>3, <1>4, <1>5, <1>6

\* What the application does to its chain.
LEMMA BuildingOk ==
    ASSUME ChainInv,
           \/ \E i \in Interceptors : Add(i) \/ DeleteRaw(i)
           \/ \E s \in SetArguments : Set(s)
           \/ Clear
    PROVE  ChainInv'
<1>1. PICK c, e : c = chain.interceptors /\ e = Engaged(channel, engine.chain.interceptors)
  OBVIOUS
<1>2. /\ c \in Seq(Interceptors) /\ e \in Seq(Interceptors) /\ Owners(held, alive, c, e)
      /\ held \subseteq Owning /\ held \subseteq alive /\ alive \subseteq Interceptors
  BY <1>1, OwnersBefore
<1>3. Exact(chain)
  BY DEF ChainInv
<1>4. ASSUME NEW i \in Interceptors, Add(i) PROVE ChainInv'
  <2>1. /\ channel' = channel /\ engine' = engine /\ alive' = alive /\ held' = held \ {i}
        /\ chain' = AddTo(chain, i) /\ i \in (alive \ Owning) \cup held
        /\ Len(chain.interceptors) < MaxChain
    BY <1>4 DEF Add, Unbound
  <2>2. Exact(chain') /\ chain'.interceptors = Append(c, i)
    BY <1>1, <1>3, <2>1, AddExact
  <2>3. Owners(held', alive', chain'.interceptors, e)
    BY <1>2, <2>1, <2>2, OwnersAdd
  <2> QED BY <1>1, <2>1, <2>2, <2>3, ChainChanges
<1>5. ASSUME NEW i \in Interceptors, DeleteRaw(i) PROVE ChainInv'
  <2>1. /\ channel' = channel /\ engine' = engine /\ held' = held /\ chain' = chain
        /\ alive' = alive \ {i} /\ i \notin Owning /\ i \notin ToSet(c)
        /\ channel = "live" => i \notin ToSet(engine.chain.interceptors)
    BY <1>1, <1>5 DEF DeleteRaw
  <2>2. i \notin ToSet(e)
    <3>1. e = engine.chain.interceptors \/ e = <<>>
      BY <1>1 DEF Engaged
    <3>2. ToSet(<<>>) = {}
      BY DEF ToSet
    <3>3. channel # "live" => e = <<>>
      BY <1>1 DEF Engaged
    <3> QED BY <2>1, <3>1, <3>2, <3>3
  <2>3. Owners(held', alive', c, e)
    BY <1>2, <2>1, <2>2, OwnersDelete
  <2> QED BY <1>1, <1>3, <2>1, <2>3, ChainChanges
<1>6. ASSUME NEW s \in SetArguments, Set(s) PROVE ChainInv'
  <2>1. channel' = channel /\ engine' = engine
    BY <1>6 DEF Set
  <2>2. CASE "null" \in ToSet(s)
    <3>1. held' = held /\ alive' = alive /\ chain' = chain
      BY <1>6, <2>2 DEF Set
    <3> QED BY <1>1, <1>2, <1>3, <2>1, <3>1, ChainChanges
  <2>3. CASE "null" \notin ToSet(s)
    <3>1. /\ chain' = Built(s)[Len(s)] /\ held' = held \ ToSet(s)
          /\ alive' = alive \ (ToSet(c) \cap Owning)
      BY <1>1, <1>6, <2>3 DEF Set, OwnedBy
    <3>2. /\ s \in SeqOf(Unbound \cup {"null"}, MaxChain)
          /\ \/ ToSet(s) \subseteq held \cup {"null"} /\ IsInjective(s)
             \/ ToSet(s) \cap Owning = {}
      BY <1>6 DEF SetArguments
    <3>3. PICK n \in 0..MaxChain : s \in [1..n -> Unbound \cup {"null"}]
      BY <3>2 DEF SeqOf
    <3>4. ToSet(s) \subseteq Unbound
      <4>1. ToSet(s) \subseteq Unbound \cup {"null"}
        BY <3>3 DEF ToSet
      <4> QED BY <2>3, <4>1
    <3>5. Unbound \subseteq Interceptors /\ Unbound = (alive \ Owning) \cup held
      BY <1>2 DEF Unbound
    <3>6. s \in Seq(Interceptors) /\ Len(s) <= MaxChain
      <4>1. n \in Nat /\ n <= MaxChain
        BY <3>3, InterceptorAssumption
      <4>2. s \in [1..n -> Interceptors]
        BY <3>3, <3>4, <3>5 DEF ToSet
      <4> QED BY <4>1, <4>2
    <3>7. Exact(chain') /\ chain'.interceptors = s
      BY <3>1, <3>6, SetExact
    <3>8. Owners(held', alive', s, e)
      <4>1. ToSet(s) \subseteq (alive \ Owning) \cup held
        BY <3>4, <3>5
      <4>2. IsInjective(s) \/ ToSet(s) \cap Owning = {}
        BY <3>2
      <4> QED BY <1>2, <3>1, <3>6, <4>1, <4>2, OwnersSet
    <3> QED BY <1>1, <2>1, <3>1, <3>7, <3>8, ChainChanges
  <2> QED BY <2>2, <2>3
<1>7. CASE Clear
  <2>1. /\ channel' = channel /\ engine' = engine /\ held' = held /\ chain' = NewChain
        /\ alive' = alive \ (ToSet(c) \cap Owning)
    BY <1>1, <1>7 DEF Clear, OwnedBy
  <2>2. PICK s : s = <<>> /\ s \in Seq(Interceptors) /\ ToSet(s) = {}
    BY EmptyList
  <2>3. chain'.interceptors = s
    BY <2>1, <2>2 DEF NewChain
  <2>4. Owners(held \ ToSet(s), alive', s, e)
    BY <1>2, <2>1, <2>2, OwnersSet
  <2>5. held \ ToSet(s) = held'
    BY <2>1, <2>2
  <2> QED BY <1>1, <2>1, <2>3, <2>4, <2>5, NewExact, ChainChanges
<1> QED BY <1>4, <1>5, <1>6, <1>7

\* The chain goes to the channel, and with it.
LEMMA HandOverOk ==
    ASSUME ChainInv, CreateChannel \/ DestroyChannel PROVE ChainInv'
<1>1. PICK c, n, e : /\ c = chain.interceptors /\ n = engine.chain.interceptors
                     /\ e = Engaged(channel, n)
  OBVIOUS
<1>2. /\ c \in Seq(Interceptors) /\ e \in Seq(Interceptors) /\ Owners(held, alive, c, e)
      /\ held \subseteq Owning /\ held \subseteq alive /\ alive \subseteq Interceptors
  BY <1>1, OwnersBefore
<1>3. Exact(chain) /\ Exact(engine.chain) /\ n \in Seq(Interceptors)
  BY <1>1 DEF ChainInv, Exact, Chains
<1>4. CASE CreateChannel
  <2>1. /\ channel' = "live" /\ held' = held /\ alive' = alive /\ chain' = NewChain
        /\ engine' = [chain |-> chain, handlers |-> Registered(c)[Len(c)]]
        /\ channel = "none"
    BY <1>1, <1>4 DEF CreateChannel
  <2>2. /\ Registered(c)[Len(c)] \in HandlerLists
        /\ \A a \in Capability : Registered(c)[Len(c)][a] = HavingIn(c, a)
    BY <1>2, RegisteredHandlers DEF HavingIn
  <2>3. PICK s : s = <<>> /\ s \in Seq(Interceptors) /\ s = NewChain.interceptors
    BY EmptyList DEF NewChain
  <2>4. OwnedOnce(held, alive, "live", s, c)
    <3>1. e = <<>>
      BY <1>1, <2>1 DEF Engaged
    <3>2. Owners(held, alive, s, c)
      BY <1>2, <2>3, <3>1, OwnersCreate
    <3>3. Engaged("live", c) = c
      BY DEF Engaged
    <3> QED BY <1>2, <2>3, <3>2, <3>3, OwnersOnce
  <2>5. engine'.chain = chain /\ engine'.handlers = Registered(c)[Len(c)]
    BY <2>1
  <2> QED BY <1>1, <1>2, <1>3, <2>1, <2>2, <2>3, <2>4, <2>5, NewExact DEF ChainInv
<1>5. CASE DestroyChannel
  <2>1. /\ channel' = "gone" /\ held' = held /\ alive' = alive \ (ToSet(n) \cap Owning)
        /\ chain' = chain /\ engine' = engine /\ channel = "live"
    BY <1>1, <1>5 DEF DestroyChannel, OwnedBy
  <2>2. OwnedOnce(held, alive', "gone", c, n)
    <3>1. e = n
      BY <1>1, <2>1 DEF Engaged
    <3>2. Owners(held, alive', c, <<>>)
      BY <1>2, <2>1, <3>1, OwnersGone
    <3>3. Engaged("gone", n) = <<>>
      BY DEF Engaged
    <3> QED BY <1>2, <1>3, <3>2, <3>3, OwnersOnce
  <2> QED BY <1>1, <1>2, <2>1, <2>2 DEF ChainInv
<1> QED BY <1>4, <1>5

\* No step breaks a chain.
LEMMA ChainStep == ASSUME ChainInv, [Next]_vars PROVE ChainInv'
<1>1. ASSUME UNCHANGED <<held, alive, chain, channel, engine>> PROVE ChainInv'
  BY <1>1 DEF ChainInv
<1>2. ASSUME NEW o \in Ops, NEW q, Becomes(o, q) PROVE ChainInv'
  BY <1>1, <1>2 DEF Becomes
<1>3. ASSUME NEW o \in Ops,
             \/ \E t \in Threads : NotStartable(o, t)
             \/ Dropped(o) \/ NotSerialized(o) \/ Started(o) \/ Dispatch(o)
             \/ WriteMessage(o) \/ WriteFails(o) \/ WritesDone(o) \/ Cancel(o)
             \/ Deliver(o) \/ ChannelFinishes(o) \/ Destroy(o)
      PROVE  ChainInv'
  <2>1. \E q : Becomes(o, q)
    BY <1>3 DEF NotStartable, Dropped, NotSerialized, Started, Dispatch, WriteMessage,
                WriteFails, WritesDone, Cancel, Deliver, ChannelFinishes, Destroy
  <2> QED BY <1>2, <1>3, <2>1
<1>4. CASE UNCHANGED vars
  BY <1>1, <1>4 DEF vars
<1> QED BY <1>3, <1>4, BuildingOk, HandOverOk DEF Next

-----------------------------------------------------------------------------
(* The theorems.                                                           *)

IInv == ChainInv /\ RpcsInv

\* At first there is no channel, and no RPC.
LEMMA InitIInv == ASSUME Init PROVE IInv
<1>1. PICK s : s = <<>> /\ s \in Seq(Interceptors) /\ ToSet(s) = {} /\ s = NewChain.interceptors
  BY EmptyList DEF NewChain
<1>2. /\ held = Owning /\ alive = Interceptors /\ chain = NewChain /\ channel = "none"
      /\ engine.chain = NewChain /\ engine.handlers = NoHandlers
      /\ engine = [chain |-> engine.chain, handlers |-> engine.handlers]
  BY DEF Init
<1>3. NoHandlers \in HandlerLists /\ \A c \in Capability : NoHandlers[c] = HavingIn(s, c)
  <2>1. \A c \in Capability : Among(s, Able(c)) = <<>>
    <3> SUFFICES ASSUME NEW c \in Capability PROVE Among(s, Able(c)) = <<>>
      OBVIOUS
    <3>1. \A k \in 1..Len(s) : s[k] \notin Able(c)
      BY <1>1
    <3> QED BY <1>1, <3>1, AmongFirst
  <2>2. NoHandlers = [c \in Capability |-> s]
    BY <1>1 DEF NoHandlers, Capability
  <2> QED BY <1>1, <2>1, <2>2 DEF HandlerLists, HavingIn
<1>4. OwnedOnce(held, alive, channel, s, s)
  <2>1. Engaged(channel, s) = s
    BY <1>1, <1>2 DEF Engaged
  <2>2. Owners(held, alive, s, s)
    BY <1>1, <1>2, InterceptorAssumption DEF Owners, One
  <2> QED BY <1>1, <2>1, <2>2, OwnersOnce
<1>5. ChainInv
  BY <1>1, <1>2, <1>3, <1>4, NewExact, InterceptorAssumption DEF ChainInv
<1>6. rpc = [o \in Ops |-> NewRpc]
  BY DEF Init
<1>7. RpcType(NewRpc) /\ NewRpc.log = <<>> /\ ~NewRpc.linked /\ ~NewRpc.running
      /\ ~NewRpc.tracked /\ NewRpc.posted = "none" /\ NewRpc.state = "Unused"
  BY InterceptorAssumption DEF NewRpc, RpcType
<1>8. LogOk(NewRpc.log, s, FALSE) /\ ~Ended(NewRpc.log)
  BY <1>7 DEF LogOk, Ended
<1>9. Life(NewRpc, "none")
  BY <1>7, <1>8 DEF Life
<1>10. RpcOk(NewRpc, "none", s)
  BY <1>7, <1>8, <1>9 DEF RpcOk
<1>11. RpcsInv
  BY <1>1, <1>2, <1>6, <1>10 DEF RpcsInv
<1> QED BY <1>5, <1>11 DEF IInv

LEMMA StepIInv == ASSUME IInv, [Next]_vars PROVE IInv'
BY ChainStep, RpcsStep DEF IInv

\* The invariant holds in every state.
THEOREM InductiveInvariant == Spec => []IInv
BY InitIInv, StepIInv, PTL DEF Spec

\* What is true of the entries of the logs, in terms of what is checked.
LEMMA EntriesSay ==
    ASSUME IInv, NEW o \in Ops, NEW l, l = rpc[o].log, NEW s, s = engine.chain.interceptors
    PROVE  /\ l \in Seq(Entries) /\ DOMAIN l = 1..Len(l)
           /\ \A k \in 1..Len(l) : EntryOk(l, k, s, rpc[o].linked /\ channel = "live")
           /\ \A c : Having(c) = HavingIn(s, c)
<1>1. RpcOk(rpc[o], channel, s)
  BY DEF IInv, RpcsInv
<1>2. LogOk(l, s, rpc[o].linked /\ channel = "live")
  BY <1>1 DEF RpcOk
<1>3. \A c : Having(c) = HavingIn(s, c)
  BY DEF Having, HavingIn
<1> QED BY <1>2, <1>3 DEF LogOk

LEMMA InOrder == ASSUME IInv PROVE CalledInOrder
<1>1. ChainExact
  BY ChainSays DEF IInv
<1>2. ASSUME NEW o \in Ops, NEW k \in DOMAIN rpc[o].log
      PROVE  LET e    == rpc[o].log[k]
                 last == Among(Having("Finished"), Rewriting)
             IN  /\ e.what \in Inbound => e.who = Reverse(Having(e.what))
                 /\ e.what \in Outbound \ {"Start"} => e.who = Having(e.what)
                 /\ e.what = "Start" =>
                        k = 1 /\ e.who # <<>> /\ IsPrefix(e.who, Having("Start"))
                 /\ e.what = "Finished" /\ last # <<>> =>
                        rpc[o].log[k + 1].status = Head(last)
  <2>1. PICK l, s : l = rpc[o].log /\ s = engine.chain.interceptors
    OBVIOUS
  <2>2. ReachedOk(l, k, s) /\ \A c : Having(c) = HavingIn(s, c)
    BY <1>2, <2>1, EntriesSay DEF EntryOk
  <2> QED BY <2>1, <2>2 DEF ReachedOk
<1> QED BY <1>1, <1>2 DEF CalledInOrder

LEMMA SeenOnce == ASSUME IInv PROVE EndSeenOnce
<1>1. ASSUME NEW o \in Ops, NEW k \in DOMAIN rpc[o].log, NEW l, l = rpc[o].log
      PROVE  /\ OnceOk(l, k)
             /\ (/\ l[k].what = "finished" /\ channel = "live"
                 /\ rpc[o].linked /\ Having("Finished") # <<>>)
                    => k > 1 /\ l[k - 1].what = "Finished"
             /\ (l[k].status = "Cancelled" /\ Having("Cancel") # <<>>)
                    => \E n \in (k - 2)..(k - 1) : n > 0 /\ l[n].what = "Cancel"
  <2>1. PICK s : s = engine.chain.interceptors
    OBVIOUS
  <2>2. EntryOk(l, k, s, rpc[o].linked /\ channel = "live")
        /\ \A c : Having(c) = HavingIn(s, c)
    BY <1>1, <2>1, EntriesSay
  <2> QED BY <2>2 DEF EntryOk, SeenOk, AnnouncedOk
<1>2. EndsOnce
  BY <1>1 DEF EndsOnce, OnceOk
<1>3. EndIsSeen
  BY <1>1 DEF EndIsSeen
<1>4. CancelledIsAnnounced
  BY <1>1 DEF CancelledIsAnnounced
<1>5. TrackedUntilEnd
  <2> SUFFICES ASSUME NEW o \in Ops, NEW r, r = rpc[o]
               PROVE  /\ (r.tracked /\ channel = "live") =>
                             r.state = "Valid" /\ (r.running \/ r.posted = "Unavailable")
                      /\ (r.log # <<>> /\ Head(r.log).what = "Start" /\ r.posted = "Aborted") =>
                             ~r.running /\ ~r.tracked
    BY DEF TrackedUntilEnd
  <2>1. Life(r, channel)
    BY DEF IInv, RpcsInv, RpcOk
  <2> QED BY <2>1 DEF Life
<1> QED BY <1>2, <1>3, <1>4, <1>5 DEF EndSeenOnce

LEMMA Typed == ASSUME IInv PROVE TypeOK
<1>1. ASSUME NEW ch, Exact(ch)
      PROVE  ch.interceptors \in SeqOf(Interceptors, MaxChain)
             /\ ch.combined \subseteq Outbound \cup Inbound
  <2>1. PICK n : /\ n = Len(ch.interceptors) /\ n \in Nat /\ n <= MaxChain
                 /\ ch.interceptors \in [1..n -> Interceptors]
    BY <1>1 DEF Exact, Chains
  <2>2. n \in 0..MaxChain
    BY <2>1, InterceptorAssumption
  <2> QED BY <1>1, <2>1, <2>2 DEF SeqOf, Exact, Chains, Capability
<1>2. Exact(chain) /\ Exact(engine.chain) /\ held \subseteq Owning /\ alive \subseteq Interceptors
      /\ channel \in {"none", "live", "gone"}
  BY DEF IInv, ChainInv
<1>3. ASSUME NEW o \in Ops PROVE RpcType(rpc[o])
  BY <1>3 DEF IInv, RpcsInv, RpcOk
<1> QED BY <1>1, <1>2, <1>3 DEF TypeOK, RpcType, Statuses, Codes

\* Every variable keeps to its type: the chains to their bound, each RPC to the
\* states, statuses and threads there are.
THEOREM TypeCorrect == Spec => []TypeOK
BY InductiveInvariant, Typed, PTL

\* Every call of an RPC reaches the interceptors that have the capability, all
\* of them but for onStart(), in the order that its direction asks for; the
\* interceptor nearest to the application decides the status.  Every interceptor
\* has one owner, and what the chain says of it is true.
THEOREM CallsInOrder == Spec => []CalledInOrder
BY InductiveInvariant, InOrder, PTL

\* The end of an RPC is seen once by its interceptors, then by the user, and the
\* client forgets the RPC; a cancellation is announced before its status is seen.
THEOREM EndIsSeenOnce == Spec => []EndSeenOnce
BY InductiveInvariant, SeenOnce, PTL
=============================================================================
