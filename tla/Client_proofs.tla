--------------------------- MODULE Client_proofs ---------------------------
(***************************************************************************)
(* The RPCs a client tracks, the loop of attachChannel() over them, and    *)
(* what a script hears of its RPCs, for any number of RPCs and whatever    *)
(* the slots of finished() do.                                             *)
(***************************************************************************)
EXTENDS QmlClient, FiniteSetTheorems, SequenceTheorems, TLAPS

-----------------------------------------------------------------------------
(* A sorted list in memory: cells f to f + s - 1 hold the set T.           *)

Span(f, s) == f..(f + s - 1)

Holds(m, f, s, T) ==
    /\ \A c \in Span(f, s) : m[c] \in T
    /\ \A t \in T : \E c \in Span(f, s) : m[c] = t
    /\ \A c, d \in Span(f, s) : c < d => m[c] < m[d]

\* No two cells of the list hold the same.
LEMMA HeldOnce ==
    ASSUME NEW m, NEW f \in Nat, NEW s \in Nat, NEW T \in SUBSET Nat, Holds(m, f, s, T),
           NEW c \in Span(f, s), NEW d \in Span(f, s), m[c] = m[d]
    PROVE  c = d
<1>1. c \in Int /\ d \in Int /\ m[c] \in Nat /\ m[d] \in Nat
  <2>1. c \in Int /\ d \in Int
    BY DEF Span
  <2>2. m[c] \in T /\ m[d] \in T
    BY DEF Holds
  <2> QED BY <2>1, <2>2
<1>2. ~(c < d) /\ ~(d < c)
  BY <1>1 DEF Holds
<1> QED BY <1>1, <1>2

\* Moving begin() gives the first cell up.
LEMMA DropFirst ==
    ASSUME NEW m, NEW f \in Nat, NEW s \in Nat \ {0}, NEW T \in SUBSET Nat, Holds(m, f, s, T)
    PROVE  Holds(m, f + 1, s - 1, T \ {m[f]})
<1>1. /\ f \in Span(f, s) /\ f \notin Span(f + 1, s - 1)
      /\ \A c \in Span(f + 1, s - 1) : c \in Span(f, s)
      /\ \A c \in Span(f, s) : c # f => c \in Span(f + 1, s - 1)
  BY DEF Span
<1>2. \A c \in Span(f + 1, s - 1) : m[c] # m[f]
  BY <1>1, HeldOnce
<1> QED BY <1>1, <1>2 DEF Holds

\* Moving the cells behind it gives any other one up.
LEMMA DropAt ==
    ASSUME NEW m, NEW f \in Nat, NEW s \in Nat \ {0}, NEW T \in SUBSET Nat, Holds(m, f, s, T),
           NEW c \in Span(f, s), NEW r,
           \A d \in Span(f, s - 1) : r[d] = IF d >= c THEN m[d + 1] ELSE m[d]
    PROVE  Holds(r, f, s - 1, T \ {m[c]})
<1>1. \A d \in Span(f, s - 1) : d \in Span(f, s) /\ d + 1 \in Span(f, s) /\ d \in Int /\ c \in Int
  BY DEF Span
<1>2. ASSUME NEW d \in Span(f, s - 1) PROVE r[d] \in T \ {m[c]}
  <2>1. CASE d >= c
    <3>1. d + 1 # c
      BY <1>1, <2>1
    <3>2. m[d + 1] # m[c]
      BY <1>1, <3>1, HeldOnce
    <3> QED BY <1>1, <2>1, <3>2 DEF Holds
  <2>2. CASE ~(d >= c)
    <3>1. d # c
      BY <1>1, <2>2
    <3>2. m[d] # m[c]
      BY <1>1, <3>1, HeldOnce
    <3> QED BY <1>1, <2>2, <3>2 DEF Holds
  <2> QED BY <2>1, <2>2
<1>3. ASSUME NEW t \in T \ {m[c]} PROVE \E d \in Span(f, s - 1) : r[d] = t
  <2>1. PICK e \in Span(f, s) : m[e] = t
    BY DEF Holds
  <2>2. e # c /\ e \in Int /\ c \in Int
    BY <2>1 DEF Span
  <2>3. CASE e > c
    <3>1. e - 1 \in Span(f, s - 1) /\ e - 1 >= c /\ (e - 1) + 1 = e
      BY <2>2, <2>3 DEF Span
    <3> QED BY <2>1, <3>1
  <2>4. CASE e < c
    <3>1. e \in Span(f, s - 1) /\ ~(e >= c)
      BY <2>2, <2>4 DEF Span
    <3> QED BY <2>1, <3>1
  <2> QED BY <2>2, <2>3, <2>4
<1>4. ASSUME NEW d \in Span(f, s - 1), NEW e \in Span(f, s - 1), d < e PROVE r[d] < r[e]
  <2> DEFINE x == IF d >= c THEN d + 1 ELSE d
             y == IF e >= c THEN e + 1 ELSE e
  <2>1. x \in Span(f, s) /\ y \in Span(f, s) /\ x < y
    BY <1>1, <1>4
  <2>2. r[d] = m[x] /\ r[e] = m[y]
    OBVIOUS
  <2> HIDE DEF x, y
  <2> QED BY <2>1, <2>2 DEF Holds
<1> QED BY <1>2, <1>3, <1>4 DEF Holds

\* The first k members are smaller than o; r is m, from cell b on, with o put
\* behind them.
Smaller(m, f, s, o, k) == \A c \in Span(f, s) : m[c] < o <=> c < f + k

WithNew(r, b, m, f, s, o, k) ==
    \A i \in 0..s : r[b + i] = IF i = k THEN o ELSE IF i > k THEN m[f + i - 1] ELSE m[f + i]

\* A new member goes between the smaller and the larger ones.
LEMMA PutAt ==
    ASSUME NEW m, NEW f \in Nat, NEW s \in Nat, NEW T \in SUBSET Nat, Holds(m, f, s, T),
           NEW o \in Nat \ T, NEW k \in 0..s, Smaller(m, f, s, o, k),
           NEW b \in Nat, NEW r, WithNew(r, b, m, f, s, o, k)
    PROVE  Holds(r, b, s + 1, T \cup {o})
<1>1. ASSUME NEW c \in Span(b, s + 1)
      PROVE  /\ c - b \in 0..s /\ b + (c - b) = c
             /\ c - b # k => /\ (IF c - b > k THEN f + (c - b) - 1 ELSE f + (c - b)) \in Span(f, s)
                             /\ r[c] = m[IF c - b > k THEN f + (c - b) - 1 ELSE f + (c - b)]
             /\ c - b = k => r[c] = o
  <2>1. c - b \in 0..s /\ b + (c - b) = c
    BY DEF Span
  <2>2. PICK i \in 0..s : i = c - b
    BY <2>1
  <2>3. r[c] = IF i = k THEN o ELSE IF i > k THEN m[f + i - 1] ELSE m[f + i]
    BY <2>1, <2>2 DEF WithNew
  <2>4. i # k => (IF i > k THEN f + i - 1 ELSE f + i) \in Span(f, s)
    BY DEF Span
  <2> QED BY <2>1, <2>2, <2>3, <2>4
<1>2. ASSUME NEW c \in Span(b, s + 1) PROVE r[c] \in T \cup {o}
  BY <1>1 DEF Holds
<1>3. ASSUME NEW t \in T \cup {o} PROVE \E c \in Span(b, s + 1) : r[c] = t
  <2>1. CASE t = o
    <3>1. b + k \in Span(b, s + 1)
      BY DEF Span
    <3> QED BY <2>1, <3>1 DEF WithNew
  <2>2. CASE t \in T
    <3>1. PICK e \in Span(f, s) : m[e] = t
      BY <2>2 DEF Holds
    <3>2. CASE e < f + k
      <4>1. /\ e - f \in 0..s /\ b + (e - f) \in Span(b, s + 1)
            /\ e - f < k /\ f + (e - f) = e
        BY <3>1, <3>2 DEF Span
      <4>2. PICK i \in 0..s : i = e - f
        BY <4>1
      <4>3. r[b + i] = m[f + i]
        BY <4>1, <4>2 DEF WithNew
      <4> QED BY <3>1, <4>1, <4>2, <4>3
    <3>3. CASE ~(e < f + k)
      <4>1. /\ e - f + 1 \in 0..s /\ b + (e - f + 1) \in Span(b, s + 1)
            /\ e - f + 1 > k /\ f + (e - f + 1) - 1 = e
        BY <3>1, <3>3 DEF Span
      <4>2. PICK i \in 0..s : i = e - f + 1
        BY <4>1
      <4>3. r[b + i] = m[f + i - 1]
        BY <4>1, <4>2 DEF WithNew
      <4> QED BY <3>1, <4>1, <4>2, <4>3
    <3> QED BY <3>2, <3>3
  <2> QED BY <2>1, <2>2
<1>4. ASSUME NEW c \in Span(b, s + 1), NEW d \in Span(b, s + 1), c < d PROVE r[c] < r[d]
  <2>1. PICK i \in 0..s, j \in 0..s : i = c - b /\ j = d - b /\ i < j
    BY <1>1, <1>4 DEF Span
  <2> DEFINE x == IF i > k THEN f + i - 1 ELSE f + i
             y == IF j > k THEN f + j - 1 ELSE f + j
  <2>2. /\ i # k => x \in Span(f, s) /\ r[c] = m[x]
        /\ j # k => y \in Span(f, s) /\ r[d] = m[y]
        /\ i = k => r[c] = o
        /\ j = k => r[d] = o
    BY <1>1, <2>1
  <2>3. CASE i # k /\ j # k
    <3>1. x < y
      BY <2>1, <2>3
    <3> HIDE DEF x, y
    <3> QED BY <2>2, <2>3, <3>1 DEF Holds
  <2>4. CASE i = k
    <3>1. j # k /\ ~(y < f + k)
      BY <2>1, <2>4
    <3>2. m[y] # o /\ m[y] \in Nat /\ ~(m[y] < o)
      BY <2>2, <3>1 DEF Holds, Smaller
    <3> QED BY <2>2, <2>4, <3>1, <3>2
  <2>5. CASE j = k
    <3>1. i # k /\ x < f + k
      BY <2>1, <2>5
    <3> QED BY <2>2, <2>5, <3>1 DEF Smaller
  <2> QED BY <2>3, <2>4, <2>5
<1> QED BY <1>2, <1>3, <1>4 DEF Holds

-----------------------------------------------------------------------------
(* The invariant of the container.                                         *)

OpStates == {"Unused", "Untracked", "Finished", "Destroyed"} \cup InSet

Listed == {o \in Ops : op[o] \in InSet}
MayBeListed == {o \in Ops : op[o] \in InSet \cup {"Unused"}}

\* Beside TrackedExactly: begin() has moved at most once for each RPC that will
\* not be in the list again, so the memory of the list is never used up.
ListInv ==
    /\ op \in [Ops -> OpStates]
    /\ memory \in [Cells -> Ops \cup {Free}]
    /\ first \in Nat \ {0} /\ size \in Nat
    /\ size = Cardinality(Listed)
    /\ first - 1 + Cardinality(MayBeListed) <= Cardinality(Ops)
    /\ Holds(memory, first, size, Listed)

\* Sets of RPCs are finite sets of numbers.
LEMMA OpSets ==
    ASSUME NEW S \in SUBSET Ops
    PROVE  /\ IsFiniteSet(S) /\ Cardinality(S) \in Nat /\ Cardinality(S) <= Cardinality(Ops)
           /\ S \in SUBSET Nat
           /\ Cardinality(Ops) \in Nat
           /\ \A x \in Ops : /\ x \in S => Cardinality(S \ {x}) = Cardinality(S) - 1
                            /\ x \notin S => Cardinality(S \cup {x}) = Cardinality(S) + 1
           /\ \A R \in SUBSET S : Cardinality(R) <= Cardinality(S)
<1>1. IsFiniteSet(Ops) /\ Ops \subseteq Nat
  BY ClientAssumption
<1>2. IsFiniteSet(S) /\ Cardinality(S) <= Cardinality(Ops)
  BY <1>1, FS_Subset
<1>3. Cardinality(S) \in Nat /\ Cardinality(Ops) \in Nat
  BY <1>1, <1>2, FS_CardinalityType
<1>4. \A x \in Ops : /\ x \in S => Cardinality(S \ {x}) = Cardinality(S) - 1
                    /\ x \notin S => Cardinality(S \cup {x}) = Cardinality(S) + 1
  BY <1>2, FS_AddElement, FS_RemoveElement
<1>5. \A R \in SUBSET S : Cardinality(R) <= Cardinality(S)
  BY <1>2, FS_Subset
<1> QED BY <1>1, <1>2, <1>3, <1>4, <1>5

\* The cells in use are cells of the memory, one more when there is an RPC to add.
LEMMA Room ==
    ASSUME ListInv
    PROVE  /\ activeStreams = Span(first, size)
           /\ Span(first, size) \subseteq Cells
           /\ first + size - 1 <= Cardinality(Ops)
           /\ (\E o \in Ops : op[o] = "Unused") => first + size <= Cardinality(Ops)
           /\ Cardinality(Ops) \in Nat /\ Cells = 1..(2 * Cardinality(Ops))
<1>1. PICK N \in Nat, L \in Nat, M \in Nat :
          N = Cardinality(Ops) /\ L = Cardinality(Listed) /\ M = Cardinality(MayBeListed)
  BY OpSets DEF Listed, MayBeListed
<1>2. L <= M
  <2>1. Listed \in SUBSET MayBeListed /\ MayBeListed \in SUBSET Ops
    BY DEF Listed, MayBeListed
  <2> QED BY <1>1, <2>1, OpSets
<1>3. ASSUME NEW o \in Ops, op[o] = "Unused" PROVE L + 1 <= M
  <2>1. /\ o \notin Listed /\ Listed \cup {o} \in SUBSET MayBeListed
        /\ Listed \in SUBSET Ops /\ MayBeListed \in SUBSET Ops
    BY <1>3 DEF Listed, MayBeListed, InSet
  <2>2. Cardinality(Listed \cup {o}) = L + 1
    BY <1>1, <2>1, OpSets
  <2> QED BY <1>1, <2>1, <2>2, OpSets
<1>4. size = L /\ first \in Nat \ {0} /\ first - 1 + M <= N
  BY <1>1 DEF ListInv
<1>5. first + size - 1 <= N /\ ((\E o \in Ops : op[o] = "Unused") => first + size <= N)
  BY <1>2, <1>3, <1>4
<1>6. Cells = 1..(2 * N)
  BY <1>1 DEF Cells
<1>7. Span(first, size) \subseteq Cells /\ activeStreams = Span(first, size)
  BY <1>4, <1>5, <1>6 DEF Span, activeStreams
<1> QED BY <1>1, <1>5, <1>6, <1>7

\* So the list of the model is the sorted list of the lemmas above.
LEMMA ListTracks == ASSUME ListInv PROVE TrackedExactly
<1>1. activeStreams = Span(first, size)
  BY Room
<1>2. {memory[c] : c \in activeStreams} = Listed
  BY <1>1 DEF ListInv, Holds
<1> QED BY <1>1, <1>2 DEF TrackedExactly, SortedSet, ListInv, Holds, Listed

-----------------------------------------------------------------------------
(* The operations of the container.                                        *)

\* An RPC that is not in the list changes without entering it.
LEMMA OutsideKeepsList ==
    ASSUME ListInv, NEW o \in Ops, o \notin Listed, NEW s \in OpStates \ (InSet \cup {"Unused"}),
           op' = [op EXCEPT ![o] = s], UNCHANGED <<memory, first, size>>
    PROVE  ListInv'
<1>1. op' \in [Ops -> OpStates] /\ op'[o] = s /\ \A p \in Ops \ {o} : op'[p] = op[p]
  BY DEF ListInv
<1>2. Listed' = Listed
  BY <1>1 DEF Listed
<1>3. MayBeListed' \in SUBSET MayBeListed /\ MayBeListed \in SUBSET Ops /\ MayBeListed' \in SUBSET Ops
  BY <1>1 DEF MayBeListed
<1>4. PICK N \in Nat, M \in Nat, P \in Nat :
          /\ N = Cardinality(Ops) /\ M = Cardinality(MayBeListed)
          /\ P = Cardinality(MayBeListed') /\ P <= M
  BY <1>3, OpSets
<1>5. first - 1 + Cardinality(MayBeListed') <= Cardinality(Ops)
  <2>1. first \in Nat \ {0} /\ first - 1 + M <= N
    BY <1>4 DEF ListInv
  <2> QED BY <1>4, <2>1
<1> QED BY <1>1, <1>2, <1>5 DEF ListInv

\* remove() takes out the RPC that has finished or is destroyed, if it is there.
LEMMA RemoveKeepsList ==
    ASSUME ListInv, NEW o \in Ops, Remove(o), NEW s \in {"Finished", "Destroyed"},
           op' = [op EXCEPT ![o] = s]
    PROVE  ListInv'
<1>1. op' \in [Ops -> OpStates] /\ op'[o] = s /\ \A p \in Ops \ {o} : op'[p] = op[p]
  BY DEF ListInv, OpStates
<1>2. s \in OpStates \ (InSet \cup {"Unused"})
  BY DEF OpStates, InSet
<1>3. Listed' = Listed \ {o}
  BY <1>1 DEF Listed, InSet
<1>4. activeStreams = Span(first, size) /\ Span(first, size) \subseteq Cells
      /\ Listed \in SUBSET Ops /\ Listed \in SUBSET Nat /\ first \in Nat \ {0} /\ size \in Nat
  BY Room, OpSets DEF ListInv, Listed
<1>5. CASE o \notin Listed
  <2>1. \A c \in Span(first, size) : memory[c] # o
    BY <1>5 DEF ListInv, Holds
  <2>2. size > 1 => first \in Span(first, size)
    BY <1>4 DEF Span
  <2>3. UNCHANGED <<memory, first, size>>
    BY <1>4, <2>1, <2>2 DEF Remove
  <2> QED BY <1>2, <1>5, <2>3, OutsideKeepsList
<1>6. CASE o \in Listed
  <2>1. size' = size - 1 /\ size > 0 /\ first' \in {first, first + 1}
        /\ Holds(memory', first', size', Listed \ {o}) /\ memory' \in [Cells -> Ops \cup {Free}]
    <3>1. PICK e \in Span(first, size) : memory[e] = o
      BY <1>6 DEF ListInv, Holds
    <3>2. size > 0 /\ size \in Nat \ {0}
      BY <1>4, <3>1 DEF Span
    <3>3. CASE memory[first] = o /\ size > 1 /\ first' = first + 1 /\ size' = size - 1 /\ UNCHANGED memory
      BY <1>4, <3>2, <3>3, DropFirst DEF ListInv
    <3>4. ASSUME NEW c \in Span(first, size), memory[c] = o, size' = size - 1, UNCHANGED first,
                 memory' = [d \in Cells |-> IF d >= c /\ d < first + size - 1
                                            THEN memory[d + 1] ELSE memory[d]]
          PROVE  /\ Holds(memory', first', size', Listed \ {o})
                 /\ memory' \in [Cells -> Ops \cup {Free}]
      <4>1. \A d \in Span(first, size - 1) :
                 d \in Cells /\ (d \in Int) /\ d < first + size - 1
        BY <1>4, <3>2 DEF Span
      <4>2. \A d \in Span(first, size - 1) :
                 memory'[d] = IF d >= c THEN memory[d + 1] ELSE memory[d]
        BY <3>4, <4>1
      <4>3. ASSUME NEW d \in Cells, d >= c, d < first + size - 1 PROVE d + 1 \in Cells
        <5>1. d + 1 \in Span(first, size)
          BY <1>4, <4>3, Room DEF Span
        <5> QED BY <1>4, <5>1
      <4>4. memory' \in [Cells -> Ops \cup {Free}]
        BY <3>4, <4>3 DEF ListInv
      <4> QED BY <1>4, <3>2, <3>4, <4>2, <4>4, DropAt DEF ListInv
    <3> QED BY <1>4, <3>1, <3>2, <3>3, <3>4 DEF Remove
  <2>2. MayBeListed' = MayBeListed \ {o} /\ o \in MayBeListed /\ MayBeListed \in SUBSET Ops
    BY <1>1, <1>6 DEF MayBeListed, Listed, InSet
  <2>3. Cardinality(Listed') = Cardinality(Listed) - 1
        /\ Cardinality(MayBeListed') = Cardinality(MayBeListed) - 1
    BY <1>3, <1>4, <1>6, <2>2, OpSets
  <2>4. size' \in Nat /\ first' \in Nat \ {0} /\ size' = Cardinality(Listed')
    BY <1>4, <2>1, <2>3 DEF ListInv
  <2>5. first' - 1 + Cardinality(MayBeListed') <= Cardinality(Ops)
    <3>1. PICK N \in Nat, M \in Nat : N = Cardinality(Ops) /\ M = Cardinality(MayBeListed)
      BY <2>2, OpSets
    <3>2. first - 1 + M <= N
      BY <3>1 DEF ListInv
    <3> QED BY <1>4, <2>1, <2>3, <3>1, <3>2
  <2> QED BY <1>1, <1>3, <2>1, <2>4, <2>5 DEF ListInv
<1> QED BY <1>5, <1>6

\* A set of numbers has a least one.
LEMMA NatMin ==
    ASSUME NEW T, T \subseteq Nat, T # {}
    PROVE  \E x \in T : \A y \in T : x <= y
<1>1. PICK R : R = OpToRel(<, Nat)
  OBVIOUS
<1>2. IsWellFoundedOn(R, Nat)
  BY <1>1, NatLessThanWellFounded
<1>3. R = {p \in Nat \X Nat : p[1] < p[2]}
  BY <1>1 DEF OpToRel
<1>4. PICK x \in T : \A y \in T : ~(<<y, x>> \in R)
  BY <1>2, WFMin
<1>5. ASSUME NEW y \in T PROVE x <= y
  <2>1. x \in Nat /\ y \in Nat
    OBVIOUS
  <2>2. <<y, x>> \notin R
    BY <1>4
  <2>3. ~(y < x)
    <3>1. <<y, x>>[1] = y /\ <<y, x>>[2] = x
      OBVIOUS
    <3>2. <<y, x>> \in Nat \X Nat
      BY <2>1
    <3> QED BY <1>3, <2>2, <3>1, <3>2
  <2> QED BY <2>1, <2>3
<1> QED BY <1>5

\* lower_bound() finds the cell the RPC belongs to.
LEMMA LowerBoundFinds ==
    ASSUME ListInv, NEW o \in Ops
    PROVE  \E k \in 0..size : /\ LowerBound(o) = first + k
                              /\ Smaller(memory, first, size, o, k)
<1>1. /\ activeStreams = Span(first, size) /\ first \in Nat \ {0} /\ size \in Nat
      /\ Listed \in SUBSET Nat /\ o \in Nat
  BY Room, OpSets, ClientAssumption DEF ListInv, Listed
<1>2. \A c \in Span(first, size) : memory[c] \in Nat
  BY <1>1 DEF ListInv, Holds
<1> DEFINE T == {c \in first..(first + size) : c \in Span(first, size) => ~(memory[c] < o)}
<1>3. PICK at \in T : \A c \in T : at <= c
  <2>1. first + size \in T
    BY <1>1 DEF Span
  <2>2. T \subseteq Nat
    BY <1>1
  <2> HIDE DEF T
  <2> QED BY <2>1, <2>2, NatMin
<1>4. at \in first..(first + size)
  BY <1>3
<1>5. ASSUME NEW c \in Span(first, size) PROVE memory[c] < o <=> c < at
  <2>1. c \in first..(first + size) /\ c \in Int /\ at \in Int
    BY <1>1, <1>4 DEF Span
  <2>2. CASE c < at
    <3>1. c \notin T
      BY <1>3, <2>1, <2>2
    <3> QED BY <2>1, <2>2, <3>1
  <2>3. CASE ~(c < at)
    <3>1. at \in Span(first, size)
      BY <1>1, <1>4, <2>1, <2>3 DEF Span
    <3>2. ~(memory[at] < o)
      BY <1>3, <3>1
    <3>3. at = c \/ memory[at] < memory[c]
      BY <2>1, <2>3, <3>1 DEF ListInv, Holds
    <3> QED BY <1>1, <1>2, <2>3, <3>1, <3>2, <3>3
  <2> QED BY <2>2, <2>3
<1>6. {c \in activeStreams : memory[c] < o} = first..(at - 1)
  <2>1. \A c : c \in first..(at - 1) => c \in Span(first, size) /\ c < at
    BY <1>1, <1>4 DEF Span
  <2>2. \A c \in Span(first, size) : c < at => c \in first..(at - 1)
    BY <1>1, <1>4 DEF Span
  <2> QED BY <1>1, <1>5, <2>1, <2>2
<1>7. Cardinality(first..(at - 1)) = at - first
  <2>1. first \in Int /\ at - 1 \in Int /\ first <= at
    BY <1>1, <1>4
  <2>2. Cardinality(first..(at - 1)) = IF first > at - 1 THEN 0 ELSE (at - 1) - first + 1
    BY <2>1, FS_Interval
  <2> QED BY <1>1, <1>4, <2>1, <2>2
<1>8. LowerBound(o) = first + (at - first)
  BY <1>6, <1>7 DEF LowerBound
<1>9. at - first \in 0..size /\ first + (at - first) = at
  BY <1>1, <1>4
<1> QED BY <1>5, <1>8, <1>9 DEF Smaller

\* What Insert puts into the cells it uses, base the new begin().
LEMMA InsertedCells ==
    ASSUME ListInv, NEW o \in Ops, op[o] = "Unused", Insert(o)
    PROVE  \E k \in 0..size, b \in 1..first :
              /\ b = (IF loop.on THEN first ELSE 1)
              /\ Smaller(memory, first, size, o, k)
              /\ memory' \in [Cells -> Ops \cup {Free}]
              /\ WithNew(memory', b, memory, first, size, o, k)
              /\ b = first => \A c \in Cells :
                     memory'[c] \in {memory[c], o} \/ (c - 1 \in Span(first, size) /\ memory'[c] = memory[c - 1])
              /\ first' = b /\ size' = size + 1
<1>1. PICK k \in 0..size : /\ LowerBound(o) = first + k
                           /\ Smaller(memory, first, size, o, k)
  BY LowerBoundFinds
<1>2. PICK N \in Nat : /\ N = Cardinality(Ops) /\ Cells = 1..(2 * N) /\ first + size <= N
                       /\ first \in Nat \ {0} /\ size \in Nat
  BY Room DEF ListInv
<1>3. PICK b \in 1..first : b = (IF loop.on THEN first ELSE 1)
  BY <1>2
<1> DEFINE moved == [c \in Cells |-> IF c + first - b \in Cells THEN memory[c + first - b] ELSE Free]
<1>4. (first + k) - first + b = b + k
  BY <1>2, <1>3
<1>5. /\ memory' = [c \in Cells |-> CASE c = b + k -> o
                                      [] c > b + k /\ c <= b + size -> moved[c - 1]
                                      [] OTHER -> moved[c]]
      /\ first' = b /\ size' = size + 1
  BY <1>1, <1>3, <1>4 DEF Insert
<1>6. moved \in [Cells -> Ops \cup {Free}]
  BY DEF ListInv
<1>7. \A i \in 0..(size - 1) : b + i \in Cells /\ moved[b + i] = memory[first + i]
  <2> SUFFICES ASSUME NEW i \in 0..(size - 1)
               PROVE  b + i \in Cells /\ moved[b + i] = memory[first + i]
    OBVIOUS
  <2>1. b + i \in Cells /\ (b + i) + first - b = first + i /\ first + i \in Cells
    BY <1>2, <1>3
  <2> QED BY <2>1
<1>8. b = first => \A c \in Cells : moved[c] = memory[c]
  <2>1. \A c \in Cells : c + first - first = c
    BY <1>2
  <2> QED BY <2>1
<1>9. \A c \in Cells : c > b + k => c - 1 \in Cells
  BY <1>2, <1>3
<1> HIDE DEF moved
<1>10. memory' \in [Cells -> Ops \cup {Free}]
  BY <1>5, <1>6, <1>9
<1>11. ASSUME NEW i \in 0..size
       PROVE  memory'[b + i] = IF i = k THEN o ELSE IF i > k THEN memory[first + i - 1] ELSE memory[first + i]
  <2>1. b + i \in Cells /\ b + i \in Int
    BY <1>2, <1>3
  <2>2. CASE i = k
    BY <1>5, <2>1, <2>2
  <2>3. CASE i > k
    <3>1. /\ b + i # b + k /\ b + i > b + k /\ b + i <= b + size /\ i - 1 \in 0..(size - 1)
          /\ (b + i) - 1 = b + (i - 1) /\ first + (i - 1) = first + i - 1
      BY <1>2, <1>3, <2>3
    <3>2. memory'[b + i] = moved[(b + i) - 1]
      BY <1>5, <2>1, <3>1
    <3> QED BY <1>7, <2>3, <3>1, <3>2
  <2>4. CASE i < k
    <3>1. b + i # b + k /\ ~(b + i > b + k) /\ i \in 0..(size - 1)
      BY <1>2, <1>3, <2>4
    <3>2. memory'[b + i] = moved[b + i]
      BY <1>5, <2>1, <3>1
    <3> QED BY <1>7, <2>4, <3>1, <3>2
  <2> QED BY <2>2, <2>3, <2>4
<1>12. ASSUME b = first, NEW c \in Cells
       PROVE  memory'[c] \in {memory[c], o} \/ (c - 1 \in Span(first, size) /\ memory'[c] = memory[c - 1])
  <2>1. c > b + k /\ c <= b + size => c - 1 \in Span(first, size)
    BY <1>2, <1>12 DEF Span
  <2>2. memory'[c] \in {o, moved[c]} \/ (c > b + k /\ c <= b + size /\ memory'[c] = moved[c - 1])
    BY <1>5
  <2> QED BY <1>8, <1>9, <1>12, <2>1, <2>2
<1>13. WithNew(memory', b, memory, first, size, o, k)
  BY <1>11 DEF WithNew
<1> QED BY <1>1, <1>3, <1>5, <1>10, <1>12, <1>13

\* insert() of an RPC the channel has accepted.
LEMMA InsertKeepsList ==
    ASSUME ListInv, NEW o \in Ops, op[o] = "Unused", NEW s \in InSet, op' = [op EXCEPT ![o] = s],
           Insert(o)
    PROVE  ListInv'
<1>1. op' \in [Ops -> OpStates] /\ op'[o] = s /\ \A p \in Ops \ {o} : op'[p] = op[p]
  BY DEF ListInv, OpStates
<1>2. Listed' = Listed \cup {o} /\ o \notin Listed /\ MayBeListed' = MayBeListed
  BY <1>1 DEF Listed, MayBeListed, InSet
<1>3. /\ Listed \in SUBSET Ops /\ Listed \in SUBSET Nat /\ first \in Nat \ {0} /\ size \in Nat
      /\ o \in Nat /\ MayBeListed \in SUBSET Ops
  BY OpSets, ClientAssumption DEF ListInv, Listed, MayBeListed
<1>4. PICK k \in 0..size, b \in 1..first :
              /\ Smaller(memory, first, size, o, k)
              /\ memory' \in [Cells -> Ops \cup {Free}]
              /\ WithNew(memory', b, memory, first, size, o, k)
              /\ first' = b /\ size' = size + 1
  BY InsertedCells
<1>5. b \in Nat /\ b \in Nat \ {0} /\ b <= first
  BY <1>3
<1>6. Holds(memory', b, size + 1, Listed \cup {o})
  <2>1. o \in Nat \ Listed
    BY <1>2, <1>3
  <2>2. Holds(memory, first, size, Listed)
    BY DEF ListInv
  <2> QED BY <1>3, <1>4, <1>5, <2>1, <2>2, PutAt
<1>7. Cardinality(Listed') = size + 1
  BY <1>2, <1>3, OpSets DEF ListInv
<1>8. first' - 1 + Cardinality(MayBeListed') <= Cardinality(Ops)
  <2>1. PICK N \in Nat, M \in Nat : N = Cardinality(Ops) /\ M = Cardinality(MayBeListed)
    BY <1>3, OpSets
  <2>2. first - 1 + M <= N
    BY <2>1 DEF ListInv
  <2> QED BY <1>2, <1>3, <1>4, <1>5, <2>1, <2>2
<1> QED BY <1>1, <1>2, <1>3, <1>4, <1>5, <1>6, <1>7, <1>8 DEF ListInv

\* While attachChannel() runs, no cell that held an RPC becomes free.
LEMMA NothingFreed ==
    ASSUME ListInv, NEW o \in Ops, Remove(o) \/ (op[o] = "Unused" /\ loop.on /\ Insert(o)),
           NEW c \in Cells, memory[c] # Free
    PROVE  memory'[c] # Free
<1>1. \A d \in Span(first, size) : memory[d] # Free
  BY ClientAssumption DEF ListInv, Holds, Listed, Free
<1>2. o # Free
  BY ClientAssumption DEF Free
<1>3. CASE Remove(o)
  <2>1. /\ first \in Nat \ {0} /\ size \in Nat /\ c \in Int
        /\ activeStreams = Span(first, size)
    BY Room DEF ListInv
  <2>2. ASSUME NEW d \in Span(first, size), c >= d, c < first + size - 1
        PROVE  c + 1 \in Span(first, size)
    BY <2>1, <2>2 DEF Span
  <2> QED BY <1>1, <1>3, <2>1, <2>2 DEF Remove
<1>4. CASE op[o] = "Unused" /\ loop.on /\ Insert(o)
  <2>1. memory'[c] \in {memory[c], o} \/ (c - 1 \in Span(first, size) /\ memory'[c] = memory[c - 1])
    BY <1>4, InsertedCells
  <2> QED BY <1>1, <1>2, <2>1
<1> QED BY <1>3, <1>4

-----------------------------------------------------------------------------
(* The client and the scripts that use it.                                 *)

\* attachChannel() reads cells that hold RPCs, finished ones maybe; it does not
\* run while the engine goes away, and neither does a slot.
ReadsRpcs(l, m) ==
    /\ l.it # 0 /\ l.it <= l.end
    /\ \A c \in l.it..(l.end - 1) : c \in Cells /\ m[c] # Free

\* The calls on the stack: the innermost one apart, the others have been called
\* again from their slots.
StackInv ==
    /\ loop \in Loops /\ outer \in Seq(Loops)
    /\ ~loop.on => outer = <<>>
    /\ \A i \in 1..Len(outer) : outer[i].on /\ ~outer[i].alone

LoopInv ==
    /\ StackInv
    /\ \A l \in Attaching : ReadsRpcs(l, memory)
    /\ loop.on \/ slots # <<>> => engine # "Dying"

\* The RPCs whose slots run have finished, are not destroyed yet, and are distinct.
SlotInv ==
    /\ slots \in Seq(JsOps)
    /\ \A i \in 1..Len(slots) : op[slots[i]] = "Finished"
    /\ \A i, j \in 1..Len(slots) : slots[i] = slots[j] => i = j

ClientInv == ListInv /\ LoopInv /\ SlotInv

\* The RPC that attachChannel() is about to cancel is one.
LEMMA NextIsOp ==
    ASSUME ListInv, LoopInv, CancelNext
    PROVE  memory[loop.it] \in Ops /\ loop.it \in Cells
<1>1. loop \in Attaching /\ loop \in Loops /\ loop.it < loop.end
  BY DEF CancelNext, LoopInv, StackInv, Attaching
<1>2. ReadsRpcs(loop, memory) /\ loop.it \in loop.it..(loop.end - 1)
  BY <1>1 DEF LoopInv, Loops
<1> QED BY <1>2 DEF ReadsRpcs, ListInv

\* A step that leaves the calls of attachChannel() but for what the innermost one
\* remembers.
SameStack ==
    /\ loop' = [loop EXCEPT !.alone = ~loop.on] \/ UNCHANGED loop
    /\ UNCHANGED outer

\* What a step does to the list, the loop and the RPCs.
LEMMA ClientEffect ==
    ASSUME ClientInv, [QmlNext]_qmlVars
    PROVE  \/ UNCHANGED <<op, memory, first, size, loop, outer>>
           \/ \E o \in Ops : Start(o)
           \/ \E o \in Ops, s \in {"Finished", "Destroyed"} :
                 /\ op' = [op EXCEPT ![o] = s]
                 /\ Remove(o) \/ (o \notin Listed /\ UNCHANGED <<memory, first, size>>)
                 /\ SameStack
                 /\ \/ ~loop.on
                    \/ loop' = [loop EXCEPT !.alone = ~loop.on]
                    \/ slots # <<>> /\ o = slots[Len(slots)]
           \/ \E ch \in Channels : AttachChannel(ch)
           \/ CancelNext
           \/ ChannelChanged
<1>1. ASSUME NEW o \in Ops, OpFinishes(o) \/ Destroy(o)
      PROVE  \E s \in {"Finished", "Destroyed"} :
                 /\ op' = [op EXCEPT ![o] = s]
                 /\ Remove(o) \/ (o \notin Listed /\ UNCHANGED <<memory, first, size>>)
                 /\ SameStack /\ loop' = [loop EXCEPT !.alone = ~loop.on]
  BY <1>1 DEF OpFinishes, Destroy, RemoveFinished, RemoveDestroyed, Listed, InSet, SameStack
<1>2. ASSUME NEW o \in JsOps, SlotDeleted(o)
      PROVE  o \in Ops /\ op' = [op EXCEPT ![o] = "Destroyed"] /\ Remove(o) /\ UNCHANGED loop /\ SameStack
  BY <1>2, JsAssumption DEF SlotDeleted, RemoveDestroyed, SameStack
<1>3. ASSUME NEW o \in JsOps,
             \/ \E callable \in Callbacks : JsStart(o, callable)
             \/ \E readable \in BOOLEAN : JsMessageReceived(o, readable)
             \/ JsFinishes(o) \/ ConnectionDeleted(o)
             \/ SenderWrites(o) \/ SenderCollected(o)
      PROVE  \/ UNCHANGED <<op, memory, first, size, loop, outer>>
             \/ Start(o) /\ o \in Ops
             \/ o \in Ops /\ \E s \in {"Finished", "Destroyed"} :
                 /\ op' = [op EXCEPT ![o] = s]
                 /\ Remove(o) \/ (o \notin Listed /\ UNCHANGED <<memory, first, size>>)
                 /\ SameStack /\ (~loop.on \/ loop' = [loop EXCEPT !.alone = ~loop.on])
  <2>1. o \in Ops
    BY JsAssumption
  <2>2. CASE ConnectionDeleted(o)
    BY <1>2, <2>2 DEF ConnectionDeleted, ClientInv, LoopInv
  <2>3. CASE JsFinishes(o)
    BY <1>1, <2>1, <2>3 DEF JsFinishes
  <2>4. CASE \E callable \in Callbacks : JsStart(o, callable)
    BY <2>1, <2>4 DEF JsStart
  <2>5. CASE (\E readable \in BOOLEAN : JsMessageReceived(o, readable)) \/ SenderWrites(o) \/ SenderCollected(o)
    BY <2>5 DEF JsMessageReceived, SenderWrites, SenderCollected, vars
  <2> QED BY <1>3, <2>2, <2>3, <2>4, <2>5
<1>4. CASE SlotReturns
  <2>1. slots # <<>> /\ slots \in Seq(JsOps) /\ slots[Len(slots)] \in JsOps
    BY <1>4 DEF SlotReturns, ClientInv, SlotInv
  <2>2. SlotDeleted(slots[Len(slots)])
    BY <1>4 DEF SlotReturns
  <2> QED BY <1>2, <2>1, <2>2
<1>5. CASE \E o \in Ops \ JsOps : ProgramStep(o)
  BY <1>1, <1>5 DEF ProgramStep
<1>6. CASE (\E ch \in Channels : QmlAttachChannel(ch)) \/ QmlCancelNext \/ QmlChannelChanged
  BY <1>6 DEF QmlAttachChannel, QmlCancelNext, QmlChannelChanged
<1>7. CASE EngineDestroyed \/ EngineGone \/ UNCHANGED qmlVars
  BY <1>7 DEF EngineDestroyed, EngineGone, qmlVars, vars
<1> QED BY <1>3, <1>4, <1>5, <1>6, <1>7 DEF QmlNext

\* The list, whoever starts, finishes, cancels and destroys.
LEMMA StepList == ASSUME ClientInv, [QmlNext]_qmlVars PROVE ListInv'
<1> USE DEF ClientInv
<1>1. CASE UNCHANGED <<op, memory, first, size, loop, outer>>
  BY <1>1 DEF ListInv, Listed, MayBeListed
<1>2. ASSUME NEW o \in Ops, Start(o) PROVE ListInv'
  <2>1. CASE op' = [op EXCEPT ![o] = "Untracked"] /\ UNCHANGED <<memory, first, size>>
    <3>1. o \notin Listed /\ "Untracked" \in OpStates \ (InSet \cup {"Unused"})
      BY <1>2 DEF Start, Listed, InSet, OpStates
    <3> QED BY <2>1, <3>1, OutsideKeepsList
  <2>2. CASE Insert(o) /\ \E s \in InSet : op' = [op EXCEPT ![o] = s]
    BY <1>2, <2>2, InsertKeepsList DEF Start
  <2> QED BY <1>2, <2>1, <2>2 DEF Start
<1>3. ASSUME NEW o \in Ops, NEW s \in {"Finished", "Destroyed"}, op' = [op EXCEPT ![o] = s],
             Remove(o) \/ (o \notin Listed /\ UNCHANGED <<memory, first, size>>)
      PROVE  ListInv'
  <2>1. s \in OpStates \ (InSet \cup {"Unused"})
    BY DEF OpStates, InSet
  <2> QED BY <1>3, <2>1, RemoveKeepsList, OutsideKeepsList
<1>4. CASE CancelNext
  <2>1. PICK o \in Ops : o = memory[loop.it]
    BY <1>4, NextIsOp
  <2>2. CASE op' = [op EXCEPT ![o] = "Finished"] /\ RemoveFinished(o)
    BY <2>2, RemoveKeepsList DEF RemoveFinished
  <2>3. CASE UNCHANGED <<op, memory, first, size>>
    BY <2>3 DEF ListInv, Listed, MayBeListed
  <2> QED BY <1>4, <2>1, <2>2, <2>3 DEF CancelNext
<1>5. CASE ChannelChanged \/ \E ch \in Channels : AttachChannel(ch)
  BY <1>5 DEF ChannelChanged, AttachChannel, ListInv, Listed, MayBeListed
<1> QED BY <1>1, <1>2, <1>3, <1>4, <1>5, ClientEffect

\* The engine goes away only from the event loop, and nothing starts meanwhile.
LEMMA StepEngine ==
    ASSUME ClientInv, [QmlNext]_qmlVars
    PROVE  loop'.on \/ slots' # <<>> => engine' # "Dying"
<1>1. loop.on \/ slots # <<>> => engine # "Dying"
  BY DEF ClientInv, LoopInv
<1>2. ASSUME NEW o \in JsOps,
             \/ \E callable \in Callbacks : JsStart(o, callable)
             \/ \E readable \in BOOLEAN : JsMessageReceived(o, readable)
             \/ ConnectionDeleted(o)
             \/ SenderWrites(o) \/ SenderCollected(o)
      PROVE  UNCHANGED <<loop, slots, engine>>
  BY <1>2 DEF JsStart, JsMessageReceived, ConnectionDeleted, SenderWrites, SenderCollected, vars,
              Start, SlotDeleted
<1>3. ASSUME NEW o \in JsOps, JsFinishes(o)
      PROVE  engine' = engine /\ engine # "Dying"
  BY <1>3 DEF JsFinishes, InEventLoop, FinishedSlot
<1>4. CASE SlotReturns
  BY <1>1, <1>4 DEF SlotReturns
<1>5. ASSUME NEW o \in Ops \ JsOps, ProgramStep(o)
      PROVE  UNCHANGED <<slots, engine>> /\ loop'.on = loop.on
  <2>1. UNCHANGED <<slots, engine>> /\ (UNCHANGED loop \/ loop' = [loop EXCEPT !.alone = ~loop.on])
    BY <1>5 DEF ProgramStep, jsVars, Start, OpFinishes, Destroy
  <2> QED BY <2>1 DEF ClientInv, LoopInv, StackInv, Loops
<1>6. CASE \E ch \in Channels : QmlAttachChannel(ch)
  BY <1>1, <1>6 DEF QmlAttachChannel, ProgramRuns, InEventLoop, ScriptRuns
<1>7. CASE QmlCancelNext
  BY <1>1, <1>7 DEF QmlCancelNext, CancelNext, FinishedSlot, jsVars
<1>8. CASE QmlChannelChanged
  BY <1>1, <1>8 DEF QmlChannelChanged, ChannelChanged
<1>9. CASE EngineDestroyed
  BY <1>9 DEF EngineDestroyed, InEventLoop, vars
<1>10. CASE EngineGone
  BY <1>10 DEF EngineGone
<1>11. CASE UNCHANGED qmlVars
  BY <1>1, <1>11 DEF qmlVars, vars, jsVars
<1> QED BY <1>1, <1>2, <1>3, <1>4, <1>5, <1>6, <1>7, <1>8, <1>9, <1>10, <1>11 DEF QmlNext

LEMMA LoopsTyped == ASSUME LoopInv PROVE \A l \in Attaching : l \in Loops /\ l.on
<1>1. loop \in Loops /\ outer \in Seq(Loops) /\ \A i \in 1..Len(outer) : outer[i].on
  BY DEF LoopInv, StackInv
<1>2. \A i \in 1..Len(outer) : outer[i] \in Loops
  BY <1>1
<1> QED BY <1>1, <1>2 DEF Attaching

\* attachChannel() is called, again maybe, returns, goes on, or is left alone: the
\* loops stay what they are but for the innermost one.
SameReading(l, k) == l.it = k.it /\ l.end = k.end /\ l.hears = k.hears

LEMMA StackCalled ==
    ASSUME ListInv, LoopInv, NEW ch \in Channels, AttachChannel(ch)
    PROVE  /\ StackInv'
           /\ \A l \in Attaching' :
                 l = loop' \/ (~l.alone /\ \E k \in Attaching : SameReading(l, k))
<1>1. /\ loop \in Loops /\ outer \in Seq(Loops) /\ ch \in Channels \cup {"null"}
      /\ first \in Nat /\ first + size \in Nat /\ NoneRefused \in BOOLEAN
  BY DEF LoopInv, StackInv, ListInv, NoneRefused
<1>2. /\ loop' = [on |-> TRUE, it |-> first, end |-> first + size, slot |-> Free,
                  hears |-> NoneRefused, alone |-> TRUE, to |-> ch]
      /\ loop' \in Loops /\ loop'.on
  BY <1>1 DEF AttachChannel, Loops
<1>3. CASE ~loop.on
  <2>1. outer' = <<>>
    BY <1>3 DEF AttachChannel, LoopInv, StackInv
  <2> QED BY <1>2, <2>1 DEF StackInv, Attaching
<1>4. CASE loop.on
  <2>1. PICK l : l = [loop EXCEPT !.alone = FALSE]
    OBVIOUS
  <2>2. l \in Loops /\ l.on /\ ~l.alone /\ SameReading(l, loop) /\ loop \in Attaching
    BY <1>1, <1>4, <2>1 DEF Loops, SameReading, Attaching
  <2>3. outer' = <<l>> \o outer
    BY <1>4, <2>1 DEF AttachChannel
  <2>4. /\ outer' \in Seq(Loops) /\ Len(outer') = Len(outer) + 1 /\ Len(outer) \in Nat
        /\ \A i \in 1..Len(outer') : outer'[i] = IF i = 1 THEN l ELSE outer[i - 1]
    BY <1>1, <2>2, <2>3
  <2>5. \A i \in 1..Len(outer) : outer[i].on /\ ~outer[i].alone /\ outer[i] \in Attaching
    BY <1>4 DEF LoopInv, StackInv, Attaching
  <2>6. ASSUME NEW i \in 1..Len(outer')
        PROVE  /\ outer'[i].on /\ ~outer'[i].alone
               /\ \E k \in Attaching : SameReading(outer'[i], k)
    <3>1. CASE i = 1
      BY <2>2, <2>4, <3>1
    <3>2. CASE i # 1
      <4>1. i - 1 \in 1..Len(outer) /\ outer'[i] = outer[i - 1]
        BY <2>4, <3>2
      <4> QED BY <2>5, <4>1 DEF SameReading
    <3> QED BY <3>1, <3>2
  <2> QED BY <1>2, <2>4, <2>6 DEF StackInv, Attaching
<1> QED BY <1>3, <1>4

LEMMA StackReturns ==
    ASSUME LoopInv, ChannelChanged
    PROVE  StackInv' /\ Attaching' \subseteq Attaching
<1>1. loop \in Loops /\ outer \in Seq(Loops) /\ loop.on
  BY DEF LoopInv, StackInv, ChannelChanged
<1>2. CASE outer = <<>>
  <2>1. loop' = NoLoop /\ outer' = <<>>
    BY <1>2 DEF ChannelChanged
  <2>2. NoLoop \in Loops /\ ~NoLoop.on
    BY DEF NoLoop, Loops
  <2> QED BY <2>1, <2>2 DEF StackInv, Attaching
<1>3. CASE outer # <<>>
  <2>1. loop' = outer[1] /\ outer' = Tail(outer)
    BY <1>3 DEF ChannelChanged
  <2>2. /\ Len(outer) \in Nat \ {0} /\ outer' \in Seq(Loops) /\ Len(outer') = Len(outer) - 1
        /\ \A i \in 1..Len(outer') : outer'[i] = outer[i + 1] /\ i + 1 \in 1..Len(outer)
    BY <1>1, <1>3, <2>1, EmptySeq, HeadTailProperties
  <2>3. \A i \in 1..Len(outer) :
            outer[i].on /\ ~outer[i].alone /\ outer[i] \in Attaching /\ outer[i] \in Loops
    BY <1>1 DEF LoopInv, StackInv, Attaching
  <2>4. 1 \in 1..Len(outer)
    BY <2>2
  <2>5. StackInv'
    BY <2>1, <2>2, <2>3, <2>4 DEF StackInv
  <2>6. \A i \in 1..Len(outer') : outer'[i] \in Attaching
    BY <2>2, <2>3
  <2>7. loop' \in Attaching
    BY <2>1, <2>3, <2>4
  <2>8. Attaching' \subseteq Attaching
    BY <2>6, <2>7 DEF Attaching
  <2> QED BY <2>5, <2>8
<1> QED BY <1>2, <1>3

LEMMA StackKept ==
    ASSUME LoopInv, SameStack
    PROVE  /\ StackInv' /\ loop'.on = loop.on
           /\ \A l \in Attaching' : \E k \in Attaching : SameReading(l, k) /\ (l.alone => k.alone)
<1>1. loop \in Loops /\ outer \in Seq(Loops) /\ outer' = outer
  BY DEF LoopInv, StackInv, SameStack
<1>2. /\ loop' \in Loops /\ loop'.on = loop.on /\ SameReading(loop', loop)
      /\ loop.on /\ loop'.alone => loop.alone
  BY <1>1 DEF SameStack, Loops, SameReading
<1>3. \A l : SameReading(l, l)
  BY DEF SameReading
<1> QED BY <1>1, <1>2, <1>3 DEF LoopInv, StackInv, Attaching

LEMMA StackGoesOn ==
    ASSUME LoopInv, ListInv, CancelNext
    PROVE  /\ StackInv' /\ loop \in Attaching
           /\ loop'.it = loop.it + 1 /\ loop'.end = loop.end /\ loop'.hears = loop.hears
           /\ loop'.alone = loop.alone
           /\ \A l \in Attaching' : l = loop' \/ (l \in Attaching /\ ~l.alone)
<1>1. PICK b \in Ops \cup {Free} : loop' = [loop EXCEPT !.it = @ + 1, !.slot = b]
  BY NextIsOp DEF CancelNext
<1>2. loop \in Loops /\ outer \in Seq(Loops) /\ outer' = outer /\ loop.on /\ loop.it \in Nat
  BY DEF CancelNext, LoopInv, StackInv, Loops
<1>3. loop' = [on |-> loop.on, it |-> loop.it + 1, end |-> loop.end, slot |-> b,
               hears |-> loop.hears, alone |-> loop.alone, to |-> loop.to]
  BY <1>1, <1>2 DEF Loops
<1>4. loop' \in Loops /\ loop'.on
  BY <1>2, <1>3 DEF Loops
<1> QED BY <1>2, <1>3, <1>4 DEF LoopInv, StackInv, Attaching

\* The iterators stay within cells that hold RPCs.
LEMMA StepLoop == ASSUME ClientInv, [QmlNext]_qmlVars PROVE LoopInv'
<1>1. ListInv /\ LoopInv /\ loop \in Loops
  BY DEF ClientInv, LoopInv, StackInv
<1>2. SUFFICES StackInv' /\ \A l \in Attaching' : ReadsRpcs(l, memory')
  BY StepEngine DEF LoopInv
<1>3. \A l \in Attaching : ReadsRpcs(l, memory)
  BY <1>1 DEF LoopInv
<1>4. ASSUME NEW l, NEW k \in Attaching, SameReading(l, k),
             \A c \in Cells : memory[c] # Free => memory'[c] # Free
      PROVE  ReadsRpcs(l, memory')
  BY <1>3, <1>4 DEF ReadsRpcs, SameReading
<1>5. \A l : SameReading(l, l)
  BY DEF SameReading
<1>6. CASE UNCHANGED <<op, memory, first, size, loop, outer>>
  BY <1>1, <1>3, <1>6 DEF LoopInv, StackInv, Attaching, ReadsRpcs
<1>7. ASSUME NEW o \in Ops, Start(o)
      PROVE  StackInv' /\ \A l \in Attaching' : ReadsRpcs(l, memory')
  <2>1. UNCHANGED <<loop, outer>> /\ \A c \in Cells : loop.on /\ memory[c] # Free => memory'[c] # Free
    BY <1>1, <1>7, NothingFreed DEF Start
  <2>2. StackInv' /\ Attaching' = Attaching
    BY <1>1, <2>1 DEF LoopInv, StackInv, Attaching
  <2>3. CASE loop.on
    BY <1>4, <1>5, <2>1, <2>2, <2>3
  <2>4. CASE ~loop.on
    BY <2>2, <2>4 DEF Attaching
  <2> QED BY <2>2, <2>3, <2>4
<1>8. ASSUME NEW o \in Ops, Remove(o) \/ UNCHANGED memory
      PROVE  \A c \in Cells : memory[c] # Free => memory'[c] # Free
  BY <1>1, <1>8, NothingFreed
<1>9. ASSUME NEW o \in Ops, Remove(o) \/ UNCHANGED memory, SameStack
      PROVE  StackInv' /\ \A l \in Attaching' : ReadsRpcs(l, memory')
  BY <1>1, <1>4, <1>8, <1>9, StackKept
<1>10. ASSUME NEW ch \in Channels, AttachChannel(ch)
       PROVE  StackInv' /\ \A l \in Attaching' : ReadsRpcs(l, memory')
  <2>1. memory' = memory /\ loop'.it = first /\ loop'.end = first + size
    BY <1>10 DEF AttachChannel
  <2>2. first \in Nat \ {0} /\ size \in Nat
    BY <1>1 DEF ListInv
  <2>3. \A c \in first..(first + size - 1) : c \in Cells /\ memory[c] # Free
    BY <1>1, Room, ClientAssumption DEF ListInv, Holds, Span, Listed, Free
  <2>4. ReadsRpcs(loop', memory')
    BY <2>1, <2>2, <2>3 DEF ReadsRpcs
  <2> QED BY <1>1, <1>4, <1>10, <2>1, <2>4, StackCalled
<1>11. CASE CancelNext
  <2>1. PICK o \in Ops : o = memory[loop.it]
    BY <1>1, <1>11, NextIsOp
  <2>2. \A c \in Cells : memory[c] # Free => memory'[c] # Free
    BY <1>8, <1>11, <2>1 DEF CancelNext, RemoveFinished
  <2>3. /\ loop.it < loop.end /\ ReadsRpcs(loop, memory) /\ loop'.it = loop.it + 1 /\ loop'.end = loop.end
        /\ loop.it \in Nat /\ loop.end \in Nat
    BY <1>1, <1>3, <1>11, StackGoesOn DEF CancelNext, Loops
  <2>4. ReadsRpcs(loop', memory')
    BY <2>2, <2>3 DEF ReadsRpcs
  <2> QED BY <1>1, <1>4, <1>5, <1>11, <2>2, <2>4, StackGoesOn
<1>12. CASE ChannelChanged
  BY <1>1, <1>4, <1>5, <1>12, StackReturns DEF ChannelChanged
<1> QED BY <1>6, <1>7, <1>9, <1>10, <1>11, <1>12, ClientEffect

\* A slot that runs keeps its RPC, finished, to itself.
LEMMA StepSlots == ASSUME ClientInv, [QmlNext]_qmlVars PROVE SlotInv'
<1>1. slots \in Seq(JsOps) /\ op \in [Ops -> OpStates] /\ JsOps \subseteq Ops
  BY JsAssumption DEF ClientInv, SlotInv, ListInv
<1>2. \A i \in 1..Len(slots) : slots[i] \in JsOps /\ op[slots[i]] = "Finished"
  BY <1>1 DEF ClientInv, SlotInv
<1>3. ASSUME UNCHANGED slots, \A p \in JsOps : op[p] = "Finished" => op'[p] = "Finished"
      PROVE  SlotInv'
  BY <1>2, <1>3 DEF ClientInv, SlotInv
<1>4. ASSUME NEW o \in JsOps, op[o] # "Finished", op' = [op EXCEPT ![o] = "Finished"],
             slots' = Append(slots, o)
      PROVE  SlotInv'
  <2>1. /\ slots' \in Seq(JsOps) /\ Len(slots') = Len(slots) + 1 /\ Len(slots) \in Nat
        /\ slots'[Len(slots) + 1] = o /\ \A i \in 1..Len(slots) : slots'[i] = slots[i]
    BY <1>1, <1>4
  <2>2. op'[o] = "Finished" /\ \A i \in 1..Len(slots) : op'[slots[i]] = "Finished" /\ slots[i] # o
    BY <1>1, <1>2, <1>4
  <2>3. \A i \in 1..Len(slots') : i \in 1..Len(slots) \/ i = Len(slots) + 1
    BY <2>1
  <2>4. \A i, j \in 1..Len(slots) : slots[i] = slots[j] => i = j
    BY DEF ClientInv, SlotInv
  <2> QED BY <2>1, <2>2, <2>3, <2>4 DEF SlotInv
<1>5. CASE SlotReturns
  <2>1. /\ slots # <<>> /\ op' = [op EXCEPT ![slots[Len(slots)]] = "Destroyed"]
        /\ slots' = SubSeq(slots, 1, Len(slots) - 1)
    BY <1>5 DEF SlotReturns, SlotDeleted
  <2>2. /\ Len(slots) \in Nat \ {0} /\ slots' \in Seq(JsOps) /\ Len(slots') = Len(slots) - 1
        /\ \A i \in 1..(Len(slots) - 1) : slots'[i] = slots[i]
    <3>1. Len(slots) \in Nat \ {0}
      BY <1>1, <2>1, EmptySeq
    <3>2. \A i \in 1..(Len(slots) - 1) : slots[i] \in JsOps
      BY <1>2, <3>1
    <3>3. PICK n \in Nat : n = Len(slots) - 1
      BY <3>1
    <3>4. \A i \in 1..n : slots[i] \in JsOps
      BY <3>2, <3>3
    <3>5. SubSeq(slots, 1, n) \in Seq(JsOps) /\ Len(SubSeq(slots, 1, n)) = (IF 1 <= n THEN n - 1 + 1 ELSE 0)
      BY <3>4, SubSeqProperties
    <3>6. \A i \in 1..(n - 1 + 1) : SubSeq(slots, 1, n)[i] = slots[1 + i - 1]
      BY <3>4, SubSeqProperties
    <3>7. slots' = SubSeq(slots, 1, n) /\ \A i \in 1..n : i \in 1..(n - 1 + 1) /\ 1 + i - 1 = i
      BY <2>1, <3>3
    <3> QED BY <3>1, <3>3, <3>5, <3>6, <3>7
  <2>3. \A i, j \in 1..Len(slots) : slots[i] = slots[j] => i = j
    BY DEF ClientInv, SlotInv
  <2>4. \A i \in 1..(Len(slots) - 1) : op'[slots[i]] = "Finished"
    <3> SUFFICES ASSUME NEW i \in 1..(Len(slots) - 1) PROVE op'[slots[i]] = "Finished"
      OBVIOUS
    <3>1. i \in 1..Len(slots) /\ Len(slots) \in 1..Len(slots) /\ i # Len(slots)
      BY <2>2
    <3>2. slots[i] # slots[Len(slots)]
      BY <2>3, <3>1
    <3> QED BY <1>1, <1>2, <2>1, <3>1, <3>2
  <2> QED BY <2>2, <2>3, <2>4 DEF SlotInv
<1>6. ASSUME NEW o \in JsOps,
             \/ \E callable \in Callbacks : JsStart(o, callable)
             \/ \E readable \in BOOLEAN : JsMessageReceived(o, readable)
             \/ SenderWrites(o) \/ SenderCollected(o)
      PROVE  SlotInv'
  <2>1. UNCHANGED slots /\ (UNCHANGED op \/ (op[o] = "Unused" /\ \E s : op' = [op EXCEPT ![o] = s]))
    BY <1>6 DEF JsStart, JsMessageReceived, SenderWrites, SenderCollected, vars, Start
  <2> QED BY <1>1, <1>3, <2>1
<1>7. ASSUME NEW o \in JsOps, JsFinishes(o) PROVE SlotInv'
  BY <1>4, <1>7 DEF JsFinishes, OpFinishes, FinishedSlot, InSet
<1>8. ASSUME NEW o \in JsOps, ConnectionDeleted(o) PROVE SlotInv'
  <2>1. slots = <<>> /\ slots' = slots
    BY <1>8 DEF ConnectionDeleted, ClientInv, LoopInv
  <2> QED BY <1>1, <2>1 DEF SlotInv
<1>9. ASSUME NEW o \in Ops \ JsOps, ProgramStep(o) PROVE SlotInv'
  <2>1. UNCHANGED slots /\ \E s : op' = [op EXCEPT ![o] = s]
    BY <1>9 DEF ProgramStep, jsVars, Start, OpFinishes, Destroy
  <2> QED BY <1>1, <1>3, <2>1
<1>10. CASE QmlCancelNext
  <2>1. PICK o \in Ops : o = memory[loop.it]
    BY <1>10, NextIsOp DEF ClientInv, QmlCancelNext
  <2>2. CASE op[o] = "Tracked" /\ o \in JsOps
    <3>1. op' = [op EXCEPT ![o] = "Finished"] /\ slots' = Append(slots, o)
      BY <1>10, <2>1, <2>2 DEF QmlCancelNext, CancelNext, FinishedSlot
    <3> QED BY <1>4, <2>2, <3>1
  <2>3. CASE op[o] # "Tracked" \/ o \notin JsOps
    <3>1. UNCHANGED slots /\ (UNCHANGED op \/ (o \notin JsOps /\ op' = [op EXCEPT ![o] = "Finished"]))
      BY <1>10, <2>1, <2>3 DEF QmlCancelNext, CancelNext, jsVars
    <3> QED BY <1>1, <1>3, <3>1
  <2> QED BY <2>2, <2>3
<1>11. CASE (\E ch \in Channels : QmlAttachChannel(ch)) \/ QmlChannelChanged
            \/ EngineDestroyed \/ EngineGone \/ UNCHANGED qmlVars
  <2>1. UNCHANGED <<slots, op>>
    BY <1>11 DEF QmlAttachChannel, QmlChannelChanged, AttachChannel, ChannelChanged,
                 EngineDestroyed, EngineGone, qmlVars, vars, jsVars
  <2> QED BY <1>3, <2>1
<1> QED BY <1>5, <1>6, <1>7, <1>8, <1>9, <1>10, <1>11 DEF QmlNext

\* The three together, from the first state on.
LEMMA ClientInvariant == QmlSpec => []ClientInv
<1>1. QmlInit => ClientInv
  <2> SUFFICES ASSUME QmlInit PROVE ClientInv
    OBVIOUS
  <2>1. op \in [Ops -> OpStates] /\ memory \in [Cells -> Ops \cup {Free}] /\ first = 1 /\ size = 0
    BY DEF QmlInit, Init, OpStates
  <2>2. Listed = {} /\ MayBeListed = Ops
    BY DEF QmlInit, Init, Listed, MayBeListed, InSet
  <2>3. Cardinality(Ops) \in Nat /\ Cardinality({}) = 0
    BY OpSets, FS_EmptySet
  <2>4. Span(1, 0) = {}
    BY DEF Span
  <2>5. ListInv
    BY <2>1, <2>2, <2>3, <2>4 DEF ListInv, Holds
  <2>6. LoopInv /\ SlotInv
    <3>1. NoLoop \in Loops /\ ~NoLoop.on
      BY DEF NoLoop, Loops
    <3> QED BY <3>1 DEF QmlInit, Init, LoopInv, StackInv, Attaching, SlotInv
  <2> QED BY <2>5, <2>6 DEF ClientInv
<1>2. ClientInv /\ [QmlNext]_qmlVars => ClientInv'
  BY StepList, StepLoop, StepSlots DEF ClientInv
<1> QED BY <1>1, <1>2, PTL DEF QmlSpec

\* activeStreams is exactly the RPCs that the channel has and that have not ended,
\* in order and without duplicates: with any number of RPCs, also while
\* attachChannel() runs, refused RPCs and RPCs started from slots included.
THEOREM SetIsExact == QmlSpec => []TrackedExactly
<1>1. ClientInv => TrackedExactly
  BY ListTracks DEF ClientInv
<1> QED BY <1>1, ClientInvariant, PTL

-----------------------------------------------------------------------------
(* The loop of attachChannel().                                            *)

\* As long as the list is not empty the iterators stand at or before its begin()
\* and the ends they keep are not before its end.  A loop that is alone stands at
\* begin(), and it is through once the list is empty.
Covers(l, f, s) == s > 0 => l.it <= f /\ f + s <= l.end

ReadInv ==
    \A l \in Attaching : l.hears =>
        /\ NoneRefused
        /\ Covers(l, first, size)
        /\ l.alone => /\ size > 0 => l.it = first /\ l.end = first + size
                      /\ size = 0 => l.it = l.end

\* remove() makes the list shorter at one end or the other.
LEMMA RemoveShrinks ==
    ASSUME ListInv, NEW o, Remove(o), NEW l, Covers(l, first, size), l.it \in Int, l.end \in Int
    PROVE  Covers(l, first', size')
<1>1. first \in Nat /\ size \in Nat
  BY DEF ListInv
<1>2. \/ first' = first /\ size' = size
      \/ first' = first + 1 /\ size' = size - 1
      \/ first' = first /\ size' = size - 1
  BY DEF Remove
<1> QED BY <1>1, <1>2 DEF Covers

\* An RPC that has ended leaves the list as it is.
LEMMA EndedNotRemoved ==
    ASSUME ListInv, NEW o \in Ops, o \notin Listed, Remove(o)
    PROVE  UNCHANGED <<memory, first, size>>
<1>1. activeStreams = Span(first, size) /\ \A c \in activeStreams : memory[c] # o
  BY Room DEF ListInv, Holds
<1>2. size > 1 => first \in activeStreams
  BY <1>1 DEF ListInv, Span
<1> QED BY <1>1, <1>2 DEF Remove

\* Cancelling the RPC at begin() moves begin(), or ends the list.
LEMMA FirstRemoved ==
    ASSUME ListInv, size > 0, Remove(memory[first])
    PROVE  IF size = 1 THEN size' = 0 /\ UNCHANGED first
           ELSE size' = size - 1 /\ first' = first + 1
<1>1. activeStreams = Span(first, size) /\ first \in Span(first, size)
  BY Room DEF ListInv, Span
<1>2. \A c \in activeStreams : memory[c] = memory[first] => c = first
  <2>1. Listed \in SUBSET Nat
    BY OpSets DEF Listed
  <2> QED BY <1>1, <2>1, HeldOnce DEF ListInv
<1>3. \/ size > 1 /\ first' = first + 1 /\ size' = size - 1
      \/ size = 1 /\ size' = size - 1 /\ first' = first
  BY <1>1, <1>2 DEF Remove
<1> QED BY <1>3 DEF ListInv

\* The loop reads the list from begin(), which each cancellation moves on.
LEMMA StepReads ==
    ASSUME ~Restart, ClientInv, ReadInv, [QmlNext]_qmlVars
    PROVE  ReadInv'
<1> USE DEF ClientInv
<1>0. /\ op \in [Ops -> OpStates] /\ ListInv /\ LoopInv /\ loop \in Loops
      /\ \A l \in Attaching : l.it \in Int /\ l.end \in Int
  BY LoopsTyped DEF ListInv, LoopInv, StackInv, Loops
<1>1. CASE UNCHANGED <<op, memory, first, size, loop, outer>>
  BY <1>1 DEF ReadInv, NoneRefused, Attaching, Covers
<1>2. ASSUME NEW o \in Ops, Start(o) PROVE ReadInv'
  BY <1>2 DEF Start, ReadInv, Attaching
<1>3. ASSUME NEW o \in Ops, NEW s \in {"Finished", "Destroyed"}, op' = [op EXCEPT ![o] = s],
             NoneRefused
      PROVE  NoneRefused'
  BY <1>0, <1>3 DEF NoneRefused
<1>4. ASSUME NEW o \in Ops, NEW s \in {"Finished", "Destroyed"}, op' = [op EXCEPT ![o] = s],
             Remove(o) \/ (o \notin Listed /\ UNCHANGED <<memory, first, size>>), SameStack,
             \/ ~loop.on
             \/ loop' = [loop EXCEPT !.alone = ~loop.on]
             \/ slots # <<>> /\ o = slots[Len(slots)]
      PROVE  ReadInv'
  <2>1. CASE ~loop.on
    BY <1>0, <1>4, <2>1, StackKept DEF ReadInv, Attaching
  <2>2. CASE loop.on
    <3>1. SUFFICES ASSUME NEW l \in Attaching', l.hears
                   PROVE  /\ NoneRefused' /\ Covers(l, first', size')
                          /\ l.alone => /\ size' > 0 => l.it = first' /\ l.end = first' + size'
                                        /\ size' = 0 => l.it = l.end
      BY DEF ReadInv
    <3>2. PICK k \in Attaching : SameReading(l, k) /\ (l.alone => k.alone)
      BY <1>0, <1>4, <3>1, StackKept
    <3>3. /\ NoneRefused /\ Covers(k, first, size) /\ k.it \in Int /\ k.end \in Int
          /\ k.alone => /\ size > 0 => k.it = first /\ k.end = first + size
                        /\ size = 0 => k.it = k.end
      BY <1>0, <3>1, <3>2 DEF ReadInv, SameReading
    <3>4. Covers(l, first', size')
      <4>1. Covers(k, first', size')
        BY <1>0, <1>4, <3>3, RemoveShrinks DEF Covers
      <4> QED BY <3>2, <4>1 DEF Covers, SameReading
    <3>5. ASSUME l.alone PROVE UNCHANGED <<memory, first, size>>
      <4>1. loop' # [loop EXCEPT !.alone = ~loop.on]
        <5>1. \A i \in 1..Len(outer) : ~outer[i].alone
          BY <1>0 DEF LoopInv, StackInv
        <5>2. l = loop'
          BY <3>1, <3>5, <5>1, <1>4 DEF Attaching, SameStack
        <5>3. ~[loop EXCEPT !.alone = ~loop.on].alone
          BY <1>0, <2>2 DEF Loops
        <5> QED BY <3>5, <5>2, <5>3
      <4>2. slots # <<>> /\ o = slots[Len(slots)] /\ slots \in Seq(JsOps)
        BY <1>4, <2>2, <4>1 DEF SlotInv
      <4>3. op[o] = "Finished"
        BY <4>2 DEF SlotInv
      <4>4. o \notin Listed
        BY <4>3 DEF Listed, InSet
      <4> QED BY <1>0, <1>4, <4>4, EndedNotRemoved
    <3> QED BY <1>3, <1>4, <3>2, <3>3, <3>4, <3>5 DEF SameReading
  <2> QED BY <2>1, <2>2
<1>5. ASSUME NEW ch \in Channels, AttachChannel(ch) PROVE ReadInv'
  <2>1. /\ UNCHANGED <<op, first, size>> /\ loop'.it = first /\ loop'.end = first + size
        /\ loop'.hears = NoneRefused /\ first \in Nat /\ size \in Nat
    BY <1>0, <1>5 DEF AttachChannel, ListInv
  <2>2. NoneRefused' = NoneRefused
    BY <2>1 DEF NoneRefused
  <2>3. ASSUME NEW l, ~l.alone, NEW k \in Attaching, SameReading(l, k), l.hears
        PROVE  NoneRefused' /\ Covers(l, first', size')
    BY <2>1, <2>2, <2>3 DEF ReadInv, Covers, SameReading
  <2>4. Covers(loop', first', size')
    BY <2>1 DEF Covers
  <2> QED BY <1>0, <1>5, <2>1, <2>2, <2>3, <2>4, StackCalled DEF ReadInv
<1>6. CASE CancelNext
  <2>1. PICK o \in Ops : o = memory[loop.it]
    BY <1>6, NextIsOp
  <2>2. /\ first \in Nat /\ size \in Nat /\ loop.it \in Nat /\ loop.end \in Nat
        /\ loop.on /\ loop.it < loop.end
    BY <1>0, <1>6 DEF CancelNext, ListInv, Loops
  <2>3. \/ op[o] = "Tracked" /\ op' = [op EXCEPT ![o] = "Finished"] /\ Remove(o)
        \/ op[o] # "Tracked" /\ UNCHANGED <<op, memory, first, size>>
    BY <1>6, <2>1 DEF CancelNext, RemoveFinished
  <2>4. NoneRefused => NoneRefused'
    BY <1>3, <2>3 DEF NoneRefused
  <2>5. ASSUME NEW l \in Attaching, l.hears PROVE NoneRefused' /\ Covers(l, first, size) /\ Covers(l, first', size')
    <3>1. NoneRefused /\ Covers(l, first, size)
      BY <2>5 DEF ReadInv
    <3> QED BY <1>0, <2>3, <2>4, <2>5, <3>1, RemoveShrinks DEF Covers
  <2>6. ASSUME NoneRefused, size > 0, loop.it = first
        PROVE  op[o] = "Tracked"
    <3>1. first \in Span(first, size)
      BY <2>2, <2>6 DEF Span
    <3>2. o \in Listed
      BY <2>1, <2>6, <3>1 DEF ListInv, Holds
    <3> QED BY <2>6, <3>2 DEF NoneRefused, Listed, InSet
  <2>7. ASSUME op[o] = "Tracked", size > 0, loop.it = first
        PROVE  IF size = 1 THEN size' = 0 /\ UNCHANGED first
               ELSE size' = size - 1 /\ first' = first + 1
    BY <2>1, <2>3, <2>7, FirstRemoved
  <2>8. op[o] = "Tracked" => size > 0
    <3> SUFFICES ASSUME op[o] = "Tracked" PROVE size > 0
      OBVIOUS
    <3>1. o \in Listed
      BY DEF Listed, InSet
    <3>2. PICK c \in Span(first, size) : memory[c] = o
      BY <3>1 DEF ListInv, Holds
    <3> QED BY <2>2, <3>2 DEF Span
  <2>9. /\ loop \in Attaching /\ loop'.it = loop.it + 1 /\ loop'.end = loop.end
        /\ loop'.hears = loop.hears /\ loop'.alone = loop.alone
        /\ \A l \in Attaching' : l = loop' \/ (l \in Attaching /\ ~l.alone)
    BY <1>0, <1>6, StackGoesOn
  <2>10. ASSUME loop.hears PROVE Covers(loop', first', size')
    <3>1. NoneRefused /\ Covers(loop, first, size) /\ Covers(loop, first', size')
      BY <2>5, <2>9, <2>10 DEF ReadInv
    <3>2. CASE loop.it = first
      <4>1. CASE size = 0
        <5>1. size' = 0
          BY <2>2, <2>3, <2>8, <4>1
        <5> QED BY <5>1 DEF Covers
      <4>2. CASE size > 0
        <5>1. op[o] = "Tracked"
          BY <2>6, <3>1, <3>2, <4>2
        <5>2. IF size = 1 THEN size' = 0 /\ UNCHANGED first
              ELSE size' = size - 1 /\ first' = first + 1
          BY <2>7, <3>2, <4>2, <5>1
        <5> QED BY <2>2, <2>9, <3>1, <4>2, <5>2 DEF Covers
      <4> QED BY <2>2, <4>1, <4>2
    <3>3. CASE loop.it # first
      <4>1. size > 0 => loop.it + 1 <= first
        BY <2>2, <3>1, <3>3 DEF Covers
      <4>2. size' > 0 => size > 0 /\ first <= first' /\ first' \in Nat
        BY <2>2, <2>3 DEF Remove
      <4> QED BY <2>2, <2>9, <3>1, <4>1, <4>2 DEF Covers
    <3> QED BY <3>2, <3>3
  <2>11. ASSUME loop.hears, loop.alone
         PROVE  /\ size' > 0 => loop'.it = first' /\ loop'.end = first' + size'
                /\ size' = 0 => loop'.it = loop'.end
    <3>1. /\ NoneRefused
          /\ size > 0 => loop.it = first /\ loop.end = first + size
          /\ size = 0 => loop.it = loop.end
      BY <2>9, <2>11 DEF ReadInv
    <3>2. size > 0 /\ op[o] = "Tracked"
      BY <2>2, <2>6, <3>1
    <3> QED BY <2>2, <2>7, <2>9, <3>1, <3>2
  <2> QED BY <2>5, <2>9, <2>10, <2>11 DEF ReadInv
<1>7. CASE ChannelChanged
  <2>1. Attaching' \subseteq Attaching /\ UNCHANGED <<op, first, size>>
    BY <1>0, <1>7, StackReturns DEF ChannelChanged
  <2> QED BY <2>1 DEF ReadInv, NoneRefused, Covers
<1> QED BY <1>1, <1>2, <1>4, <1>5, <1>6, <1>7, ClientEffect

\* The range-for of attachChannel() over the set its body shrinks leaves no RPC
\* behind, for any number of RPCs, and whatever the slots of finished() cancel,
\* destroy or attach, one call within the other: unless one of the RPCs was
\* refused by the channel, or a slot starts another.  And it reads no RPC that
\* has ended, unless a slot ended one that the loop had still to read.
THEOREM NonePassedOver ==
    ASSUME ~Restart
    PROVE  QmlSpec => []LoopReadsAll
<1>1. QmlInit => ReadInv
  BY DEF QmlInit, Init, NoLoop, ReadInv, Attaching
<1>2. ClientInv /\ ReadInv /\ [QmlNext]_qmlVars => ReadInv'
  BY StepReads
<1>3. ClientInv /\ ReadInv => LoopReadsAll
  <2> SUFFICES ASSUME ClientInv, ReadInv, NEW l \in Attaching, l.hears
               PROVE  /\ activeStreams \subseteq l.it..(l.end - 1)
                      /\ l.alone => l.it..(l.end - 1) \subseteq activeStreams
    BY DEF LoopReadsAll, LeftToRead
  <2>1. activeStreams = Span(first, size) /\ size \in Nat /\ first \in Nat
    BY Room DEF ClientInv, ListInv
  <2>2. l.it \in Nat /\ l.end \in Nat
    BY LoopsTyped DEF ClientInv, Loops
  <2> QED BY <2>1, <2>2 DEF ReadInv, Covers, Span
<1> QED BY <1>1, <1>2, <1>3, ClientInvariant, PTL DEF QmlSpec

-----------------------------------------------------------------------------
(* What the script hears of one RPC.                                       *)

AllCallbacks == {"message", "finish", "error"}
Said == {"message", "unreadable", "status", "finish"}

RpcRecords ==
    [kind : Kinds \cup {"None"}, callable : SUBSET AllCallbacks, owned : BOOLEAN,
     sender : [object : BOOLEAN, stream : BOOLEAN, late : BOOLEAN],
     came : Seq(BOOLEAN), status : {"None", "Ok", "Failed"}, heard : Seq(Said)]

Told(r) == IF r.kind \in Streams THEN Len(r.came) ELSE 0
SaidOf(readable) == IF readable THEN "message" ELSE "unreadable"

\* One callback for each message of a stream, and one for the end.
HeardOf(r) ==
    r.callable = AllCallbacks =>
        /\ Len(r.heard) = Told(r) + (IF r.status = "None" THEN 0 ELSE 1)
        /\ \A i \in 1..Told(r) : r.heard[i] = SaidOf(r.came[i])
        /\ r.status = "Failed" => r.heard[Told(r) + 1] = "status"
        /\ r.status = "Ok" =>
              r.heard[Told(r) + 1] = IF r.kind \in Streams THEN "finish"
                                     ELSE SaidOf(ReadableLast(r.came))

\* The callbacks are three.
LEMMA ThreeCallbacks ==
    ASSUME NEW S \in SUBSET AllCallbacks, Cardinality(S) = 3
    PROVE  S = AllCallbacks
<1>1. /\ IsFiniteSet({"message"}) /\ Cardinality({"message"}) = 1
  BY FS_Singleton
<1>2. /\ IsFiniteSet({"message", "finish"}) /\ Cardinality({"message", "finish"}) = 2
  <2>1. {"message", "finish"} = {"message"} \cup {"finish"} /\ "finish" \notin {"message"}
    OBVIOUS
  <2> QED BY <1>1, <2>1, FS_AddElement
<1>3. /\ IsFiniteSet(AllCallbacks) /\ Cardinality(AllCallbacks) = 3
  <2>1. AllCallbacks = {"message", "finish"} \cup {"error"} /\ "error" \notin {"message", "finish"}
    BY DEF AllCallbacks
  <2> QED BY <1>2, <2>1, FS_AddElement
<1> QED BY <1>3, FS_Subset

\* One more at the end of a sequence.
LEMMA OneMore ==
    ASSUME NEW S, NEW s \in Seq(S), NEW x \in S
    PROVE  /\ s \o <<x>> \in Seq(S) /\ Len(s \o <<x>>) = Len(s) + 1 /\ Len(s) \in Nat
           /\ (s \o <<x>>)[Len(s) + 1] = x
           /\ \A i \in 1..Len(s) : (s \o <<x>>)[i] = s[i]
<1>1. <<x>> \in Seq(S) /\ Len(<<x>>) = 1 /\ <<x>>[1] = x /\ Len(s) \in Nat
  OBVIOUS
<1>2. /\ s \o <<x>> \in Seq(S) /\ Len(s \o <<x>>) = Len(s) + 1
      /\ \A i \in 1..(Len(s) + 1) : (s \o <<x>>)[i] = IF i <= Len(s) THEN s[i] ELSE <<x>>[i - Len(s)]
  BY <1>1, ConcatProperties
<1> QED BY <1>1, <1>2

\* What a callback is told is at most one thing, and one of Said.
LEMMA CallSays ==
    ASSUME NEW callable \in SUBSET AllCallbacks, NEW readable \in BOOLEAN,
           NEW status \in {"Ok", "Failed"}
    PROVE  /\ handleReceivedMessage(callable, "message", readable) \in {<<>>} \cup {<<x>> : x \in Said}
           /\ MultipleReceiveFinished(callable, status) \in {<<>>} \cup {<<x>> : x \in Said}
           /\ SingleReceiveFinished(callable, status, readable) \in {<<>>} \cup {<<x>> : x \in Said}
           /\ callable = AllCallbacks =>
                /\ handleReceivedMessage(callable, "message", readable) = <<SaidOf(readable)>>
                /\ MultipleReceiveFinished(callable, status)
                     = IF status = "Ok" THEN <<"finish">> ELSE <<"status">>
                /\ SingleReceiveFinished(callable, status, readable)
                     = IF status = "Ok" THEN <<SaidOf(readable)>> ELSE <<"status">>
BY DEF handleReceivedMessage, handleDeserializationError, MultipleReceiveFinished,
       SingleReceiveFinished, checkReceivedStatus, Call, AllCallbacks, Said, SaidOf

\* So it lengthens what was heard by at most one.
LEMMA HeardTyped ==
    ASSUME NEW s \in Seq(Said), NEW say \in {<<>>} \cup {<<x>> : x \in Said}
    PROVE  s \o say \in Seq(Said)
<1>1. say \in Seq(Said)
  <2>1. CASE say = <<>>
    BY <2>1
  <2>2. ASSUME NEW x \in Said, say = <<x>> PROVE say \in Seq(Said)
    BY <2>2
  <2> QED BY <2>1, <2>2
<1> QED BY <1>1, ConcatProperties

\* The fields of an RPC, one by one.
LEMMA RecordUpdated ==
    ASSUME NEW r \in RpcRecords, NEW came, NEW heard, NEW status
    PROVE  /\ [r EXCEPT !.came = came, !.heard = heard]
                = [kind |-> r.kind, callable |-> r.callable, owned |-> r.owned, sender |-> r.sender,
                   came |-> came, status |-> r.status, heard |-> heard]
           /\ [r EXCEPT !.status = status, !.heard = heard]
                = [kind |-> r.kind, callable |-> r.callable, owned |-> r.owned, sender |-> r.sender,
                   came |-> r.came, status |-> status, heard |-> heard]
<1>1. PICK q : q = [r EXCEPT !.came = came]
  OBVIOUS
<1>2. q = [kind |-> r.kind, callable |-> r.callable, owned |-> r.owned, sender |-> r.sender,
           came |-> came, status |-> r.status, heard |-> r.heard]
  BY <1>1 DEF RpcRecords
<1>3. [q EXCEPT !.heard = heard]
        = [kind |-> r.kind, callable |-> r.callable, owned |-> r.owned, sender |-> r.sender,
           came |-> came, status |-> r.status, heard |-> heard]
  BY <1>2
<1>4. PICK p : p = [r EXCEPT !.status = status]
  OBVIOUS
<1>5. p = [kind |-> r.kind, callable |-> r.callable, owned |-> r.owned, sender |-> r.sender,
           came |-> r.came, status |-> status, heard |-> r.heard]
  BY <1>4 DEF RpcRecords
<1>6. [p EXCEPT !.heard = heard]
        = [kind |-> r.kind, callable |-> r.callable, owned |-> r.owned, sender |-> r.sender,
           came |-> r.came, status |-> status, heard |-> heard]
  BY <1>5
<1>7. /\ [r EXCEPT !.came = came, !.heard = heard] = [q EXCEPT !.heard = heard]
      /\ [r EXCEPT !.status = status, !.heard = heard] = [p EXCEPT !.heard = heard]
  BY <1>1, <1>4
<1> QED BY <1>3, <1>6, <1>7

WithMessage(r, readable) ==
    [r EXCEPT !.came = Append(@, readable),
              !.heard = IF r.kind \in Streams
                        THEN @ \o handleReceivedMessage(r.callable, "message", readable)
                        ELSE @]

WithEnd(r, status) == [r EXCEPT !.status = status, !.heard = @ \o HeardAtEnd(r, status)]

\* A message comes: a stream hears of it, the other kinds keep it.
LEMMA MessageHeard ==
    ASSUME NEW r \in RpcRecords, r.status = "None", HeardOf(r), NEW readable \in BOOLEAN
    PROVE  WithMessage(r, readable) \in RpcRecords /\ HeardOf(WithMessage(r, readable))
<1> DEFINE q == WithMessage(r, readable)
           say == handleReceivedMessage(r.callable, "message", readable)
<1>1. /\ r.came \in Seq(BOOLEAN) /\ r.heard \in Seq(Said) /\ r.callable \in SUBSET AllCallbacks
  BY DEF RpcRecords
<1>2. /\ Append(r.came, readable) \in Seq(BOOLEAN)
      /\ Len(Append(r.came, readable)) = Len(r.came) + 1 /\ Len(r.came) \in Nat
      /\ Append(r.came, readable)[Len(r.came) + 1] = readable
      /\ \A i \in 1..Len(r.came) : Append(r.came, readable)[i] = r.came[i]
  BY <1>1
<1>3. say \in {<<>>} \cup {<<x>> : x \in Said}
  BY <1>1, CallSays
<1>4. r.heard \o say \in Seq(Said)
  BY <1>1, <1>3, HeardTyped
<1>5. q = [kind |-> r.kind, callable |-> r.callable, owned |-> r.owned, sender |-> r.sender,
           came |-> Append(r.came, readable), status |-> r.status,
           heard |-> IF r.kind \in Streams THEN r.heard \o say ELSE r.heard]
  BY RecordUpdated DEF WithMessage
<1> HIDE DEF q, say
<1>6. q \in RpcRecords
  BY <1>1, <1>2, <1>4, <1>5 DEF RpcRecords
<1>7. ASSUME r.callable = AllCallbacks, r.kind \in Streams PROVE HeardOf(q)
  <2>1. say = <<SaidOf(readable)>> /\ SaidOf(readable) \in Said
    BY <1>1, <1>7, CallSays DEF say, SaidOf, Said
  <2>2. /\ q.heard = r.heard \o <<SaidOf(readable)>> /\ q.came = Append(r.came, readable)
        /\ q.kind \in Streams /\ q.status = "None"
    BY <1>5, <1>7, <2>1
  <2>3. /\ Len(q.heard) = Len(r.heard) + 1 /\ q.heard[Len(r.heard) + 1] = SaidOf(readable)
        /\ \A i \in 1..Len(r.heard) : q.heard[i] = r.heard[i]
    BY <1>1, <2>1, <2>2, OneMore
  <2>4. Len(r.heard) = Len(r.came) /\ \A i \in 1..Len(r.came) : r.heard[i] = SaidOf(r.came[i])
    BY <1>2, <1>7 DEF HeardOf, Told
  <2>5. \A i \in 1..(Len(r.came) + 1) : q.heard[i] = SaidOf(q.came[i])
    <3> SUFFICES ASSUME NEW i \in 1..(Len(r.came) + 1) PROVE q.heard[i] = SaidOf(q.came[i])
      OBVIOUS
    <3>1. CASE i = Len(r.came) + 1
      BY <1>2, <2>2, <2>3, <2>4, <3>1
    <3>2. CASE i \in 1..Len(r.came)
      BY <1>2, <2>2, <2>3, <2>4, <3>2
    <3> QED BY <1>2, <3>1, <3>2
  <2>6. Told(q) = Len(r.came) + 1
    BY <1>2, <2>2 DEF Told
  <2> QED BY <1>2, <2>2, <2>3, <2>4, <2>5, <2>6 DEF HeardOf
<1>8. ASSUME r.kind \notin Streams PROVE HeardOf(q)
  <2>1. q.heard = r.heard /\ q.kind = r.kind /\ q.status = "None" /\ q.callable = r.callable
    BY <1>5, <1>8
  <2>2. Told(q) = 0 /\ Told(r) = 0
    BY <1>8, <2>1 DEF Told
  <2> QED BY <2>1, <2>2 DEF HeardOf
<1>9. ASSUME r.callable # AllCallbacks PROVE HeardOf(q)
  BY <1>5, <1>9 DEF HeardOf
<1> QED BY <1>6, <1>7, <1>8, <1>9 DEF q

\* finished() comes: the script hears how the RPC ended.
LEMMA EndHeard ==
    ASSUME NEW r \in RpcRecords, r.status = "None", HeardOf(r), NEW status \in {"Ok", "Failed"}
    PROVE  WithEnd(r, status) \in RpcRecords /\ HeardOf(WithEnd(r, status))
<1> DEFINE q == WithEnd(r, status)
           say == HeardAtEnd(r, status)
           what == IF status = "Failed" THEN "status"
                   ELSE IF r.kind \in Streams THEN "finish" ELSE SaidOf(ReadableLast(r.came))
<1>1. /\ r.came \in Seq(BOOLEAN) /\ r.heard \in Seq(Said) /\ r.callable \in SUBSET AllCallbacks
  BY DEF RpcRecords
<1>2. ReadableLast(r.came) \in BOOLEAN
  <2>1. r.came # <<>> => Len(r.came) \in 1..Len(r.came)
    BY <1>1
  <2> QED BY <1>1, <2>1 DEF ReadableLast
<1>3. say \in {<<>>} \cup {<<x>> : x \in Said}
  BY <1>1, <1>2, CallSays DEF HeardAtEnd
<1>4. r.heard \o say \in Seq(Said)
  BY <1>1, <1>3, HeardTyped
<1>5. q = [kind |-> r.kind, callable |-> r.callable, owned |-> r.owned, sender |-> r.sender,
           came |-> r.came, status |-> status, heard |-> r.heard \o say]
  BY RecordUpdated DEF WithEnd
<1> HIDE DEF q
<1>6. q \in RpcRecords
  <2> HIDE DEF say
  <2> QED BY <1>1, <1>4, <1>5 DEF RpcRecords
<1>7. ASSUME r.callable = AllCallbacks PROVE HeardOf(q)
  <2>1. say = <<what>>
    BY <1>1, <1>2, <1>7, CallSays DEF HeardAtEnd
  <2>2. what \in Said
    BY DEF SaidOf, Said
  <2> HIDE DEF say, what
  <2>3. q.heard = r.heard \o <<what>> /\ q.came = r.came /\ q.kind = r.kind /\ q.status = status
    BY <1>5, <2>1
  <2>4. /\ Len(q.heard) = Len(r.heard) + 1 /\ q.heard[Len(r.heard) + 1] = what
        /\ \A i \in 1..Len(r.heard) : q.heard[i] = r.heard[i]
    BY <1>1, <2>2, <2>3, OneMore
  <2>5. Told(q) = Told(r) /\ Told(r) \in Nat
    BY <1>1, <2>3 DEF Told
  <2>6. Len(r.heard) = Told(r) /\ \A i \in 1..Told(r) : r.heard[i] = SaidOf(r.came[i])
    BY <1>7, <2>5 DEF HeardOf
  <2>7. /\ status = "Failed" => what = "status"
        /\ status = "Ok" => what = IF r.kind \in Streams THEN "finish" ELSE SaidOf(ReadableLast(r.came))
    BY DEF what
  <2> QED BY <2>3, <2>4, <2>5, <2>6, <2>7 DEF HeardOf
<1>8. ASSUME r.callable # AllCallbacks PROVE HeardOf(q)
  BY <1>5, <1>8 DEF HeardOf
<1> QED BY <1>6, <1>7, <1>8 DEF q

-----------------------------------------------------------------------------
(* The script's RPCs.                                                      *)

\* What holds of an RPC with record r that is in state s, in the engine e.
RpcOK(r, s, e) ==
    /\ r \in RpcRecords
    /\ HeardOf(r)
    /\ r.sender.stream => s # "Destroyed"
    /\ ~r.sender.late
    /\ r.owned <=> s \notin {"Unused", "Destroyed"}
    /\ r.status # "None" => s \in {"Finished", "Destroyed"}
    /\ s \in {"Finished", "Destroyed"} => r.status # "None" \/ e # "Alive"

RpcInv == /\ js \in [JsOps -> RpcRecords]
          /\ \A o \in JsOps : RpcOK(js[o], op[o], engine)

\* A record that keeps what was heard keeps HeardOf.
LEMMA HeardKept ==
    ASSUME NEW r, NEW q, HeardOf(r), q.kind = r.kind, q.callable = r.callable, q.came = r.came,
           q.status = r.status, q.heard = r.heard
    PROVE  HeardOf(q)
BY DEF HeardOf, Told

\* The fields that the slots and the sender change.
LEMMA OwnerUpdated ==
    ASSUME NEW r \in RpcRecords, NEW owned \in BOOLEAN,
           NEW sender \in [object : BOOLEAN, stream : BOOLEAN, late : BOOLEAN]
    PROVE  /\ [r EXCEPT !.owned = owned, !.sender = sender]
                = [kind |-> r.kind, callable |-> r.callable, owned |-> owned, sender |-> sender,
                   came |-> r.came, status |-> r.status, heard |-> r.heard]
           /\ [r EXCEPT !.owned = owned, !.sender = sender] \in RpcRecords
<1>1. PICK q : q = [r EXCEPT !.owned = owned]
  OBVIOUS
<1>2. q = [kind |-> r.kind, callable |-> r.callable, owned |-> owned, sender |-> r.sender,
           came |-> r.came, status |-> r.status, heard |-> r.heard]
  BY <1>1 DEF RpcRecords
<1>3. [q EXCEPT !.sender = sender]
        = [kind |-> r.kind, callable |-> r.callable, owned |-> owned, sender |-> sender,
           came |-> r.came, status |-> r.status, heard |-> r.heard]
  BY <1>2
<1>4. [r EXCEPT !.owned = owned, !.sender = sender] = [q EXCEPT !.sender = sender]
  BY <1>1
<1>5. /\ r.kind \in Kinds \cup {"None"} /\ r.callable \in SUBSET AllCallbacks
      /\ r.came \in Seq(BOOLEAN) /\ r.status \in {"None", "Ok", "Failed"} /\ r.heard \in Seq(Said)
  BY DEF RpcRecords
<1> QED BY <1>3, <1>4, <1>5 DEF RpcRecords

\* A sender that is changed alone.
LEMMA SenderUpdated ==
    ASSUME NEW r, NEW s, NEW e, RpcOK(r, s, e), NEW owned \in BOOLEAN,
           NEW sender \in [object : BOOLEAN, stream : BOOLEAN, late : BOOLEAN],
           NEW t, ~sender.late, sender.stream => t # "Destroyed",
           owned <=> t \notin {"Unused", "Destroyed"},
           t = s \/ (s = "Finished" /\ t = "Destroyed") \/ (t = "Destroyed" /\ e # "Alive")
    PROVE  RpcOK([r EXCEPT !.owned = owned, !.sender = sender], t, e)
<1>1. PICK q : q = [r EXCEPT !.owned = owned, !.sender = sender]
  OBVIOUS
<1>2. r \in RpcRecords /\ HeardOf(r)
  BY DEF RpcOK
<1>3. /\ q = [kind |-> r.kind, callable |-> r.callable, owned |-> owned, sender |-> sender,
              came |-> r.came, status |-> r.status, heard |-> r.heard]
      /\ q \in RpcRecords
  BY <1>1, <1>2, OwnerUpdated
<1>4. /\ q.kind = r.kind /\ q.callable = r.callable /\ q.came = r.came /\ q.status = r.status
      /\ q.heard = r.heard /\ q.owned = owned /\ q.sender = sender
  BY <1>3
<1>5. HeardOf(q)
  BY <1>2, <1>4, HeardKept
<1>6. RpcOK(q, t, e)
  BY <1>3, <1>4, <1>5 DEF RpcOK
<1> QED BY <1>1, <1>6

\* One RPC changes.
LEMMA OneRpc ==
    ASSUME RpcInv, NEW o \in JsOps, NEW q, js' = [js EXCEPT ![o] = q],
           \A p \in JsOps \ {o} : op'[p] = op[p], engine' = engine,
           RpcOK(q, op'[o], engine)
    PROVE  RpcInv'
<1>1. js' \in [JsOps -> RpcRecords]
  BY DEF RpcInv, RpcOK
<1>2. \A p \in JsOps : RpcOK(js'[p], op'[p], engine')
  <2> SUFFICES ASSUME NEW p \in JsOps PROVE RpcOK(js'[p], op'[p], engine')
    OBVIOUS
  <2>1. CASE p = o
    <3>1. js'[o] = q
      BY DEF RpcInv
    <3> QED BY <2>1, <3>1
  <2>2. CASE p # o
    <3>1. js'[p] = js[p] /\ op'[p] = op[p] /\ engine' = engine
      BY <2>2 DEF RpcInv
    <3>2. RpcOK(js[p], op[p], engine)
      BY DEF RpcInv
    <3> QED BY <3>1, <3>2
  <2> QED BY <2>1, <2>2
<1> QED BY <1>1, <1>2 DEF RpcInv

\* The script starts an RPC.
LEMMA NewRpc ==
    ASSUME NEW kind \in Kinds, NEW callable \in SUBSET AllCallbacks,
           NEW sender \in {NoSender, NewSender}, NEW s \in OpStates \ {"Unused", "Destroyed", "Finished"},
           NEW e
    PROVE  RpcOK([Unknown EXCEPT !.kind = kind, !.callable = callable, !.owned = TRUE,
                                 !.sender = sender], s, e)
<1>1. PICK q : q = [Unknown EXCEPT !.kind = kind, !.callable = callable, !.owned = TRUE,
                                   !.sender = sender]
  OBVIOUS
<1>2. q = [kind |-> kind, callable |-> callable, owned |-> TRUE, sender |-> sender,
           came |-> <<>>, status |-> "None", heard |-> <<>>]
  BY <1>1 DEF Unknown
<1>3. /\ NoSender \in [object : BOOLEAN, stream : BOOLEAN, late : BOOLEAN] /\ ~NoSender.late
      /\ NewSender \in [object : BOOLEAN, stream : BOOLEAN, late : BOOLEAN] /\ ~NewSender.late
  <2>1. NoSender \in [object : BOOLEAN, stream : BOOLEAN, late : BOOLEAN] /\ ~NoSender.late
    BY DEF NoSender
  <2>2. PICK n : n = [NoSender EXCEPT !.object = TRUE]
    OBVIOUS
  <2>3. n \in [object : BOOLEAN, stream : BOOLEAN, late : BOOLEAN] /\ ~n.late
    BY <2>1, <2>2
  <2>4. NewSender = [n EXCEPT !.stream = TRUE]
    BY <2>2 DEF NewSender
  <2> QED BY <2>1, <2>3, <2>4
<1>4. sender \in [object : BOOLEAN, stream : BOOLEAN, late : BOOLEAN] /\ ~sender.late
  BY <1>3
<1>5. <<>> \in Seq(BOOLEAN) /\ <<>> \in Seq(Said) /\ Len(<<>>) = 0
  OBVIOUS
<1>6. q \in RpcRecords
  BY <1>2, <1>4, <1>5 DEF RpcRecords
<1>7. HeardOf(q)
  <2>1. Told(q) = 0
    BY <1>2, <1>5 DEF Told
  <2>2. q.heard = <<>> /\ q.status = "None"
    BY <1>2
  <2> QED BY <1>5, <2>1, <2>2 DEF HeardOf
<1>8. q.sender = sender /\ q.owned = TRUE /\ q.status = "None"
  BY <1>2
<1>9. RpcOK(q, s, e)
  BY <1>4, <1>6, <1>7, <1>8 DEF RpcOK
<1> QED BY <1>1, <1>9

\* A script starts an RPC: its record is new, so nothing about another one changes.
LEMMA JsStartKeeps ==
    ASSUME ClientInv, RpcInv, NEW o \in JsOps, NEW callable \in Callbacks, JsStart(o, callable)
    PROVE  RpcInv'
<1>1. callable \in SUBSET AllCallbacks /\ o \in Ops
  BY JsAssumption DEF AllCallbacks
<1>2. engine' = engine
  BY DEF JsStart
<1>3. PICK s \in OpStates \ {"Unused", "Destroyed", "Finished"} : op' = [op EXCEPT ![o] = s]
  BY DEF JsStart, Start, OpStates, InSet
<1>4. PICK kind \in Kinds, sender \in {NoSender, NewSender} : MakeConnections(o, kind, callable, sender)
  BY DEF JsStart, JsCall, JsServerStream, JsClientStream, JsBidiStream, Kinds
<1>5. op'[o] = s /\ \A p \in JsOps \ {o} : op'[p] = op[p]
  BY <1>1, <1>3, JsAssumption DEF ClientInv, ListInv
<1>6. PICK q : q = [Unknown EXCEPT !.kind = kind, !.callable = callable, !.owned = TRUE,
                                   !.sender = sender]
  OBVIOUS
<1>7. js' = [js EXCEPT ![o] = q]
  BY <1>4, <1>6 DEF MakeConnections
<1>8. RpcOK(q, op'[o], engine)
  BY <1>1, <1>5, <1>6, NewRpc
<1> QED BY <1>2, <1>5, <1>7, <1>8, OneRpc

\* The callback for a message runs and returns.
LEMMA JsMessageKeeps ==
    ASSUME RpcInv, NEW o \in JsOps, NEW readable \in BOOLEAN, JsMessageReceived(o, readable)
    PROVE  RpcInv'
<1>1. js' = [js EXCEPT ![o] = WithMessage(js[o], readable)]
  BY DEF JsMessageReceived, WithMessage, RpcInv
<1>2. op' = op /\ engine' = engine /\ op[o] = "Tracked"
  BY DEF JsMessageReceived, vars
<1>3. PICK r : r = js[o]
  OBVIOUS
<1>4. RpcOK(r, "Tracked", engine) /\ r \in RpcRecords
  BY <1>2, <1>3 DEF RpcInv
<1>5. r.status = "None" /\ HeardOf(r)
  BY <1>4 DEF RpcOK
<1>6. PICK q : q = WithMessage(r, readable)
  OBVIOUS
<1>7. q \in RpcRecords /\ HeardOf(q)
  BY <1>4, <1>5, <1>6, MessageHeard
<1>8. q.sender = r.sender /\ q.owned = r.owned /\ q.status = r.status
  <2>1. PICK came, heard : q = [r EXCEPT !.came = came, !.heard = heard]
    BY <1>6 DEF WithMessage
  <2>2. q = [kind |-> r.kind, callable |-> r.callable, owned |-> r.owned, sender |-> r.sender,
             came |-> came, status |-> r.status, heard |-> heard]
    BY <1>4, <2>1, RecordUpdated
  <2> QED BY <2>2
<1>9. RpcOK(q, "Tracked", engine)
  BY <1>4, <1>7, <1>8 DEF RpcOK
<1> QED BY <1>1, <1>2, <1>3, <1>6, <1>9, OneRpc

\* The slot that runs the callbacks of the end has done what RpcInv asks of an RPC that ended.
LEMMA FinishedSlotKeeps ==
    ASSUME ClientInv, RpcInv, NEW o \in JsOps, NEW status \in {"Ok", "Failed"}, FinishedSlot(o, status),
           op[o] \in InSet \cup {"Untracked"}, op' = [op EXCEPT ![o] = "Finished"]
    PROVE  RpcInv'
<1>1. js' = [js EXCEPT ![o] = WithEnd(js[o], status)] /\ engine' = engine
  BY DEF FinishedSlot, WithEnd, RpcInv
<1>2. op'[o] = "Finished" /\ \A p \in JsOps \ {o} : op'[p] = op[p]
  BY JsAssumption DEF ClientInv, ListInv
<1>3. PICK r, s : r = js[o] /\ s = op[o]
  OBVIOUS
<1>4. RpcOK(r, s, engine) /\ r \in RpcRecords /\ s \in {"Tracked", "Refused", "Untracked"}
  BY <1>3 DEF RpcInv, InSet
<1>5. r.status = "None" /\ HeardOf(r)
  BY <1>4 DEF RpcOK
<1>6. PICK q : q = WithEnd(r, status)
  OBVIOUS
<1>7. q \in RpcRecords /\ HeardOf(q)
  BY <1>4, <1>5, <1>6, EndHeard
<1>8. q.sender = r.sender /\ q.owned = r.owned /\ q.status = status
  BY <1>4, <1>6, RecordUpdated DEF WithEnd
<1>9. RpcOK(q, "Finished", engine)
  BY <1>4, <1>7, <1>8 DEF RpcOK
<1> QED BY <1>1, <1>2, <1>3, <1>6, <1>9, OneRpc

\* An RPC that is deleted inside a slot takes its callbacks with it.
LEMMA SlotDeletedKeeps ==
    ASSUME ClientInv, RpcInv, NEW o \in JsOps, SlotDeleted(o), engine' = engine,
           op[o] = "Finished" \/ engine # "Alive"
    PROVE  RpcInv'
<1>1. PICK r, s : r = js[o] /\ s = op[o]
  OBVIOUS
<1>2. RpcOK(r, s, engine) /\ r \in RpcRecords
  BY <1>1 DEF RpcInv
<1>3. PICK sender : sender = ForgetStream(r.sender)
  OBVIOUS
<1>4. r.sender \in [object : BOOLEAN, stream : BOOLEAN, late : BOOLEAN] /\ ~r.sender.late
  BY <1>2 DEF RpcOK, RpcRecords
<1>5. /\ sender \in [object : BOOLEAN, stream : BOOLEAN, late : BOOLEAN]
      /\ ~sender.late /\ sender.stream = FALSE
  BY <1>3, <1>4 DEF ForgetStream
<1>6. RpcOK([r EXCEPT !.owned = FALSE, !.sender = sender], "Destroyed", engine)
  BY <1>1, <1>2, <1>5, SenderUpdated
<1>7. js' = [js EXCEPT ![o] = [r EXCEPT !.owned = FALSE, !.sender = sender]]
  BY <1>1, <1>3 DEF SlotDeleted, RpcInv
<1>8. op'[o] = "Destroyed" /\ \A p \in JsOps \ {o} : op'[p] = op[p]
  BY JsAssumption DEF SlotDeleted, ClientInv, ListInv
<1> QED BY <1>6, <1>7, <1>8, OneRpc

\* A sender that is replaced.
LEMMA SenderReplaced ==
    ASSUME NEW r, NEW s, NEW e, RpcOK(r, s, e),
           NEW sender \in [object : BOOLEAN, stream : BOOLEAN, late : BOOLEAN],
           ~sender.late, sender.stream => r.sender.stream
    PROVE  RpcOK([r EXCEPT !.sender = sender], s, e)
<1>1. r \in RpcRecords /\ r.owned \in BOOLEAN
  BY DEF RpcOK, RpcRecords
<1>2. [r EXCEPT !.sender = sender]
        = [kind |-> r.kind, callable |-> r.callable, owned |-> r.owned, sender |-> sender,
           came |-> r.came, status |-> r.status, heard |-> r.heard]
  BY <1>1 DEF RpcRecords
<1>3. [r EXCEPT !.sender = sender] = [r EXCEPT !.owned = r.owned, !.sender = sender]
  BY <1>1, <1>2, OwnerUpdated
<1>4. /\ sender.stream => s # "Destroyed"
      /\ r.owned <=> s \notin {"Unused", "Destroyed"}
  BY DEF RpcOK
<1>5. RpcOK([r EXCEPT !.owned = r.owned, !.sender = sender], s, e)
  BY <1>1, <1>4, SenderUpdated
<1> QED BY <1>3, <1>5

\* The script writes to a sender, or lets it go.
LEMMA SenderKeeps ==
    ASSUME RpcInv, NEW o \in JsOps, SenderWrites(o) \/ SenderCollected(o)
    PROVE  RpcInv'
<1>1. PICK r, s : r = js[o] /\ s = op[o]
  OBVIOUS
<1>2. RpcOK(r, s, engine) /\ r \in RpcRecords /\ js \in [JsOps -> RpcRecords]
  BY <1>1 DEF RpcInv
<1>3. r.sender \in [object : BOOLEAN, stream : BOOLEAN, late : BOOLEAN] /\ ~r.sender.late
  BY <1>2 DEF RpcOK, RpcRecords
<1>4. op' = op /\ engine' = engine
  BY DEF SenderWrites, SenderCollected, vars
<1>5. ASSUME NEW sender \in [object : BOOLEAN, stream : BOOLEAN, late : BOOLEAN],
             ~sender.late, sender.stream => r.sender.stream, js' = [js EXCEPT ![o].sender = sender]
      PROVE  RpcInv'
  <2>1. js' = [js EXCEPT ![o] = [r EXCEPT !.sender = sender]]
    BY <1>1, <1>2, <1>5
  <2>2. RpcOK([r EXCEPT !.sender = sender], s, engine)
    BY <1>2, <1>5, SenderReplaced
  <2>3. op'[o] = s /\ \A p \in JsOps \ {o} : op'[p] = op[p]
    BY <1>1, <1>4
  <2> QED BY <1>4, <2>1, <2>2, <2>3, OneRpc
<1>6. CASE SenderCollected(o)
  <2>1. NoSender \in [object : BOOLEAN, stream : BOOLEAN, late : BOOLEAN]
    BY DEF NoSender
  <2>2. ~NoSender.late /\ ~NoSender.stream
    BY DEF NoSender
  <2>3. js' = [js EXCEPT ![o].sender = NoSender]
    BY <1>6 DEF SenderCollected
  <2> QED BY <1>5, <2>1, <2>2, <2>3
<1>7. CASE SenderWrites(o)
  <2>1. r.sender.stream /\ s # "Destroyed" /\ s # "Finished"
    BY <1>1, <1>2, <1>7 DEF SenderWrites, isValidStream, RpcOK
  <2>2. PICK sender : sender = [r.sender EXCEPT !.late = r.sender.late \/ s \in {"Finished", "Destroyed"}]
    OBVIOUS
  <2>3. /\ sender \in [object : BOOLEAN, stream : BOOLEAN, late : BOOLEAN] /\ ~sender.late
        /\ sender.stream = r.sender.stream
    BY <1>3, <2>1, <2>2
  <2>4. js' = [js EXCEPT ![o].sender = sender]
    BY <1>1, <1>2, <1>7, <2>2 DEF SenderWrites
  <2> QED BY <1>5, <2>3, <2>4
<1> QED BY <1>6, <1>7

\* The engine takes the senders along.
LEMMA EngineKeeps ==
    ASSUME RpcInv, EngineGone \/ EngineDestroyed
    PROVE  RpcInv'
<1>1. ASSUME NEW r, NEW s, NEW e, NEW f, RpcOK(r, s, e), f # "Alive"
      PROVE  RpcOK(r, s, f)
  BY <1>1 DEF RpcOK
<1>2. op' = op /\ engine' # "Alive"
  BY DEF EngineGone, EngineDestroyed, vars
<1>3. CASE EngineDestroyed
  <2>1. js' = js
    BY <1>3 DEF EngineDestroyed
  <2> QED BY <1>1, <1>2, <2>1 DEF RpcInv
<1>4. CASE EngineGone
  <2>1. js' = [o \in JsOps |-> [js[o] EXCEPT !.sender.object = FALSE]]
    BY <1>4 DEF EngineGone
  <2>2. ASSUME NEW o \in JsOps
        PROVE  RpcOK(js'[o], op'[o], engine') /\ js'[o] \in RpcRecords
    <3>1. PICK r, s : r = js[o] /\ s = op[o]
      OBVIOUS
    <3>2. RpcOK(r, s, engine)
      BY <3>1 DEF RpcInv
    <3>3. r.sender \in [object : BOOLEAN, stream : BOOLEAN, late : BOOLEAN] /\ ~r.sender.late
      BY <3>2 DEF RpcOK, RpcRecords
    <3>4. PICK sender : sender = [r.sender EXCEPT !.object = FALSE]
      OBVIOUS
    <3>5. /\ sender \in [object : BOOLEAN, stream : BOOLEAN, late : BOOLEAN] /\ ~sender.late
          /\ sender.stream = r.sender.stream
      BY <3>3, <3>4
    <3>6. js'[o] = [r EXCEPT !.sender = sender]
      BY <2>1, <3>1, <3>4
    <3>7. RpcOK(js'[o], s, engine)
      BY <3>2, <3>5, <3>6, SenderReplaced
    <3>8. RpcOK(js'[o], op'[o], engine')
      BY <1>1, <1>2, <3>1, <3>7
    <3> QED BY <3>8 DEF RpcOK
  <2> QED BY <2>1, <2>2 DEF RpcInv
<1> QED BY <1>3, <1>4

\* Every step keeps what holds of the script's RPCs.
LEMMA StepRpcs == ASSUME ClientInv, RpcInv, [QmlNext]_qmlVars PROVE RpcInv'
<1>1. ASSUME NEW o \in JsOps, JsFinishes(o) PROVE RpcInv'
  <2>1. op[o] \in InSet \cup {"Untracked"} /\ op' = [op EXCEPT ![o] = "Finished"]
    BY <1>1 DEF JsFinishes, OpFinishes
  <2>2. PICK status \in {"Ok", "Failed"} : FinishedSlot(o, status)
    BY <1>1 DEF JsFinishes
  <2> QED BY <2>1, <2>2, FinishedSlotKeeps
<1>2. ASSUME NEW o \in JsOps, ConnectionDeleted(o) PROVE RpcInv'
  BY <1>2, SlotDeletedKeeps DEF ConnectionDeleted
<1>3. CASE SlotReturns
  <2>1. slots[Len(slots)] \in JsOps /\ op[slots[Len(slots)]] = "Finished"
    BY <1>3 DEF SlotReturns, ClientInv, SlotInv
  <2> QED BY <1>3, <2>1, SlotDeletedKeeps DEF SlotReturns
<1>4. ASSUME UNCHANGED <<js, engine>>, \A p \in JsOps : op'[p] = op[p] PROVE RpcInv'
  BY <1>4 DEF RpcInv
<1>5. ASSUME NEW o \in Ops \ JsOps, ProgramStep(o) PROVE RpcInv'
  <2>1. UNCHANGED <<js, engine>> /\ \E s : op' = [op EXCEPT ![o] = s]
    BY <1>5 DEF ProgramStep, jsVars, Start, OpFinishes, Destroy
  <2>2. \A p \in JsOps : op'[p] = op[p]
    BY <2>1, JsAssumption DEF ClientInv, ListInv
  <2> QED BY <1>4, <2>1, <2>2
<1>6. CASE QmlCancelNext
  <2>1. PICK o \in Ops : o = memory[loop.it]
    BY <1>6, NextIsOp DEF QmlCancelNext, ClientInv
  <2>2. CASE op[o] = "Tracked" /\ o \in JsOps
    <3>1. op' = [op EXCEPT ![o] = "Finished"] /\ FinishedSlot(o, "Failed")
      BY <1>6, <2>1, <2>2 DEF QmlCancelNext, CancelNext
    <3> QED BY <2>2, <3>1, FinishedSlotKeeps DEF InSet
  <2>3. CASE op[o] # "Tracked" \/ o \notin JsOps
    <3>1. /\ UNCHANGED <<js, engine>>
          /\ UNCHANGED op \/ (o \notin JsOps /\ op' = [op EXCEPT ![o] = "Finished"])
      BY <1>6, <2>1, <2>3 DEF QmlCancelNext, CancelNext, jsVars
    <3>2. \A p \in JsOps : op'[p] = op[p]
      BY <3>1, JsAssumption DEF ClientInv, ListInv
    <3> QED BY <1>4, <3>1, <3>2
  <2> QED BY <2>2, <2>3
<1>7. CASE (\E ch \in Channels : QmlAttachChannel(ch)) \/ QmlChannelChanged \/ UNCHANGED qmlVars
  <2>1. UNCHANGED <<js, engine, op>>
    BY <1>7 DEF QmlAttachChannel, QmlChannelChanged, AttachChannel, ChannelChanged, qmlVars, vars, jsVars
  <2> QED BY <1>4, <2>1
<1> QED BY <1>1, <1>2, <1>3, <1>5, <1>6, <1>7, JsStartKeeps, JsMessageKeeps, SenderKeeps, EngineKeeps
        DEF QmlNext

\* RpcInv holds in every reachable state, for any number of RPCs.
LEMMA RpcInvariant == QmlSpec => []RpcInv
<1>1. QmlInit => RpcInv
  <2> SUFFICES ASSUME QmlInit PROVE RpcInv
    OBVIOUS
  <2>1. Unknown \in RpcRecords
    <3>1. NoSender \in [object : BOOLEAN, stream : BOOLEAN, late : BOOLEAN]
      BY DEF NoSender
    <3>2. <<>> \in Seq(BOOLEAN) /\ <<>> \in Seq(Said)
      OBVIOUS
    <3> QED BY <3>1, <3>2 DEF Unknown, RpcRecords
  <2>2. HeardOf(Unknown)
    BY DEF HeardOf, Unknown, AllCallbacks
  <2>3. ~Unknown.sender.stream /\ ~Unknown.sender.late /\ ~Unknown.owned /\ Unknown.status = "None"
    BY DEF Unknown, NoSender
  <2>4. RpcOK(Unknown, "Unused", engine)
    BY <2>1, <2>2, <2>3 DEF RpcOK
  <2> QED BY <2>1, <2>4, JsAssumption DEF QmlInit, Init, RpcInv
<1>2. ClientInv /\ RpcInv /\ [QmlNext]_qmlVars => RpcInv'
  BY StepRpcs
<1> QED BY <1>1, <1>2, ClientInvariant, PTL DEF QmlSpec

\* No message written to the sender of a stream reaches an RPC that is gone or has
\* finished, and the RPC lives as long as its slot: for any number of RPCs, in whichever order the slots,
\* the loop of attachChannel(), the script and its engine end them.
THEOREM SenderSafe == QmlSpec => []SenderKnowsEnd
<1>1. RpcInv => SenderKnowsEnd
  BY DEF RpcInv, RpcOK, SenderKnowsEnd
<1> QED BY <1>1, RpcInvariant, PTL

\* A script with all callbacks is told of every message of a stream in order and
\* once, last, of the end, for any number of RPCs and messages.
THEOREM EndIsHeard == QmlSpec => []HeardToTheEnd
<1>1. RpcInv => HeardToTheEnd
  <2> SUFFICES ASSUME RpcInv, NEW o \in JsOps, NEW r, r = js[o], Cardinality(r.callable) = 3
               PROVE  LET told == IF r.kind \in Streams THEN Len(r.came) ELSE 0
                          ends == IF r.status = "None" THEN 0 ELSE 1
                      IN  /\ Len(r.heard) = told + ends
                          /\ \A i \in 1..told : r.heard[i] = IF r.came[i] THEN "message" ELSE "unreadable"
                          /\ r.status = "Failed" => r.heard[told + 1] = "status"
                          /\ r.status = "Ok" =>
                                r.heard[told + 1] = IF r.kind \in Streams THEN "finish"
                                                    ELSE IF ReadableLast(r.came) THEN "message"
                                                         ELSE "unreadable"
                          /\ op[o] \in {"Finished", "Destroyed"} => ends = 1 \/ engine # "Alive"
    BY DEF HeardToTheEnd
  <2>1. RpcOK(r, op[o], engine)
    BY DEF RpcInv
  <2>2. r \in RpcRecords /\ HeardOf(r)
    BY <2>1 DEF RpcOK
  <2>3. r.callable = AllCallbacks
    BY <2>2, ThreeCallbacks DEF RpcRecords
  <2>4. op[o] \in {"Finished", "Destroyed"} => r.status # "None" \/ engine # "Alive"
    BY <2>1 DEF RpcOK
  <2> QED BY <2>2, <2>3, <2>4 DEF HeardOf, Told, SaidOf
<1> QED BY <1>1, RpcInvariant, PTL
=============================================================================
