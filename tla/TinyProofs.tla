----------------------------- MODULE TinyProofs ------------------------------
(***************************************************************************)
(* Three parts of the Tiny library.  The timer: its interval stays between *)
(* a half and a whole of what was asked for, and each STOP is read once,   *)
(* for every interval, clock and listener.  The condition variable: nobody *)
(* returns from Wait without a notification, however many wait.  The list: *)
(* whatever its users do, the links are those of a chain of allocated      *)
(* nodes, and what they do to it is what DataList says of the sequence.    *)
(***************************************************************************)
EXTENDS TinyTimer, TinyCondition, TinyList,
        FiniteSetTheorems, SequenceTheorems, WellFoundedInduction, TLAPS

-----------------------------------------------------------------------------
(* The condition variable.                                                 *)

WaiterKinds ==
  /\ isReady \in BOOLEAN
  /\ waiter \in [Waiters -> {"out", "asleep", "woken"}]
  /\ notified \in [Waiters -> BOOLEAN]

\* While the flag is set, whoever waits was there when it was set last: a Wait
\* that begins later clears it.
ReadyForAll == isReady => \A w \in Waiters : waiter[w] # "out" => notified[w]

ConditionInv == WaiterKinds /\ ReadyForAll

LEMMA ConditionStarts == ConditionInit => ConditionInv
BY DEF ConditionInit, ConditionInv, WaiterKinds, ReadyForAll, None

LEMMA WakeStep ==
  ASSUME ConditionInv, NEW ws, ws \subseteq Waiters, \A w \in ws : waiter[w] # "out",
         isReady' = TRUE, Wake(ws)
  PROVE  ConditionInv' /\ \A w \in Waiters : waiter[w] # "out" => waiter'[w] # "out"
BY DEF ConditionInv, WaiterKinds, ReadyForAll, Wake

\* A step keeps the invariant, and lets nobody out who was not notified.
LEMMA ConditionStep ==
  ASSUME ConditionInv, [ConditionNext]_conditionVars
  PROVE  /\ ConditionInv'
         /\ \A w \in Waiters : waiter[w] # "out" /\ waiter'[w] = "out" => notified[w]
<1>1. ASSUME NEW w \in Waiters, Wait(w)
      PROVE  /\ ConditionInv'
             /\ \A v \in Waiters : waiter[v] # "out" => waiter'[v] # "out"
  BY <1>1 DEF Wait, ConditionInv, WaiterKinds, ReadyForAll
<1>2. ASSUME NEW w \in Waiters, Recheck(w)
      PROVE  /\ ConditionInv'
             /\ \A v \in Waiters : waiter[v] # "out" /\ waiter'[v] = "out" => notified[v]
  <2>1. /\ isReady' = isReady /\ notified' = notified /\ waiter[w] = "woken"
        /\ waiter' = [waiter EXCEPT ![w] = IF isReady THEN "out" ELSE "asleep"]
    BY <1>2 DEF Recheck
  <2>2. WaiterKinds'
    BY <2>1 DEF ConditionInv, WaiterKinds
  <2>3. ReadyForAll'
    BY <2>1 DEF ConditionInv, WaiterKinds, ReadyForAll
  <2>4. ASSUME NEW v \in Waiters, waiter[v] # "out", waiter'[v] = "out" PROVE notified[v]
    <3>1. isReady
      BY <2>1, <2>4 DEF ConditionInv, WaiterKinds
    <3> QED BY <2>4, <3>1 DEF ConditionInv, ReadyForAll
  <2> QED BY <2>2, <2>3, <2>4 DEF ConditionInv
<1>3. ASSUME NEW w \in Waiters, Spurious(w)
      PROVE  /\ ConditionInv'
             /\ \A v \in Waiters : waiter[v] # "out" => waiter'[v] # "out"
  BY <1>3 DEF Spurious, ConditionInv, WaiterKinds, ReadyForAll
<1>4. CASE NotifyOne
  <2>1. PICK ws \in SUBSET Asleep : isReady' = TRUE /\ Wake(ws)
    BY <1>4 DEF NotifyOne
  <2>2. ws \subseteq Waiters /\ \A w \in ws : waiter[w] # "out"
    BY DEF Asleep
  <2> QED BY <2>1, <2>2, WakeStep
<1>5. CASE NotifyAll
  <2>1. isReady' = TRUE /\ Wake(Asleep)
    BY <1>5 DEF NotifyAll
  <2>2. Asleep \subseteq Waiters /\ \A w \in Asleep : waiter[w] # "out"
    BY DEF Asleep
  <2> QED BY <2>1, <2>2, WakeStep
<1>6. CASE UNCHANGED conditionVars
  BY <1>6 DEF conditionVars, condition, ConditionInv, WaiterKinds, ReadyForAll
<1> QED BY <1>1, <1>2, <1>3, <1>4, <1>5, <1>6 DEF ConditionNext

\* Nobody returns from TinyCondition_Wait but by a notification that came after
\* it was called, however many threads wait and notify (TinyCondition.c:115-220).
THEOREM OnlyTheNotifiedReturn == ConditionSpec => OnlyNotifiedReturn
<1>1. ConditionInv /\ [ConditionNext]_conditionVars => ConditionInv'
  BY ConditionStep
<1>2. ConditionInv /\ [ConditionNext]_conditionVars =>
        [\A w \in Waiters :
           waiter[w] # "out" /\ waiter'[w] = "out" => notified[w]]_conditionVars
  BY ConditionStep
<1> QED BY <1>1, <1>2, ConditionStarts, PTL DEF ConditionSpec, OnlyNotifiedReturn

-----------------------------------------------------------------------------
(* The list.                                                               *)

USE MemoryIsFinite

\* Induction, without an operator for the formula: a set of numbers has a least.
LEMMA SmallestOf ==
  ASSUME NEW T, T \subseteq Nat, T # {}
  PROVE  \E n \in T : \A m \in T : n <= m
<1> DEFINE R == OpToRel(<, Nat)
<1>1. IsWellFoundedOn(R, Nat)
  BY NatLessThanWellFounded
<1>2. ASSUME NEW x \in Nat, NEW y \in Nat, x < y PROVE <<x, y>> \in R
  BY <1>2 DEF OpToRel
<1> HIDE DEF R
<1>3. \E x \in T : \A y \in T : ~ (<<y, x>> \in R)
  BY <1>1, WFMin
<1>4. PICK n \in T : \A y \in T : ~ (<<y, n>> \in R)
  BY <1>3, Zenon
<1>5. ASSUME NEW m \in T PROVE n <= m
  <2>1. n \in Nat /\ m \in Nat
    OBVIOUS
  <2>2. ~(<<m, n>> \in R)
    BY <1>4, Zenon
  <2>3. ~(m < n)
    BY <1>2, <2>1, <2>2, Zenon
  <2> QED BY <2>1, <2>3
<1> QED BY <1>5, Zenon

\* What holds of 0, and of n + 1 with n, holds of every number: the set of the
\* numbers it holds of is closed.
LEMMA Induction ==
  ASSUME NEW T, 0 \in T, \A n \in Nat : n \in T => n + 1 \in T
  PROVE  \A n \in Nat : n \in T
<1> DEFINE U == Nat \ T
<1> SUFFICES ASSUME U # {} PROVE FALSE
  OBVIOUS
<1>1. PICK n \in U : \A m \in U : n <= m
  BY SmallestOf
<1>2. n \in Nat /\ n \notin T /\ n # 0
  OBVIOUS
<1>3. n - 1 \in Nat /\ (n - 1) + 1 = n
  BY <1>2
<1>4. n - 1 \in T
  BY <1>1, <1>3
<1> QED BY <1>2, <1>3, <1>4

-----------------------------------------------------------------------------
(* The walk.                                                               *)

\* The step of the walk, and of a walk that is at its end.
Follow(n) == IF n = Null THEN Null ELSE next[n]

Linkable == Nodes \cup {Null}

Bound == Cardinality(Nodes)

LEMMA BoundNat == Bound \in Nat
BY FS_CardinalityType DEF Bound

\* From a node one can walk as far as one likes.
LEMMA WalkExists ==
  ASSUME ListTypeOK
  PROVE  \A n \in Nat : \E w \in [0..n -> Linkable] :
           w[0] = first /\ \A i \in 1..n : w[i] = Follow(w[i - 1])
<1> DEFINE IsWalk(w, n) == w[0] = first /\ \A i \in 1..n : w[i] = Follow(w[i - 1])
           T == {n \in Nat : \E w \in [0..n -> Linkable] : IsWalk(w, n)}
<1>1. 0 \in T
  <2> DEFINE w == [i \in 0..0 |-> first]
  <2>1. w \in [0..0 -> Linkable] /\ IsWalk(w, 0)
    BY DEF ListTypeOK, Linkable
  <2> QED BY <2>1
<1>2. ASSUME NEW n \in Nat, n \in T PROVE n + 1 \in T
  <2>1. PICK w \in [0..n -> Linkable] : IsWalk(w, n)
    BY <1>2
  <2> DEFINE x == Follow(w[n])
             v == [i \in 0..n + 1 |-> IF i = n + 1 THEN x ELSE w[i]]
  <2>2. x \in Linkable
    <3>1. w[n] \in Linkable
      OBVIOUS
    <3> QED BY <3>1 DEF Follow, ListTypeOK, Linkable
  <2>3. v \in [0..n + 1 -> Linkable]
    <3> HIDE DEF x
    <3> QED BY <2>2
  <2>4. v[0] = w[0]
    OBVIOUS
  <2>5. ASSUME NEW i \in 1..n + 1 PROVE v[i] = Follow(v[i - 1])
    <3>1. v[i - 1] = w[i - 1]
      OBVIOUS
    <3>2. CASE i = n + 1
      BY <3>1, <3>2
    <3>3. CASE i \in 1..n
      <4>1. v[i] = w[i]
        BY <3>3
      <4> QED BY <2>1, <3>1, <3>3, <4>1
    <3> QED BY <3>2, <3>3
  <2>6. IsWalk(v, n + 1)
    BY <2>1, <2>4, <2>5
  <2>7. n + 1 \in Nat
    OBVIOUS
  <2> HIDE DEF v, IsWalk
  <2> QED BY <2>3, <2>6, <2>7
<1> HIDE DEF T
<1>3. \A n \in Nat : n \in T
  BY <1>1, <1>2, Induction
<1> QED BY <1>3 DEF T

\* NodeAt is that walk.
LEMMA NodeAtIs ==
  ASSUME ListTypeOK
  PROVE  NodeAt = [i \in 0..Bound |-> IF i = 0 THEN first ELSE Follow(NodeAt[i - 1])]
<1> DEFINE Value(w, i) == IF i = 0 THEN first
                          ELSE IF w[i - 1] = Null THEN Null ELSE next[w[i - 1]]
<1>1. \E w : w = [i \in Steps |-> Value(w, i)]
  <2>1. PICK w \in [0..Bound -> Linkable] :
          w[0] = first /\ \A i \in 1..Bound : w[i] = Follow(w[i - 1])
    BY WalkExists, BoundNat
  <2>2. \A i \in 0..Bound : w[i] = Value(w, i)
    BY <2>1, BoundNat DEF Follow
  <2>3. w = [i \in 0..Bound |-> Value(w, i)]
    BY <2>2
  <2> QED BY <2>3 DEF Steps, Bound
<1>2. NodeAt = CHOOSE w : w = [i \in Steps |-> Value(w, i)]
  BY DEF NodeAt
<1>3. NodeAt = [i \in Steps |-> Value(NodeAt, i)]
  BY <1>1, <1>2, Zenon
<1> QED BY <1>3 DEF Steps, Bound, Follow

-----------------------------------------------------------------------------
(* The list as the chain of its nodes: c[0], c[1], ... c[k - 1], Null.     *)

Chain(c, k, f, nx, pv, us) ==
  /\ c \in [0..k -> Linkable] /\ c[0] = f /\ c[k] = Null
  /\ \A i \in 0..k - 1 : /\ c[i] \in us
                         /\ nx[c[i]] = c[i + 1]
                         /\ pv[c[i]] = IF i = 0 THEN Null ELSE c[i - 1]
  /\ \A i, j \in 0..k - 1 : c[i] = c[j] => i = j

LEMMA IndexSet ==
  ASSUME NEW k \in Nat
  PROVE  IsFiniteSet(0..k - 1) /\ Cardinality(0..k - 1) = k
<1> DEFINE b == k - 1
<1>1. b \in Int
  OBVIOUS
<1>2. IsFiniteSet(0..b) /\ Cardinality(0..b) = IF 0 > b THEN 0 ELSE b - 0 + 1
  <2> HIDE DEF b
  <2> QED BY <1>1, FS_Interval
<1> QED BY <1>2

\* The nodes of a chain are different ones: there are no more than there is
\* memory.
LEMMA ChainIsShort ==
  ASSUME NEW k \in Nat, NEW c, NEW f, NEW nx, NEW pv, NEW us, us \subseteq Nodes,
         Chain(c, k, f, nx, pv, us)
  PROVE  k <= Bound
<1> DEFINE g == [i \in 0..k - 1 |-> c[i]]
<1>1. g \in [0..k - 1 -> Nodes]
  BY DEF Chain
<1>2. IsFiniteSet(0..k - 1) /\ Cardinality(0..k - 1) = k
  BY IndexSet
<1>3. SUFFICES ASSUME ~(k <= Bound) PROVE FALSE
  OBVIOUS
<1>4. Cardinality(Nodes) < Cardinality(0..k - 1)
  BY <1>2, <1>3, BoundNat DEF Bound
<1>5. PICK i \in 0..k - 1, j \in 0..k - 1 : i # j /\ g[i] = g[j]
  <2> HIDE DEF g
  <2> QED BY <1>1, <1>2, <1>4, FS_PigeonHole
<1> QED BY <1>5 DEF Chain

\* What the code reads when it walks along a chain.
ReadsOff(c, k) ==
  /\ k <= Bound
  /\ \A i \in 0..k : NodeAt[i] = c[i]
  /\ \A i \in k..Bound : NodeAt[i] = Null
  /\ Length = k
  /\ Content = [i \in 1..k |-> data[c[i - 1]]]
  /\ InList = {c[i] : i \in 0..k - 1}

LEMMA ReadOff ==
  ASSUME ListTypeOK, NEW k \in Nat, NEW c, Chain(c, k, first, next, prev, used)
  PROVE  ReadsOff(c, k)
<1>1. used \subseteq Nodes /\ k <= Bound /\ Bound \in Nat
  BY ChainIsShort, BoundNat DEF ListTypeOK
<1>2. /\ c[0] = first /\ c[k] = Null
      /\ \A i \in 0..k - 1 : c[i] \in Nodes /\ c[i] # Null /\ Follow(c[i]) = c[i + 1]
  BY <1>1 DEF Chain, Follow
<1>3. /\ NodeAt[0] = first
      /\ \A i \in 1..Bound : NodeAt[i] = Follow(NodeAt[i - 1])
  BY NodeAtIs, <1>1
<1>4. \A i \in 0..k : NodeAt[i] = c[i]
  <2> DEFINE T == {n \in Nat : n <= k => NodeAt[n] = c[n]}
  <2>1. 0 \in T
    BY <1>2, <1>3
  <2>2. ASSUME NEW n \in Nat, n \in T PROVE n + 1 \in T
    <3> SUFFICES ASSUME n + 1 <= k PROVE NodeAt[n + 1] = c[n + 1]
      OBVIOUS
    <3>1. NodeAt[n] = c[n] /\ n \in 0..k - 1 /\ n + 1 \in 1..Bound /\ (n + 1) - 1 = n
      BY <2>2, <1>1
    <3>2. NodeAt[n + 1] = Follow(NodeAt[n])
      BY <1>3, <3>1
    <3> QED BY <1>2, <3>1, <3>2
  <2>3. \A n \in Nat : n \in T
    <3> HIDE DEF T
    <3> QED BY <2>1, <2>2, Induction
  <2> QED BY <2>3
<1>5. \A i \in k..Bound : NodeAt[i] = Null
  <2> DEFINE T == {n \in Nat : k + n <= Bound => NodeAt[k + n] = Null}
  <2>1. 0 \in T
    BY <1>2, <1>4
  <2>2. ASSUME NEW n \in Nat, n \in T PROVE n + 1 \in T
    <3> SUFFICES ASSUME k + (n + 1) <= Bound PROVE NodeAt[k + (n + 1)] = Null
      OBVIOUS
    <3>1. NodeAt[k + n] = Null /\ k + (n + 1) \in 1..Bound /\ (k + (n + 1)) - 1 = k + n
      BY <2>2, <1>1
    <3>2. NodeAt[k + (n + 1)] = Follow(NodeAt[k + n])
      BY <1>3, <3>1
    <3> QED BY <3>1, <3>2 DEF Follow
  <2>3. \A n \in Nat : n \in T
    <3> HIDE DEF T
    <3> QED BY <2>1, <2>2, Induction
  <2>4. ASSUME NEW i \in k..Bound PROVE NodeAt[i] = Null
    <3>1. i - k \in Nat /\ k + (i - k) = i /\ i <= Bound
      BY <1>1
    <3> QED BY <2>3, <3>1
  <2> QED BY <2>4
<1>6. {i \in Steps : NodeAt[i] # Null} = 0..k - 1
  BY <1>1, <1>2, <1>4, <1>5 DEF Steps, Bound
<1>7. Length = k
  <2>1. Cardinality(0..k - 1) = k
    BY IndexSet
  <2> QED BY <1>6, <2>1 DEF Length
<1>8. Content = [i \in 1..k |-> data[c[i - 1]]]
  <2>1. \A i \in 1..k : NodeAt[i - 1] = c[i - 1]
    BY <1>4
  <2> QED BY <1>7, <2>1 DEF Content
<1>9. InList = {c[i] : i \in 0..k - 1}
  BY <1>1, <1>2, <1>4, <1>5 DEF InList, Steps, Bound
<1> QED BY <1>1, <1>4, <1>5, <1>7, <1>8, <1>9 DEF ReadsOff

\* The nodes of a chain, and its end, are different ones.
Distinct(c, k, f, us) ==
  /\ Null \notin us
  /\ \A i \in 0..k - 1 : c[i] \in us /\ c[i] # Null /\ c[i] \in Linkable
  /\ \A i \in 0..k : c[i] \in Linkable
  /\ \A i \in 0..k - 1 : \A j \in 0..k : i # j => c[i] # c[j]
  /\ c[k] = Null /\ c[0] = f

LEMMA ChainNodes ==
  ASSUME NEW k \in Nat, NEW c, NEW f, NEW nx, NEW pv, NEW us, us \subseteq Nodes,
         Chain(c, k, f, nx, pv, us)
  PROVE  Distinct(c, k, f, us)
<1>1. c[k] = Null /\ c[0] = f /\ Null \notin us /\ \A i \in 0..k - 1 : c[i] \in us
  BY DEF Chain
<1>2. \A i \in 0..k - 1 : c[i] # Null /\ c[i] \in Linkable
  BY <1>1 DEF Linkable
<1>3. ASSUME NEW i \in 0..k PROVE i = k \/ i \in 0..k - 1
  OBVIOUS
<1>4. \A i \in 0..k : c[i] \in Linkable
  BY <1>1, <1>2, <1>3 DEF Linkable
<1>5. ASSUME NEW i \in 0..k - 1, NEW j \in 0..k, i # j PROVE c[i] # c[j]
  <2>1. CASE j = k
    BY <1>1, <1>2, <2>1
  <2>2. CASE j \in 0..k - 1
    BY <1>5, <2>2 DEF Chain
  <2> QED BY <1>3, <2>1, <2>2
<1> QED BY <1>1, <1>2, <1>4, <1>5 DEF Distinct

\* A chain with x at the position p, and one without the node at the position p.
Inserted(c, k, p, x) ==
  [i \in 0..k + 1 |-> IF i < p THEN c[i] ELSE IF i = p THEN x ELSE c[i - 1]]

Removed(c, k, p) == [i \in 0..k - 1 |-> IF i < p THEN c[i] ELSE c[i + 1]]

Before(c, p) == IF p = 0 THEN Null ELSE c[p - 1]

LEMMA InsertedIsChain ==
  ASSUME NEW k \in Nat, NEW c, NEW f, NEW nx, NEW pv, NEW us, us \subseteq Nodes,
         Chain(c, k, f, nx, pv, us),
         NEW p \in 0..k, NEW x \in Nodes, x \notin us,
         NEW g, g = (IF p = 0 THEN x ELSE f),
         NEW ny, \A n \in us : ny[n] = IF n = Before(c, p) THEN x ELSE nx[n],
         ny[x] = c[p],
         NEW pw, \A n \in us : pw[n] = IF n = c[p] THEN x ELSE pv[n],
         pw[x] = Before(c, p)
  PROVE  Chain(Inserted(c, k, p, x), k + 1, g, ny, pw, us \cup {x})
<1> DEFINE e == Inserted(c, k, p, x)
<1>0. Distinct(c, k, f, us)
  BY ChainNodes
<1>1. /\ \A i \in 0..k - 1 : c[i] \in us /\ c[i] # Null /\ c[i] # x
      /\ \A i \in 0..k : c[i] \in Linkable
      /\ \A i \in 0..k - 1 : \A j \in 0..k : i # j => c[i] # c[j]
      /\ c[k] = Null /\ c[0] = f
  BY <1>0 DEF Distinct
<1>2. /\ \A i \in 0..k + 1 : i < p => e[i] = c[i]
      /\ e[p] = x
      /\ \A i \in 0..k + 1 : i > p => e[i] = c[i - 1]
  BY DEF Inserted
<1>3. e \in [0..k + 1 -> Linkable]
  <2>1. \A i \in 0..k + 1 : (IF i < p THEN c[i] ELSE IF i = p THEN x ELSE c[i - 1]) \in Linkable
    <3> SUFFICES ASSUME NEW i \in 0..k + 1, i > p PROVE c[i - 1] \in Linkable
      BY <1>1 DEF Linkable
    <3>1. i - 1 \in 0..k
      OBVIOUS
    <3> QED BY <1>1, <3>1
  <2> QED BY <2>1 DEF Inserted
<1> HIDE DEF e
<1>4. e[0] = g /\ e[k + 1] = Null
  BY <1>1, <1>2
<1>5. \A i, j \in 0..k : e[i] = e[j] => i = j
  <2> SUFFICES ASSUME NEW i \in 0..k, NEW j \in 0..k, i < j, e[i] = e[j] PROVE FALSE
    OBVIOUS
  <2>1. CASE i < p /\ j < p
    <3>1. c[i] = c[j] /\ i \in 0..k - 1 /\ j \in 0..k - 1
      BY <1>2, <2>1
    <3> QED BY <3>1 DEF Chain
  <2>2. CASE i > p
    <3>1. c[i - 1] = c[j - 1] /\ i - 1 \in 0..k - 1 /\ j - 1 \in 0..k - 1
      BY <1>2, <2>2
    <3> QED BY <3>1 DEF Chain
  <2>3. CASE i < p /\ j > p
    <3>1. c[i] = c[j - 1] /\ i \in 0..k - 1 /\ j - 1 \in 0..k - 1 /\ i # j - 1
      BY <1>2, <2>3
    <3> QED BY <3>1 DEF Chain
  <2>4. CASE i = p
    <3>1. c[j - 1] = x /\ j - 1 \in 0..k - 1
      BY <1>2, <2>4
    <3> QED BY <1>1, <3>1
  <2>5. CASE j = p
    <3>1. c[i] = x /\ i \in 0..k - 1
      BY <1>2, <2>5
    <3> QED BY <1>1, <3>1
  <2> QED BY <2>1, <2>2, <2>3, <2>4, <2>5
<1>6. ASSUME NEW i \in 0..k
      PROVE  /\ e[i] \in us \cup {x}
             /\ ny[e[i]] = e[i + 1]
             /\ pw[e[i]] = IF i = 0 THEN Null ELSE e[i - 1]
  <2>1. CASE i < p
    <3>1. e[i] = c[i] /\ i \in 0..k - 1 /\ c[i] \in us
      BY <1>1, <1>2, <2>1
    <3>2. nx[c[i]] = c[i + 1] /\ pv[c[i]] = IF i = 0 THEN Null ELSE c[i - 1]
      BY <3>1 DEF Chain
    <3>3. c[i] # c[p]
      BY <1>1, <2>1, <3>1
    <3>4. pw[e[i]] = IF i = 0 THEN Null ELSE e[i - 1]
      <4>1. i # 0 => e[i - 1] = c[i - 1]
        BY <1>2, <2>1
      <4> QED BY <3>1, <3>2, <3>3, <4>1
    <3>5. CASE i = p - 1
      <4>1. Before(c, p) = c[i] /\ e[i + 1] = x
        BY <1>2, <2>1, <3>5 DEF Before
      <4> QED BY <3>1, <3>4, <4>1
    <3>6. CASE i # p - 1
      <4>1. p - 1 \in 0..k - 1 /\ i + 1 < p
        BY <2>1, <3>6
      <4>2. c[i] # c[p - 1]
        BY <3>1, <3>6, <4>1 DEF Chain
      <4>3. ny[c[i]] = c[i + 1]
        BY <3>1, <3>2, <4>1, <4>2 DEF Before
      <4>4. e[i + 1] = c[i + 1]
        BY <1>2, <4>1
      <4> QED BY <3>1, <3>4, <4>3, <4>4
    <3> QED BY <3>5, <3>6
  <2>2. CASE i = p
    BY <1>2, <2>2 DEF Before
  <2>3. CASE i > p
    <3>1. e[i] = c[i - 1] /\ i - 1 \in 0..k - 1 /\ c[i - 1] \in us /\ e[i + 1] = c[i]
      BY <1>1, <1>2, <2>3
    <3>2. nx[c[i - 1]] = c[i] /\ pv[c[i - 1]] = IF i = 1 THEN Null ELSE c[i - 2]
      BY <3>1 DEF Chain
    <3>3. c[i - 1] # Before(c, p)
      <4>1. CASE p = 0
        BY <1>1, <3>1, <4>1 DEF Before
      <4>2. CASE p # 0
        <5>1. p - 1 \in 0..k - 1 /\ p - 1 # i - 1
          BY <2>3, <4>2
        <5> QED BY <3>1, <4>2, <5>1 DEF Before, Chain
      <4> QED BY <4>1, <4>2
    <3>4. ny[e[i]] = e[i + 1]
      BY <3>1, <3>2, <3>3
    <3>5. CASE i = p + 1
      <4>1. e[i - 1] = x /\ e[i] = c[p]
        BY <1>2, <3>1, <3>5
      <4>2. pw[e[i]] = x
        BY <3>1, <4>1
      <4>3. i # 0
        BY <3>5
      <4> QED BY <3>1, <3>4, <4>1, <4>2, <4>3
    <3>6. CASE i # p + 1
      <4>1. c[i - 1] # c[p]
        <5>1. p \in 0..k - 1 /\ p # i - 1
          BY <2>3, <3>6
        <5> QED BY <3>1, <5>1 DEF Chain
      <4>2. e[i - 1] = c[i - 2] /\ i # 1 /\ i # 0
        BY <1>2, <2>3, <3>6
      <4> QED BY <3>1, <3>2, <3>4, <4>1, <4>2
    <3> QED BY <3>5, <3>6
  <2> QED BY <2>1, <2>2, <2>3
<1>7. (k + 1) - 1 = k
  OBVIOUS
<1>8. Chain(e, k + 1, g, ny, pw, us \cup {x})
  BY <1>3, <1>4, <1>5, <1>6, <1>7 DEF Chain
<1> QED BY <1>8 DEF e

\* The links that go past the node at the position p.
PastNode(c, p, g, f, ny, nx, pw, pv, us) ==
  /\ g = (IF p = 0 THEN c[1] ELSE f)
  /\ \A n \in us : n # c[p] =>
       /\ ny[n] = (IF n = Before(c, p) THEN c[p + 1] ELSE nx[n])
       /\ pw[n] = (IF n = c[p + 1] THEN Before(c, p) ELSE pv[n])

LEMMA RemovedIsChain ==
  ASSUME NEW k \in Nat, NEW c, NEW f, NEW nx, NEW pv, NEW us, us \subseteq Nodes,
         Chain(c, k, f, nx, pv, us),
         NEW p \in 0..k - 1,
         NEW g, NEW ny, NEW pw, PastNode(c, p, g, f, ny, nx, pw, pv, us),
         NEW e, e = Removed(c, k, p), NEW j, j = k - 1, NEW vs, vs = us \ {c[p]}
  PROVE  Chain(e, j, g, ny, pw, vs)
<1>0. Distinct(c, k, f, us)
  BY ChainNodes
<1>1. /\ \A i \in 0..k - 1 : c[i] \in us /\ c[i] # Null
      /\ \A i \in 0..k : c[i] \in Linkable
      /\ \A i \in 0..k - 1 : \A l \in 0..k : i # l => c[i] # c[l]
      /\ c[k] = Null /\ c[0] = f
  BY <1>0 DEF Distinct
<1>2. /\ \A i \in 0..k - 1 : i < p => e[i] = c[i]
      /\ \A i \in 0..k - 1 : i >= p => e[i] = c[i + 1]
  BY DEF Removed
<1>3. e \in [0..k - 1 -> Linkable]
  <2>1. \A i \in 0..k - 1 : (IF i < p THEN c[i] ELSE c[i + 1]) \in Linkable
    <3> SUFFICES ASSUME NEW i \in 0..k - 1 PROVE c[i] \in Linkable /\ c[i + 1] \in Linkable
      OBVIOUS
    <3>1. i + 1 \in 0..k
      OBVIOUS
    <3> QED BY <1>1, <3>1
  <2> QED BY <2>1 DEF Removed
<1>4. e[0] = g /\ e[k - 1] = Null
  BY <1>1, <1>2 DEF PastNode
<1>5. \A i, m \in 0..k - 2 : e[i] = e[m] => i = m
  <2> SUFFICES ASSUME NEW i \in 0..k - 2, NEW m \in 0..k - 2, i < m, e[i] = e[m] PROVE FALSE
    OBVIOUS
  <2>1. CASE m < p
    <3>1. c[i] = c[m] /\ i \in 0..k - 1 /\ m \in 0..k - 1
      BY <1>2, <2>1
    <3> QED BY <3>1 DEF Chain
  <2>2. CASE i >= p
    <3>1. c[i + 1] = c[m + 1] /\ i + 1 \in 0..k - 1 /\ m + 1 \in 0..k - 1
      BY <1>2, <2>2
    <3> QED BY <3>1 DEF Chain
  <2>3. CASE i < p /\ m >= p
    <3>1. c[i] = c[m + 1] /\ i \in 0..k - 1 /\ m + 1 \in 0..k - 1 /\ i # m + 1
      BY <1>2, <2>3
    <3> QED BY <3>1 DEF Chain
  <2> QED BY <2>1, <2>2, <2>3
<1>8. \A n \in us : n # c[p] =>
         /\ ny[n] = (IF n = Before(c, p) THEN c[p + 1] ELSE nx[n])
         /\ pw[n] = (IF n = c[p + 1] THEN Before(c, p) ELSE pv[n])
  BY DEF PastNode
<1>6. ASSUME NEW i \in 0..k - 2
      PROVE  /\ e[i] \in us \ {c[p]}
             /\ ny[e[i]] = e[i + 1]
             /\ pw[e[i]] = IF i = 0 THEN Null ELSE e[i - 1]
  <2>1. CASE i < p
    <3>1. e[i] = c[i] /\ i \in 0..k - 1 /\ c[i] \in us
      BY <1>1, <1>2, <2>1
    <3>2. nx[c[i]] = c[i + 1] /\ pv[c[i]] = IF i = 0 THEN Null ELSE c[i - 1]
      BY <3>1 DEF Chain
    <3>3. c[i] # c[p]
      BY <2>1, <3>1 DEF Chain
    <3>4. c[i] # c[p + 1]
      <4>1. p + 1 \in 0..k /\ i # p + 1
        BY <2>1
      <4> QED BY <1>1, <3>1, <4>1
    <3>5. pw[e[i]] = IF i = 0 THEN Null ELSE e[i - 1]
      <4>1. i # 0 => e[i - 1] = c[i - 1]
        BY <1>2, <2>1, <3>1
      <4> QED BY <1>8, <3>1, <3>2, <3>3, <3>4, <4>1
    <3>6. CASE i = p - 1
      <4>1. Before(c, p) = c[i] /\ e[i + 1] = c[p + 1]
        BY <1>2, <2>1, <3>6 DEF Before
      <4> QED BY <1>8, <3>1, <3>3, <3>5, <4>1
    <3>7. CASE i # p - 1
      <4>1. p - 1 \in 0..k - 1 /\ i + 1 < p /\ p # 0
        BY <2>1, <3>7
      <4>2. c[i] # c[p - 1]
        BY <3>1, <3>7, <4>1 DEF Chain
      <4>3. ny[c[i]] = c[i + 1]
        BY <1>8, <3>1, <3>2, <3>3, <4>1, <4>2 DEF Before
      <4>4. e[i + 1] = c[i + 1]
        BY <1>2, <4>1
      <4> QED BY <3>1, <3>3, <3>5, <4>3, <4>4
    <3> QED BY <3>6, <3>7
  <2>2. CASE i >= p
    <3>1. /\ e[i] = c[i + 1] /\ i + 1 \in 0..k - 1 /\ c[i + 1] \in us
          /\ e[i + 1] = c[i + 2] /\ (i + 1) + 1 = i + 2 /\ (i + 1) - 1 = i
      BY <1>1, <1>2, <2>2
    <3>2. nx[c[i + 1]] = c[i + 2] /\ pv[c[i + 1]] = c[i]
      BY <3>1 DEF Chain
    <3>3. c[i + 1] # c[p]
      BY <2>2, <3>1 DEF Chain
    <3>4. c[i + 1] # Before(c, p)
      <4>1. CASE p = 0
        BY <1>1, <3>1, <4>1 DEF Before
      <4>2. CASE p # 0
        <5>1. p - 1 \in 0..k - 1 /\ p - 1 # i + 1
          BY <2>2, <4>2
        <5> QED BY <3>1, <4>2, <5>1 DEF Before, Chain
      <4> QED BY <4>1, <4>2
    <3>5. ny[e[i]] = e[i + 1]
      BY <1>8, <3>1, <3>2, <3>3, <3>4
    <3>6. CASE i = p
      <4>1. pw[e[i]] = Before(c, p)
        BY <1>8, <3>1, <3>3, <3>6
      <4>2. p # 0 => e[p - 1] = c[p - 1]
        BY <1>2
      <4> QED BY <3>1, <3>3, <3>5, <3>6, <4>1, <4>2 DEF Before
    <3>7. CASE i # p
      <4>1. c[i + 1] # c[p + 1]
        <5>1. p + 1 \in 0..k - 1 /\ p + 1 # i + 1
          BY <2>2, <3>7
        <5> QED BY <3>1, <5>1 DEF Chain
      <4>2. e[i - 1] = c[i] /\ i # 0
        BY <1>2, <2>2, <3>7
      <4>3. pw[e[i]] = c[i]
        BY <1>8, <3>1, <3>2, <3>3, <4>1
      <4> QED BY <3>1, <3>3, <3>5, <4>2, <4>3
    <3> QED BY <3>6, <3>7
  <2> QED BY <2>1, <2>2
<1>7. (k - 1) - 1 = k - 2
  OBVIOUS
<1> QED BY <1>3, <1>4, <1>5, <1>6, <1>7 DEF Chain

-----------------------------------------------------------------------------
(* The invariant: the linked nodes are a chain of allocated ones, and the  *)
(* count is that of the nodes that are allocated.                          *)

Linked == \E k \in Nat : \E c : Chain(c, k, first, next, prev, used)

ListInv == ListTypeOK /\ size = Cardinality(used) /\ Linked

AllReadsOff ==
  \A k \in Nat : \A c : Chain(c, k, first, next, prev, used) => ReadsOff(c, k)

LEMMA ReadOffAll == ListTypeOK => AllReadsOff
BY ReadOff DEF AllReadsOff

LEMMA ReadOffNext ==
  ASSUME ListTypeOK', NEW k \in Nat, NEW c, Chain(c, k, first', next', prev', used')
  PROVE  ReadsOff(c, k)'
<1>1. (ListTypeOK => AllReadsOff)'
  BY ReadOffAll, PTL
<1> QED BY <1>1 DEF AllReadsOff

LEMMA UsedFinite ==
  ASSUME ListTypeOK
  PROVE  IsFiniteSet(used) /\ Cardinality(used) \in Nat
BY FS_Subset, FS_CardinalityType DEF ListTypeOK

LEMMA NewNodeIsFree ==
  ASSUME Free # {}
  PROVE  NewNode \in Nodes /\ NewNode \notin used
<1>1. Free \subseteq Nat
  BY DEF Free
<1>2. \E n \in Free : \A m \in Free : n <= m
  BY <1>1, SmallestOf
<1>3. NewNode \in Free
  BY <1>2 DEF NewNode
<1> QED BY <1>3 DEF Free

\* A step that leaves the links alone and frees nothing.
LEMMA LinksStay ==
  ASSUME ListTypeOK, NEW k \in Nat, NEW c, Chain(c, k, first, next, prev, used),
         first' = first, next' = next, prev' = prev,
         used \subseteq used', used' \subseteq Nodes, size' = Cardinality(used)',
         data' \in [Nodes -> Data \cup {Null}]
  PROVE  ListInv' /\ Content' = [i \in 1..k |-> data'[c[i - 1]]]
<1>1. ListTypeOK'
  BY DEF ListTypeOK
<1>2. Chain(c, k, first', next', prev', used')
  BY DEF Chain
<1>3. ReadsOff(c, k)'
  BY <1>1, <1>2, ReadOffNext
<1>4. Linked'
  BY <1>2 DEF Linked
<1> QED BY <1>1, <1>3, <1>4 DEF ListInv, ReadsOff

\* A new node is linked in at the position p.
LinkIn(c, p, d) ==
  /\ Allocate
  /\ first' = (IF p = 0 THEN NewNode ELSE first)
  /\ next' = [n \in Nodes |-> IF n = NewNode THEN c[p]
                              ELSE IF n = Before(c, p) THEN NewNode ELSE next[n]]
  /\ prev' = [n \in Nodes |-> IF n = NewNode THEN Before(c, p)
                              ELSE IF n = c[p] THEN NewNode ELSE prev[n]]
  /\ data' = [data EXCEPT ![NewNode] = d]

\* A sequence of k data with d before that at the position p, and without it.
WithDatum(s, k, p, d) ==
  [i \in 1..k + 1 |-> IF i <= p THEN s[i] ELSE IF i = p + 1 THEN d ELSE s[i - 1]]

WithoutDatum(s, k, p) == [i \in 1..k - 1 |-> IF i <= p THEN s[i] ELSE s[i + 1]]

LEMMA InsertStep ==
  ASSUME ListTypeOK, size = Cardinality(used),
         NEW k \in Nat, NEW c, Chain(c, k, first, next, prev, used),
         NEW p \in 0..k, NEW d \in Data, LinkIn(c, p, d)
  PROVE  ListInv' /\ Content' = WithDatum(Content, k, p, d)
<1> USE DEF LinkIn
<1>1. PICK x : x = NewNode
  OBVIOUS
<1>2. x \in Nodes /\ x \notin used /\ used' = used \cup {x} /\ size' = size + 1
  BY <1>1, NewNodeIsFree DEF Allocate
<1>3. used \subseteq Nodes
  BY DEF ListTypeOK
<1>4. Distinct(c, k, first, used)
  BY <1>3, ChainNodes
<1>5. c[p] \in Linkable /\ Before(c, p) \in Linkable
  <2>1. p # 0 => p - 1 \in 0..k
    OBVIOUS
  <2> QED BY <1>4, <2>1 DEF Distinct, Before, Linkable
<1>6. ListTypeOK'
  <2>1. first' \in Nodes \cup {Null} /\ used' \subseteq Nodes
    BY <1>1, <1>2 DEF ListTypeOK
  <2>2. next' \in [Nodes -> Nodes \cup {Null}] /\ prev' \in [Nodes -> Nodes \cup {Null}]
    BY <1>1, <1>2, <1>5 DEF ListTypeOK, Linkable
  <2>3. data' \in [Nodes -> Data \cup {Null}]
    BY DEF ListTypeOK
  <2> QED BY <2>1, <2>2, <2>3 DEF ListTypeOK
<1>7. PICK e : e = Inserted(c, k, p, x)
  OBVIOUS
<1>8. Chain(e, k + 1, first', next', prev', used')
  <2>1. \A n \in used : next'[n] = IF n = Before(c, p) THEN x ELSE next[n]
    BY <1>1, <1>2, <1>3
  <2>2. \A n \in used : prev'[n] = IF n = c[p] THEN x ELSE prev[n]
    BY <1>1, <1>2, <1>3
  <2>3. next'[x] = c[p] /\ prev'[x] = Before(c, p) /\ first' = IF p = 0 THEN x ELSE first
    BY <1>1, <1>2
  <2> QED BY <1>2, <1>3, <1>7, <2>1, <2>2, <2>3, InsertedIsChain
<1>9. size' = Cardinality(used')
  BY <1>2, UsedFinite, FS_AddElement
<1>10. ListInv'
  <2>1. k + 1 \in Nat
    OBVIOUS
  <2>2. Linked'
    BY <1>8, <2>1 DEF Linked
  <2> QED BY <1>6, <1>9, <2>2 DEF ListInv
<1>11. Content' = [i \in 1..k + 1 |-> data'[e[i - 1]]]
  <2>1. k + 1 \in Nat
    OBVIOUS
  <2>2. ReadsOff(e, k + 1)'
    BY <1>6, <1>8, <2>1, ReadOffNext
  <2> QED BY <2>2 DEF ReadsOff
<1>12. Content = [i \in 1..k |-> data[c[i - 1]]]
  BY ReadOff DEF ReadsOff
<1>13. \A n \in Nodes : data'[n] = IF n = x THEN d ELSE data[n]
  BY <1>1 DEF ListTypeOK
<1>14. ASSUME NEW i \in 1..k + 1
       PROVE  data'[e[i - 1]] = IF i <= p THEN Content[i]
                                ELSE IF i = p + 1 THEN d ELSE Content[i - 1]
  <2>1. ASSUME NEW j \in 1..k
        PROVE  Content[j] = data[c[j - 1]] /\ c[j - 1] \in Nodes /\ c[j - 1] # x
    <3>1. j - 1 \in 0..k - 1
      OBVIOUS
    <3>2. c[j - 1] \in used
      BY <1>4, <3>1 DEF Distinct
    <3> QED BY <1>2, <1>3, <1>12, <3>2
  <2>2. CASE i <= p
    <3>1. e[i - 1] = c[i - 1] /\ i \in 1..k
      BY <1>7, <2>2 DEF Inserted
    <3> QED BY <1>13, <2>1, <2>2, <3>1
  <2>3. CASE i = p + 1
    <3>1. e[i - 1] = x
      BY <1>7, <2>3 DEF Inserted
    <3> QED BY <1>2, <1>13, <2>3, <3>1
  <2>4. CASE i > p + 1
    <3>1. e[i - 1] = c[(i - 1) - 1] /\ i - 1 \in 1..k
      BY <1>7, <2>4 DEF Inserted
    <3>2. data'[e[i - 1]] = Content[i - 1]
      BY <1>13, <2>1, <3>1
    <3> QED BY <2>4, <3>2
  <2> QED BY <2>2, <2>3, <2>4
<1> QED BY <1>10, <1>11, <1>14 DEF WithDatum

LEMMA RemoveStep ==
  ASSUME ListTypeOK, size = Cardinality(used),
         NEW k \in Nat, NEW c, Chain(c, k, first, next, prev, used),
         NEW p \in 0..k - 1, NEW code, Remove(c[p], code)
  PROVE  /\ ListInv'
         /\ Content' = WithoutDatum(Content, k, p)
         /\ dropped' = <<Content[p + 1]>> /\ ret' = code
<1>1. PICK x : x = c[p]
  OBVIOUS
<1>2. used \subseteq Nodes
  BY DEF ListTypeOK
<1>3. Distinct(c, k, first, used)
  BY <1>2, ChainNodes
<1>4. /\ x \in used /\ x \in Nodes /\ x # Null
      /\ next[x] = c[p + 1] /\ prev[x] = Before(c, p)
      /\ x = first <=> p = 0
  <2>1. 0 \in 0..k /\ p \in 0..k - 1
    OBVIOUS
  <2>2. x = first <=> p = 0
    BY <1>1, <1>3, <2>1 DEF Distinct
  <2> QED BY <1>1, <1>2, <1>3, <2>2 DEF Distinct, Chain, Before
<1>5. /\ first' = IF x = first THEN next[x] ELSE first
      /\ next' = [n \in Nodes |-> IF n = x THEN Null
                                  ELSE IF n = prev[x] THEN next[x] ELSE next[n]]
      /\ prev' = [n \in Nodes |-> IF n = x THEN Null
                                  ELSE IF n = next[x] THEN prev[x] ELSE prev[n]]
      /\ used' = used \ {x} /\ size' = size - Cardinality({x})
      /\ data' = [n \in Nodes |-> IF n \in {x} THEN Null ELSE data[n]]
      /\ ret' = code /\ dropped' = <<data[x]>>
  BY <1>1 DEF Remove, Unlink, Forget, Return
<1>6. ListTypeOK'
  <2>1. next[x] \in Nodes \cup {Null} /\ prev[x] \in Nodes \cup {Null}
    BY <1>4 DEF ListTypeOK
  <2>2. first' \in Nodes \cup {Null} /\ used' \subseteq Nodes
    BY <1>5, <2>1 DEF ListTypeOK
  <2>3. next' \in [Nodes -> Nodes \cup {Null}] /\ prev' \in [Nodes -> Nodes \cup {Null}]
    BY <1>5, <2>1 DEF ListTypeOK
  <2>4. data' \in [Nodes -> Data \cup {Null}]
    BY <1>5 DEF ListTypeOK
  <2> QED BY <2>2, <2>3, <2>4 DEF ListTypeOK
<1>7. PICK e : e = Removed(c, k, p)
  OBVIOUS
<1>8. Chain(e, k - 1, first', next', prev', used')
  <2>1. \A n \in used : n # c[p] => next'[n] = (IF n = Before(c, p) THEN c[p + 1] ELSE next[n])
    BY <1>1, <1>2, <1>4, <1>5
  <2>2. \A n \in used : n # c[p] => prev'[n] = (IF n = c[p + 1] THEN Before(c, p) ELSE prev[n])
    BY <1>1, <1>2, <1>4, <1>5
  <2>3. first' = (IF p = 0 THEN c[1] ELSE first)
    BY <1>4, <1>5
  <2>4. used' = used \ {c[p]}
    BY <1>1, <1>5
  <2>5. PastNode(c, p, first', first, next', next, prev', prev, used)
    BY <2>1, <2>2, <2>3 DEF PastNode
  <2>6. PICK j : j = k - 1
    OBVIOUS
  <2>7. Chain(e, j, first', next', prev', used')
    BY <1>2, <1>7, <2>4, <2>5, <2>6, RemovedIsChain
  <2> QED BY <2>6, <2>7
<1>9. size' = Cardinality(used')
  BY <1>4, <1>5, UsedFinite, FS_RemoveElement, FS_Singleton
<1>10. k - 1 \in Nat
  OBVIOUS
<1>11. ListInv'
  BY <1>6, <1>8, <1>9, <1>10 DEF ListInv, Linked
<1>12. Content' = [i \in 1..k - 1 |-> data'[e[i - 1]]]
  <2>1. ReadsOff(e, k - 1)'
    BY <1>6, <1>8, <1>10, ReadOffNext
  <2> QED BY <2>1 DEF ReadsOff
<1>13. Content = [i \in 1..k |-> data[c[i - 1]]]
  BY ReadOff DEF ReadsOff
<1>14. ASSUME NEW j \in 1..k, j # p + 1
       PROVE  Content[j] = data'[c[j - 1]]
  <2>1. j - 1 \in 0..k - 1 /\ j - 1 # p /\ p \in 0..k
    BY <1>14
  <2>2. c[j - 1] \in Nodes /\ c[j - 1] # x
    BY <1>1, <1>2, <1>3, <2>1 DEF Distinct
  <2>3. data'[c[j - 1]] = data[c[j - 1]]
    BY <1>5, <2>2
  <2> QED BY <1>13, <2>3
<1>15. ASSUME NEW i \in 1..k - 1
       PROVE  data'[e[i - 1]] = IF i <= p THEN Content[i] ELSE Content[i + 1]
  <2>1. CASE i <= p
    <3>1. e[i - 1] = c[i - 1] /\ i \in 1..k /\ i # p + 1
      BY <1>7, <2>1 DEF Removed
    <3> QED BY <1>14, <2>1, <3>1
  <2>2. CASE i > p
    <3>1. e[i - 1] = c[i] /\ i + 1 \in 1..k /\ i + 1 # p + 1 /\ (i + 1) - 1 = i
      BY <1>7, <2>2 DEF Removed
    <3>2. data'[e[i - 1]] = Content[i + 1]
      BY <1>14, <3>1
    <3> QED BY <2>2, <3>2
  <2> QED BY <2>1, <2>2
<1>16. Content[p + 1] = data[x]
  BY <1>1, <1>13
<1> QED BY <1>5, <1>11, <1>12, <1>15, <1>16 DEF WithoutDatum

LEMMA RemoveAllStep ==
  ASSUME ListTypeOK, size = Cardinality(used),
         NEW k \in Nat, NEW c, Chain(c, k, first, next, prev, used), RemoveAll
  PROVE  ListInv' /\ Content' = <<>>
<1> DEFINE all == {NodeAt[i] : i \in Steps} \ {Null}
<1>1. used \subseteq Nodes
  BY DEF ListTypeOK
<1>2. all \subseteq used
  <2>1. all = {c[i] : i \in 0..k - 1}
    <3>1. ReadsOff(c, k)
      BY ReadOff
    <3> QED BY <3>1 DEF ReadsOff, InList
  <2>2. \A i \in 0..k - 1 : c[i] \in used
    BY DEF Chain
  <2> HIDE DEF all
  <2> QED BY <2>1, <2>2
<1> HIDE DEF all
<1>3. /\ first' = Null
      /\ next' = [n \in Nodes |-> IF n \in all THEN Null ELSE next[n]]
      /\ prev' = [n \in Nodes |-> IF n \in all THEN Null ELSE prev[n]]
      /\ used' = used \ all /\ size' = size - Cardinality(all)
      /\ data' = [n \in Nodes |-> IF n \in all THEN Null ELSE data[n]]
  BY DEF RemoveAll, Forget, all
<1>4. ListTypeOK'
  BY <1>3 DEF ListTypeOK
<1>5. PICK e : e = [i \in 0..0 |-> Null]
  OBVIOUS
<1>6. Chain(e, 0, first', next', prev', used')
  BY <1>3, <1>5 DEF Chain, Linkable
<1>7. size' = Cardinality(used')
  <2>1. used \cap all = all
    BY <1>2
  <2>2. Cardinality(used \ all) = Cardinality(used) - Cardinality(used \cap all)
    BY UsedFinite, FS_Difference
  <2> QED BY <1>3, <2>1, <2>2
<1>8. ReadsOff(e, 0)'
  BY <1>4, <1>6, ReadOffNext
<1>9. Content' = <<>>
  BY <1>8 DEF ReadsOff
<1>10. Linked'
  BY <1>6 DEF Linked
<1> QED BY <1>4, <1>7, <1>9, <1>10 DEF ListInv

-----------------------------------------------------------------------------
(* What the steps make of the sequence, in the words of DataList.          *)

LEMMA FunctionIsSeq ==
  ASSUME NEW S, NEW n \in Nat, NEW t \in [1..n -> S]
  PROVE  t \in Seq(S) /\ Len(t) = n
<1>1. t \in Seq(S)
  BY SeqDef
<1> QED BY <1>1, LenProperties

LEMMA InsertedSeq ==
  ASSUME NEW S, NEW s \in Seq(S), NEW d \in S, NEW p \in 0..Len(s)
  PROVE  WithDatum(s, Len(s), p, d) = SubSeq(s, 1, p) \o <<d>> \o SubSeq(s, p + 1, Len(s))
<1> DEFINE k == Len(s)
           t == WithDatum(s, k, p, d)
           a == SubSeq(s, 1, p)
           b == SubSeq(s, p + 1, k)
<1>1. k \in Nat /\ s \in [1..k -> S]
  BY LenProperties
<1> HIDE DEF k
<1>2. a \in Seq(S) /\ Len(a) = p /\ \A i \in 1..p : a[i] = s[i]
  <2>1. \A i \in 1..p : s[i] \in S
    BY <1>1 DEF k
  <2> QED BY <1>1, <2>1, SubSeqProperties DEF k
<1>3. b \in Seq(S) /\ Len(b) = k - p /\ \A i \in 1..k - p : b[i] = s[p + i]
  <2>1. \A i \in p + 1..k : s[i] \in S
    BY <1>1 DEF k
  <2>2. p + 1 \in Int /\ k \in Int
    BY <1>1
  <2>3. /\ b \in Seq(S) /\ Len(b) = IF p + 1 <= k THEN k - (p + 1) + 1 ELSE 0
        /\ \A i \in 1..k - (p + 1) + 1 : b[i] = s[(p + 1) + i - 1]
    BY <2>1, <2>2, SubSeqProperties
  <2>4. p \in 0..k
    BY DEF k
  <2> HIDE DEF b
  <2>6. k - (p + 1) + 1 = k - p /\ Len(b) = k - p
    BY <1>1, <2>3, <2>4
  <2>5. \A i \in Int : (p + 1) + i - 1 = p + i
    OBVIOUS
  <2> QED BY <2>3, <2>5, <2>6
<1>4. <<d>> \in Seq(S) /\ Len(<<d>>) = 1 /\ <<d>>[1] = d
  OBVIOUS
<1> HIDE DEF a, b
<1> DEFINE m == a \o <<d>>
<1>5. m \in Seq(S) /\ Len(m) = p + 1 /\ \A i \in 1..p + 1 : m[i] = IF i <= p THEN s[i] ELSE d
  BY <1>2, <1>4, ConcatProperties
<1> HIDE DEF m
<1>6. /\ m \o b \in Seq(S) /\ Len(m \o b) = k + 1
      /\ \A i \in 1..k + 1 : (m \o b)[i] = IF i <= p + 1 THEN m[i] ELSE b[i - (p + 1)]
  <2>1. /\ m \o b \in Seq(S) /\ Len(m \o b) = Len(m) + Len(b)
        /\ \A i \in 1..Len(m) + Len(b) : (m \o b)[i] = IF i <= Len(m) THEN m[i] ELSE b[i - Len(m)]
    BY <1>3, <1>5, ConcatProperties
  <2>2. Len(m) + Len(b) = k + 1
    BY <1>1, <1>3, <1>5
  <2> QED BY <1>5, <2>1, <2>2
<1>7. t \in [1..k + 1 -> S]
  BY <1>1 DEF k, WithDatum
<1>8. t \in Seq(S) /\ Len(t) = k + 1
  BY <1>1, <1>7, FunctionIsSeq
<1>9. ASSUME NEW i \in 1..k + 1 PROVE t[i] = (m \o b)[i]
  <2>1. t[i] = IF i <= p THEN s[i] ELSE IF i = p + 1 THEN d ELSE s[i - 1]
    BY DEF k, WithDatum
  <2>2. CASE i <= p + 1
    BY <1>1, <1>5, <1>6, <2>1, <2>2
  <2>3. CASE ~(i <= p + 1)
    <3>1. i - (p + 1) \in 1..k - p /\ p + (i - (p + 1)) = i - 1
      BY <1>1, <2>3
    <3>2. (m \o b)[i] = s[i - 1]
      BY <1>3, <1>6, <2>3, <3>1
    <3> QED BY <2>1, <2>3, <3>2
  <2> QED BY <2>2, <2>3
<1>10. t = m \o b
  BY <1>6, <1>8, <1>9, SeqEqual
<1> QED BY <1>10 DEF m, a, b, k

LEMMA FirstSeq ==
  ASSUME NEW S, NEW s \in Seq(S), NEW d \in S
  PROVE  WithDatum(s, Len(s), 0, d) = <<d>> \o s
<1>1. 0 \in 0..Len(s) /\ Len(s) \in 0..Len(s)
  BY LenProperties
<1>2. WithDatum(s, Len(s), 0, d) = SubSeq(s, 1, 0) \o <<d>> \o SubSeq(s, 0 + 1, Len(s))
  BY <1>1, InsertedSeq
<1>3. SubSeq(s, 1, 0) = <<>> /\ SubSeq(s, 0 + 1, Len(s)) = s
  BY SubSeqEmpty, SubSeqFull
<1>4. <<>> \o <<d>> = <<d>>
  BY ConcatEmptySeq
<1> QED BY <1>2, <1>3, <1>4

LEMMA LastSeq ==
  ASSUME NEW S, NEW s \in Seq(S), NEW d \in S
  PROVE  WithDatum(s, Len(s), Len(s), d) = Append(s, d)
<1>1. 0 \in 0..Len(s) /\ Len(s) \in 0..Len(s)
  BY LenProperties
<1>2. WithDatum(s, Len(s), Len(s), d)
        = SubSeq(s, 1, Len(s)) \o <<d>> \o SubSeq(s, Len(s) + 1, Len(s))
  BY <1>1, InsertedSeq
<1>3. SubSeq(s, 1, Len(s)) = s /\ SubSeq(s, Len(s) + 1, Len(s)) = <<>>
  BY LenProperties, SubSeqEmpty, SubSeqFull
<1>4. s \o <<d>> \in Seq(S) /\ Append(s, d) = s \o <<d>>
  BY ConcatProperties, AppendIsConcat
<1>5. (s \o <<d>>) \o <<>> = s \o <<d>>
  BY <1>4, ConcatEmptySeq
<1> QED BY <1>2, <1>3, <1>4, <1>5

LEMMA RemovedSeq ==
  ASSUME NEW S, NEW s \in Seq(S), NEW p \in 0..Len(s) - 1
  PROVE  WithoutDatum(s, Len(s), p) = SubSeq(s, 1, p) \o SubSeq(s, p + 2, Len(s))
<1> DEFINE k == Len(s)
           t == WithoutDatum(s, k, p)
           a == SubSeq(s, 1, p)
           b == SubSeq(s, p + 2, k)
<1>1. k \in Nat /\ s \in [1..k -> S]
  BY LenProperties
<1> HIDE DEF k
<1>2. a \in Seq(S) /\ Len(a) = p /\ \A i \in 1..p : a[i] = s[i]
  <2>1. \A i \in 1..p : s[i] \in S
    BY <1>1 DEF k
  <2> QED BY <1>1, <2>1, SubSeqProperties DEF k
<1>3. b \in Seq(S) /\ Len(b) = (k - 1) - p /\ \A i \in 1..(k - 1) - p : b[i] = s[p + 1 + i]
  <2>1. \A i \in p + 2..k : s[i] \in S
    BY <1>1 DEF k
  <2>2. p + 2 \in Int /\ k \in Int
    BY <1>1
  <2>3. /\ b \in Seq(S) /\ Len(b) = IF p + 2 <= k THEN k - (p + 2) + 1 ELSE 0
        /\ \A i \in 1..k - (p + 2) + 1 : b[i] = s[(p + 2) + i - 1]
    BY <2>1, <2>2, SubSeqProperties
  <2>4. p \in 0..k - 1
    BY DEF k
  <2>5. \A i \in Int : (p + 2) + i - 1 = p + 1 + i
    OBVIOUS
  <2> HIDE DEF b
  <2>6. k - (p + 2) + 1 = (k - 1) - p /\ Len(b) = (k - 1) - p
    BY <1>1, <2>3, <2>4
  <2> QED BY <2>3, <2>5, <2>6
<1> HIDE DEF a, b
<1>4. /\ a \o b \in Seq(S) /\ Len(a \o b) = k - 1
      /\ \A i \in 1..k - 1 : (a \o b)[i] = IF i <= p THEN a[i] ELSE b[i - p]
  <2>1. /\ a \o b \in Seq(S) /\ Len(a \o b) = Len(a) + Len(b)
        /\ \A i \in 1..Len(a) + Len(b) : (a \o b)[i] = IF i <= Len(a) THEN a[i] ELSE b[i - Len(a)]
    BY <1>2, <1>3, ConcatProperties
  <2>2. Len(a) + Len(b) = k - 1
    BY <1>1, <1>2, <1>3
  <2> QED BY <1>2, <2>1, <2>2
<1>5. t \in [1..k - 1 -> S]
  BY <1>1 DEF k, WithoutDatum
<1>6. t \in Seq(S) /\ Len(t) = k - 1
  <2>1. k - 1 \in Nat
    BY <1>1 DEF k
  <2> QED BY <1>5, <2>1, FunctionIsSeq
<1>7. ASSUME NEW i \in 1..k - 1 PROVE t[i] = (a \o b)[i]
  <2>1. t[i] = IF i <= p THEN s[i] ELSE s[i + 1]
    BY DEF k, WithoutDatum
  <2>2. CASE i <= p
    BY <1>1, <1>2, <1>4, <2>1, <2>2
  <2>3. CASE ~(i <= p)
    <3>1. i - p \in 1..(k - 1) - p /\ p + 1 + (i - p) = i + 1
      BY <1>1, <2>3
    <3>2. (a \o b)[i] = s[i + 1]
      BY <1>3, <1>4, <2>3, <3>1
    <3> QED BY <2>1, <2>3, <3>2
  <2> QED BY <2>2, <2>3
<1>8. t = a \o b
  BY <1>4, <1>6, <1>7, SeqEqual
<1> QED BY <1>8 DEF a, b, k

LEMMA TailSeq ==
  ASSUME NEW S, NEW s \in Seq(S), s # <<>>
  PROVE  WithoutDatum(s, Len(s), 0) = Tail(s)
<1>1. 0 \in 0..Len(s) - 1
  BY EmptySeq
<1>2. WithoutDatum(s, Len(s), 0) = SubSeq(s, 1, 0) \o SubSeq(s, 2, Len(s))
  <2>1. WithoutDatum(s, Len(s), 0) = SubSeq(s, 1, 0) \o SubSeq(s, 0 + 2, Len(s))
    BY <1>1, RemovedSeq
  <2>2. 0 + 2 = 2
    OBVIOUS
  <2> QED BY <2>1, <2>2
<1>3. SubSeq(s, 1, 0) = <<>>
  BY SubSeqEmpty
<1>4. Tail(s) = SubSeq(s, 2, Len(s)) /\ Tail(s) \in Seq(S)
  BY TailIsSubSeq, HeadTailProperties
<1>5. <<>> \o Tail(s) = Tail(s)
  BY <1>4, ConcatEmptySeq
<1> QED BY <1>2, <1>3, <1>4, <1>5

LEMMA FrontSeq ==
  ASSUME NEW S, NEW s \in Seq(S), s # <<>>
  PROVE  WithoutDatum(s, Len(s), Len(s) - 1) = SubSeq(s, 1, Len(s) - 1)
<1> DEFINE n == Len(s) - 1
           t == WithoutDatum(s, n + 1, n)
           a == SubSeq(s, 1, n)
<1>1. n \in Nat /\ s \in [1..n + 1 -> S]
  BY EmptySeq, LenProperties
<1> HIDE DEF n
<1>2. t = [i \in 1..n |-> s[i]]
  BY <1>1 DEF WithoutDatum
<1>3. \A i \in 1..n : s[i] \in S
  BY <1>1
<1>4. a \in Seq(S) /\ Len(a) = n /\ \A i \in 1..n : a[i] = s[i]
  BY <1>1, <1>3, SubSeqProperties
<1>5. t \in [1..n -> S]
  BY <1>2, <1>3
<1>6. t \in Seq(S) /\ Len(t) = n
  BY <1>1, <1>5, FunctionIsSeq
<1> HIDE DEF a, t
<1>7. t = a
  BY <1>2, <1>4, <1>6, SeqEqual
<1>8. Len(s) = n + 1
  BY LenProperties DEF n
<1> QED BY <1>7, <1>8 DEF a, t, n

-----------------------------------------------------------------------------
(* Every step is one of DataList.                                          *)

\* The sequence that a chain stands for, and what the code finds of it.
Seen(c, k) ==
  /\ Content \in Seq(Data \cup {Null}) /\ Len(Content) = k
  /\ Content = [i \in 1..k |-> data[c[i - 1]]]
  /\ first = Null <=> k = 0
  /\ Content = <<>> <=> k = 0
  /\ c[0] = first /\ c[k] = Null
  /\ \A pos \in Nat : IsAt(pos) <=> pos < k
  /\ \A pos \in Nat : pos < k => NodeAt[pos] = c[pos]
  /\ k # 0 => Last = c[k - 1]

LEMMA ChainSeen ==
  ASSUME ListTypeOK, NEW k \in Nat, NEW c, Chain(c, k, first, next, prev, used)
  PROVE  Seen(c, k)
<1>1. used \subseteq Nodes
  BY DEF ListTypeOK
<1>2. Distinct(c, k, first, used) /\ ReadsOff(c, k)
  BY <1>1, ChainNodes, ReadOff
<1>3. Content = [i \in 1..k |-> data[c[i - 1]]]
  BY <1>2 DEF ReadsOff
<1>4. Content \in [1..k -> Data \cup {Null}]
  <2>1. ASSUME NEW i \in 1..k PROVE data[c[i - 1]] \in Data \cup {Null}
    <3>1. i - 1 \in 0..k - 1
      OBVIOUS
    <3>2. c[i - 1] \in Nodes
      BY <1>1, <1>2, <3>1 DEF Distinct
    <3> QED BY <3>2 DEF ListTypeOK
  <2> QED BY <1>3, <2>1
<1>5. Content \in Seq(Data \cup {Null}) /\ Len(Content) = k
  BY <1>4, FunctionIsSeq
<1>6. c[0] = first /\ c[k] = Null /\ (first = Null <=> k = 0)
  <2>1. k # 0 => 0 \in 0..k - 1
    OBVIOUS
  <2> QED BY <1>2, <2>1 DEF Distinct
<1>7. Content = <<>> <=> k = 0
  BY <1>5, EmptySeq
<1>8. \A pos \in Nat : IsAt(pos) <=> pos < k
  BY <1>2 DEF IsAt, ReadsOff
<1>9. \A pos \in Nat : pos < k => NodeAt[pos] = c[pos]
  BY <1>2 DEF ReadsOff
<1>10. k # 0 => Last = c[k - 1]
  BY <1>2, <1>9 DEF Last, ReadsOff
<1> QED BY <1>3, <1>5, <1>6, <1>7, <1>8, <1>9, <1>10 DEF Seen

LEMMA NothingStep ==
  ASSUME ListTypeOK, size = Cardinality(used),
         NEW k \in Nat, NEW c, Chain(c, k, first, next, prev, used),
         UNCHANGED <<first, nodeVars, used, size>>
  PROVE  ListInv' /\ Content' = Content
<1>1. /\ first' = first /\ next' = next /\ prev' = prev /\ data' = data
      /\ used' = used /\ size' = size /\ Cardinality(used)' = Cardinality(used)
  BY DEF nodeVars
<1>2. used \subseteq Nodes /\ data \in [Nodes -> Data \cup {Null}]
  BY DEF ListTypeOK
<1>3. ListInv' /\ Content' = [i \in 1..k |-> data'[c[i - 1]]]
  BY <1>1, <1>2, LinksStay
<1> QED BY <1>1, <1>3, ReadOff DEF ReadsOff

\* The links that Link writes, each of two nodes.
LEMMA LinkIs ==
  ASSUME NEW n, NEW v, NEW m, NEW w, NEW a, NEW x, NEW b, NEW y, NEW d,
         Link(With(n, v, m, w), With(a, x, b, y), d)
  PROVE  /\ next' = [q \in Nodes |-> IF q = n THEN v ELSE IF q = m THEN w ELSE next[q]]
         /\ prev' = [q \in Nodes |-> IF q = a THEN x ELSE IF q = b THEN y ELSE prev[q]]
         /\ data' = [data EXCEPT ![NewNode] = d]
BY DEF Link, With

LEMMA AddHeadStep ==
  ASSUME ListTypeOK, size = Cardinality(used),
         NEW k \in Nat, NEW c, Chain(c, k, first, next, prev, used),
         NEW d \in Data, AddHead(d)
  PROVE  ListInv' /\ Abstract!AddHead(d)
<1>1. Seen(c, k)
  BY ChainSeen
<1>2. first = c[0] /\ Before(c, 0) = Null /\ NewNode # first
  <2>1. NewNode \in Nodes /\ NewNode \notin used
    BY NewNodeIsFree DEF AddHead, Allocate
  <2>2. first = Null \/ first \in used
    BY <1>1 DEF Seen, Chain
  <2> QED BY <1>1, <2>1, <2>2 DEF Seen, Before, ListTypeOK
<1>3. /\ next' = [q \in Nodes |-> IF q = NewNode THEN first
                                  ELSE IF q = NewNode THEN first ELSE next[q]]
      /\ prev' = [q \in Nodes |-> IF q = first THEN NewNode
                                  ELSE IF q = NewNode THEN Null ELSE prev[q]]
      /\ data' = [data EXCEPT ![NewNode] = d]
  BY LinkIs DEF AddHead
<1>4. LinkIn(c, 0, d)
  BY <1>2, <1>3 DEF LinkIn, AddHead
<1>5. ListInv' /\ Content' = WithDatum(Content, k, 0, d)
  BY <1>4, InsertStep
<1>6. Content' = <<d>> \o Content
  <2>1. Content \in Seq(Data \cup {Null}) /\ Len(Content) = k /\ d \in Data \cup {Null}
    BY <1>1 DEF Seen
  <2>2. WithDatum(Content, Len(Content), 0, d) = <<d>> \o Content
    BY <2>1, FirstSeq
  <2> QED BY <1>5, <2>1, <2>2
<1> QED BY <1>5, <1>6 DEF AddHead, Return, Abstract!AddHead, Abstract!Keep

LEMMA AddTailStep ==
  ASSUME ListTypeOK, size = Cardinality(used),
         NEW k \in Nat, NEW c, Chain(c, k, first, next, prev, used),
         NEW d \in Data, AddTail(d)
  PROVE  ListInv' /\ Abstract!AddTail(d)
<1>1. Seen(c, k)
  BY ChainSeen
<1>2. Allocate /\ NewNode \in Nodes /\ NewNode \notin used
  BY NewNodeIsFree DEF AddTail, Allocate
<1>3. LinkIn(c, k, d)
  <2>1. CASE k = 0
    <3>1. /\ first' = NewNode
          /\ Link(With(NewNode, Null, NewNode, Null), With(NewNode, Null, NewNode, Null), d)
      BY <1>1, <2>1 DEF AddTail, Seen
    <3>2. /\ next' = [q \in Nodes |-> IF q = NewNode THEN Null
                                      ELSE IF q = NewNode THEN Null ELSE next[q]]
          /\ prev' = [q \in Nodes |-> IF q = NewNode THEN Null
                                      ELSE IF q = NewNode THEN Null ELSE prev[q]]
          /\ data' = [data EXCEPT ![NewNode] = d]
      BY <3>1, LinkIs
    <3>3. Before(c, k) = Null /\ c[k] = Null
      BY <1>1, <2>1 DEF Before, Seen
    <3> QED BY <1>2, <2>1, <3>1, <3>2, <3>3 DEF LinkIn
  <2>2. CASE k # 0
    <3>1. /\ first' = first
          /\ Link(With(Last, NewNode, NewNode, Null), With(NewNode, Last, NewNode, Last), d)
      BY <1>1, <2>2 DEF AddTail, Seen
    <3>2. /\ next' = [q \in Nodes |-> IF q = Last THEN NewNode
                                      ELSE IF q = NewNode THEN Null ELSE next[q]]
          /\ prev' = [q \in Nodes |-> IF q = NewNode THEN Last
                                      ELSE IF q = NewNode THEN Last ELSE prev[q]]
          /\ data' = [data EXCEPT ![NewNode] = d]
      BY <3>1, LinkIs
    <3>3. c[k] = Null /\ Before(c, k) = Last /\ Last # NewNode
      <4>1. k - 1 \in 0..k - 1
        BY <2>2
      <4>2. c[k] = Null /\ c[k - 1] \in used
        BY <4>1 DEF Chain
      <4>3. Last = c[k - 1] /\ Before(c, k) = c[k - 1]
        BY <1>1, <2>2 DEF Before, Seen
      <4> QED BY <1>2, <4>2, <4>3
    <3> QED BY <1>2, <2>2, <3>1, <3>2, <3>3 DEF LinkIn
  <2> QED BY <2>1, <2>2
<1>4. ListInv' /\ Content' = WithDatum(Content, k, k, d)
  <2>1. k \in 0..k
    OBVIOUS
  <2> QED BY <1>3, <2>1, InsertStep
<1>5. Content' = Append(Content, d)
  <2>1. Content \in Seq(Data \cup {Null}) /\ Len(Content) = k /\ d \in Data \cup {Null}
    BY <1>1 DEF Seen
  <2>2. WithDatum(Content, Len(Content), Len(Content), d) = Append(Content, d)
    BY <2>1, LastSeq
  <2> QED BY <1>4, <2>1, <2>2
<1> QED BY <1>4, <1>5 DEF AddTail, Return, Abstract!AddTail, Abstract!Keep

LEMMA RemoveHeadStep ==
  ASSUME ListTypeOK, size = Cardinality(used),
         NEW k \in Nat, NEW c, Chain(c, k, first, next, prev, used), RemoveHead
  PROVE  ListInv' /\ Abstract!RemoveHead
<1>1. Seen(c, k)
  BY ChainSeen
<1>2. CASE k = 0
  <2>1. Nothing("OK") /\ Content = <<>>
    BY <1>1, <1>2 DEF RemoveHead, Seen
  <2> QED BY <2>1, NothingStep DEF Nothing, Return, Abstract!RemoveHead, Abstract!Keep
<1>3. CASE k # 0
  <2>1. Remove(c[0], "OK") /\ Content # <<>> /\ 0 \in 0..k - 1
    BY <1>1, <1>3 DEF RemoveHead, Seen
  <2>2. /\ ListInv'
        /\ Content' = WithoutDatum(Content, k, 0)
        /\ dropped' = <<Content[0 + 1]>> /\ ret' = "OK"
    BY <2>1, RemoveStep
  <2>3. Content' = Tail(Content)
    BY <1>1, <2>1, <2>2, TailSeq DEF Seen
  <2>4. dropped' = <<Head(Content)>>
    BY <2>2
  <2> QED BY <2>1, <2>2, <2>3, <2>4 DEF Abstract!RemoveHead, Abstract!Drop
<1> QED BY <1>2, <1>3

LEMMA RemoveTailStep ==
  ASSUME ListTypeOK, size = Cardinality(used),
         NEW k \in Nat, NEW c, Chain(c, k, first, next, prev, used), RemoveTail
  PROVE  ListInv' /\ Abstract!RemoveTail
<1>1. Seen(c, k)
  BY ChainSeen
<1>2. CASE k = 0
  <2>1. Nothing("OK") /\ Content = <<>>
    BY <1>1, <1>2 DEF RemoveTail, Seen
  <2> QED BY <2>1, NothingStep DEF Nothing, Return, Abstract!RemoveTail, Abstract!Keep
<1>3. CASE k # 0
  <2>1. Remove(c[k - 1], "OK") /\ Content # <<>> /\ k - 1 \in 0..k - 1 /\ (k - 1) + 1 = k
    BY <1>1, <1>3 DEF RemoveTail, Seen
  <2>2. /\ ListInv'
        /\ Content' = WithoutDatum(Content, k, k - 1)
        /\ dropped' = <<Content[(k - 1) + 1]>> /\ ret' = "OK"
    BY <2>1, RemoveStep
  <2>3. Content' = SubSeq(Content, 1, Len(Content) - 1)
    BY <1>1, <2>1, <2>2, FrontSeq DEF Seen
  <2>4. dropped' = <<Content[Len(Content)]>>
    BY <1>1, <2>1, <2>2 DEF Seen
  <2> QED BY <2>1, <2>2, <2>3, <2>4 DEF Abstract!RemoveTail, Abstract!Drop
<1> QED BY <1>2, <1>3

LEMMA RemoveAllRefines ==
  ASSUME ListTypeOK, size = Cardinality(used),
         NEW k \in Nat, NEW c, Chain(c, k, first, next, prev, used), RemoveAll
  PROVE  ListInv' /\ Abstract!RemoveAll
BY RemoveAllStep DEF RemoveAll, Return, Abstract!RemoveAll, Abstract!Drop

LEMMA RemoveAtStep ==
  ASSUME ListTypeOK, size = Cardinality(used),
         NEW k \in Nat, NEW c, Chain(c, k, first, next, prev, used),
         NEW pos \in Nat, RemoveAt(pos)
  PROVE  ListInv' /\ \E i \in 0..Len(Content) : Abstract!RemoveAt(i)
<1>1. Seen(c, k)
  BY ChainSeen
<1>2. Content \in Seq(Data \cup {Null}) /\ Len(Content) = k
  BY <1>1 DEF Seen
<1>3. CASE ~(pos < k)
  <2>1. Nothing("E_POSITION_INVALID")
    BY <1>1, <1>3 DEF RemoveAt, Seen
  <2>2. ListInv' /\ Content' = Content /\ dropped' = <<>> /\ ret' = "E_POSITION_INVALID"
    BY <2>1, NothingStep DEF Nothing, Return
  <2>3. Abstract!RemoveAt(k)
    BY <1>2, <2>2 DEF Abstract!RemoveAt, Abstract!Valid, Abstract!At, Abstract!Keep
  <2>4. k \in 0..Len(Content)
    BY <1>2
  <2> QED BY <2>2, <2>3, <2>4
<1>4. CASE pos < k
  <2>1. Remove(c[pos], "E_POSITION_INVALID") /\ pos \in 0..k - 1
    BY <1>1, <1>4 DEF RemoveAt, Seen
  <2>2. /\ ListInv' /\ Content' = WithoutDatum(Content, k, pos)
        /\ dropped' = <<Content[pos + 1]>> /\ ret' = "E_POSITION_INVALID"
    BY <2>1, RemoveStep
  <2>3. Content' = SubSeq(Content, 1, pos) \o SubSeq(Content, pos + 2, Len(Content))
    <3>1. pos \in 0..Len(Content) - 1
      BY <1>2, <2>1
    <3>2. WithoutDatum(Content, Len(Content), pos)
          = SubSeq(Content, 1, pos) \o SubSeq(Content, pos + 2, Len(Content))
      BY <1>2, <3>1, RemovedSeq
    <3> QED BY <1>2, <2>2, <3>2
  <2>4. (pos + 1) - 1 = pos /\ (pos + 1) + 1 = pos + 2 /\ pos + 1 \in 1..Len(Content)
    BY <1>2, <2>1
  <2>5. Abstract!RemoveAt(pos)
    BY <2>2, <2>3, <2>4 DEF Abstract!RemoveAt, Abstract!Valid, Abstract!At,
                            Abstract!Without, Abstract!Drop
  <2>6. pos \in 0..Len(Content)
    BY <2>4
  <2> QED BY <2>2, <2>5, <2>6
<1> QED BY <1>3, <1>4

LEMMA SetAtStep ==
  ASSUME ListTypeOK, size = Cardinality(used),
         NEW k \in Nat, NEW c, Chain(c, k, first, next, prev, used),
         NEW pos \in Nat, NEW d \in Data, SetAt(pos, d)
  PROVE  ListInv' /\ \E i \in 0..Len(Content) : Abstract!SetAt(i, d)
<1>1. Seen(c, k)
  BY ChainSeen
<1>2. /\ Content \in Seq(Data \cup {Null}) /\ Len(Content) = k
      /\ Content = [i \in 1..k |-> data[c[i - 1]]]
  BY <1>1 DEF Seen
<1>3. CASE ~(pos < k)
  <2>1. Nothing("E_POSITION_INVALID")
    BY <1>1, <1>3 DEF SetAt, Seen
  <2>2. ListInv' /\ Content' = Content /\ dropped' = <<>> /\ ret' = "E_POSITION_INVALID"
    BY <2>1, NothingStep DEF Nothing, Return
  <2>3. Abstract!SetAt(k, d)
    BY <1>2, <2>2 DEF Abstract!SetAt, Abstract!Valid, Abstract!At, Abstract!Keep
  <2>4. k \in 0..Len(Content)
    BY <1>2
  <2> QED BY <2>2, <2>3, <2>4
<1>4. CASE pos < k
  <2>1. PICK x : x = c[pos]
    OBVIOUS
  <2>2. /\ data' = [data EXCEPT ![x] = d] /\ ret' = "E_POSITION_INVALID"
        /\ dropped' = <<data[x]>>
        /\ first' = first /\ next' = next /\ prev' = prev /\ used' = used /\ size' = size
    BY <1>1, <1>4, <2>1 DEF SetAt, Seen, Return
  <2>3. used \subseteq Nodes /\ data \in [Nodes -> Data \cup {Null}]
    BY DEF ListTypeOK
  <2>4. Distinct(c, k, first, used)
    BY <2>3, ChainNodes
  <2>5. x \in Nodes /\ \A j \in 0..k - 1 : c[j] \in Nodes /\ (c[j] = x <=> j = pos)
    <3>1. pos \in 0..k - 1
      BY <1>4
    <3>2. \A j \in 0..k - 1 : c[j] \in Nodes
      BY <2>3, <2>4 DEF Distinct
    <3>3. \A j \in 0..k - 1 : c[j] = x <=> j = pos
      BY <2>1, <2>4, <3>1 DEF Distinct
    <3> QED BY <2>1, <3>1, <3>2, <3>3
  <2>6. data' \in [Nodes -> Data \cup {Null}]
    BY <2>2, <2>3
  <2>7. size' = Cardinality(used)'
    BY <2>2
  <2>8. ListInv' /\ Content' = [i \in 1..k |-> data'[c[i - 1]]]
    BY <2>2, <2>3, <2>6, <2>7, LinksStay
  <2>9. Content' = [Content EXCEPT ![pos + 1] = d]
    <3>1. ASSUME NEW i \in 1..k
          PROVE  data'[c[i - 1]] = IF i = pos + 1 THEN d ELSE Content[i]
      <4>1. i - 1 \in 0..k - 1 /\ (i - 1 = pos <=> i = pos + 1)
        OBVIOUS
      <4>2. c[i - 1] \in Nodes /\ (c[i - 1] = x <=> i = pos + 1)
        BY <2>5, <4>1
      <4>3. data'[c[i - 1]] = IF c[i - 1] = x THEN d ELSE data[c[i - 1]]
        BY <2>2, <2>3, <4>2
      <4> QED BY <1>2, <4>2, <4>3
    <3>2. [Content EXCEPT ![pos + 1] = d]
          = [i \in 1..k |-> IF i = pos + 1 THEN d ELSE Content[i]]
      BY <1>2
    <3> QED BY <2>8, <3>1, <3>2
  <2>10. pos + 1 \in 1..Len(Content) /\ Content[pos + 1] = data[x]
    BY <1>2, <1>4, <2>1
  <2>11. Abstract!SetAt(pos, d)
    BY <2>2, <2>9, <2>10 DEF Abstract!SetAt, Abstract!Valid, Abstract!At, Abstract!Drop
  <2>12. pos \in 0..Len(Content)
    BY <2>10
  <2> QED BY <2>8, <2>11, <2>12
<1> QED BY <1>3, <1>4

LEMMA InsertAfterStep ==
  ASSUME ListTypeOK, size = Cardinality(used),
         NEW k \in Nat, NEW c, Chain(c, k, first, next, prev, used),
         NEW pos \in Nat, NEW d \in Data, InsertAfter(pos, d)
  PROVE  ListInv' /\ \E i \in 0..Len(Content) : Abstract!InsertAfter(i, d)
<1>1. Seen(c, k)
  BY ChainSeen
<1>2. /\ Content \in Seq(Data \cup {Null}) /\ Len(Content) = k
      /\ Content = [i \in 1..k |-> data[c[i - 1]]] /\ d \in Data \cup {Null}
  BY <1>1 DEF Seen
<1>3. used \subseteq Nodes /\ data \in [Nodes -> Data \cup {Null}]
  BY DEF ListTypeOK
<1>4. Distinct(c, k, first, used)
  BY <1>3, ChainNodes
<1>5. ASSUME ListInv', Content' = Content, dropped' = <<>>, ret' = "E_POSITION_INVALID"
      PROVE  ListInv' /\ \E i \in 0..Len(Content) : Abstract!InsertAfter(i, d)
  <2>1. Abstract!InsertAfter(k, d)
    BY <1>2, <1>5 DEF Abstract!InsertAfter, Abstract!Valid, Abstract!At, Abstract!Keep
  <2>2. k \in 0..Len(Content)
    BY <1>2
  <2> QED BY <1>5, <2>1, <2>2
<1>6. CASE k = 0
  <2>1. Nothing("E_POSITION_INVALID")
    BY <1>1, <1>6 DEF InsertAfter, Seen
  <2> QED BY <1>5, <2>1, NothingStep DEF Nothing, Return
<1>7. CASE k # 0 /\ ~(pos < k)
  <2>1. PICK x : x = NewNode
    OBVIOUS
  <2>2. /\ Allocate /\ ret' = "E_POSITION_INVALID" /\ dropped' = <<>>
        /\ data' = [data EXCEPT ![x] = d]
        /\ first' = first /\ next' = next /\ prev' = prev
    BY <1>1, <1>7, <2>1 DEF InsertAfter, Seen, Return
  <2>3. x \in Nodes /\ x \notin used /\ used' = used \cup {x} /\ size' = size + 1
    BY <2>1, <2>2, NewNodeIsFree DEF Allocate
  <2>4. size' = Cardinality(used')
    BY <2>3, UsedFinite, FS_AddElement
  <2>5. data' \in [Nodes -> Data \cup {Null}] /\ used \subseteq used' /\ used' \subseteq Nodes
    BY <1>3, <2>2, <2>3
  <2>6. ListInv' /\ Content' = [i \in 1..k |-> data'[c[i - 1]]]
    BY <2>2, <2>4, <2>5, LinksStay
  <2>7. \A i \in 1..k : data'[c[i - 1]] = data[c[i - 1]]
    <3> SUFFICES ASSUME NEW i \in 1..k PROVE data'[c[i - 1]] = data[c[i - 1]]
      OBVIOUS
    <3>1. i - 1 \in 0..k - 1
      OBVIOUS
    <3>2. c[i - 1] \in used
      BY <1>4, <3>1 DEF Distinct
    <3> QED BY <1>3, <2>2, <2>3, <3>2
  <2>8. Content' = Content
    BY <1>2, <2>6, <2>7
  <2> QED BY <1>5, <2>2, <2>6, <2>8
<1>8. CASE pos < k
  <2> DEFINE p == pos + 1
  <2>1. k # 0 /\ pos \in 0..k - 1 /\ p \in 0..k /\ p # 0 /\ p - 1 = pos
    BY <1>8
  <2>2. /\ Allocate /\ first' = first /\ ret' = "OK" /\ dropped' = <<>>
        /\ Link(With(NewNode, next[c[pos]], c[pos], NewNode),
                With(NewNode, c[pos], next[c[pos]], NewNode), d)
    BY <1>1, <1>8, <2>1 DEF InsertAfter, Seen, Return
  <2>3. next[c[pos]] = c[p] /\ Before(c, p) = c[pos]
    BY <2>1 DEF Chain, Before
  <2> HIDE DEF p
  <2>4. /\ next' = [q \in Nodes |-> IF q = NewNode THEN c[p]
                                    ELSE IF q = c[pos] THEN NewNode ELSE next[q]]
        /\ prev' = [q \in Nodes |-> IF q = NewNode THEN c[pos]
                                    ELSE IF q = c[p] THEN NewNode ELSE prev[q]]
        /\ data' = [data EXCEPT ![NewNode] = d]
    BY <2>2, <2>3, LinkIs
  <2>5. LinkIn(c, p, d)
    BY <2>1, <2>2, <2>3, <2>4 DEF LinkIn
  <2>6. ListInv' /\ Content' = WithDatum(Content, k, p, d)
    BY <2>1, <2>5, InsertStep
  <2>7. Content' = SubSeq(Content, 1, p) \o <<d>> \o SubSeq(Content, p + 1, Len(Content))
    BY <1>2, <2>1, <2>6, InsertedSeq
  <2>8. pos + 1 \in 1..Len(Content) /\ pos \in 0..Len(Content)
    BY <1>2, <1>8
  <2>9. Abstract!InsertAfter(pos, d)
    BY <2>2, <2>7, <2>8 DEF Abstract!InsertAfter, Abstract!Valid, Abstract!At, Abstract!Keep, p
  <2> QED BY <2>6, <2>8, <2>9
<1> QED BY <1>6, <1>7, <1>8

LEMMA InsertBeforeStep ==
  ASSUME ListTypeOK, size = Cardinality(used),
         NEW k \in Nat, NEW c, Chain(c, k, first, next, prev, used),
         NEW pos \in Nat, NEW d \in Data, InsertBefore(pos, d)
  PROVE  ListInv' /\ (\/ Abstract!AddHead(d)
                      \/ \E i \in 0..Len(Content) : Abstract!InsertAfter(i, d))
<1>1. CASE pos = 0
  BY <1>1, AddHeadStep DEF InsertBefore
<1>2. CASE pos # 0
  <2>1. pos - 1 \in Nat /\ InsertAfter(pos - 1, d)
    BY <1>2 DEF InsertBefore
  <2> QED BY <2>1, InsertAfterStep
<1> QED BY <1>1, <1>2

LEMMA ListStarts == ListInit => ListInv /\ Abstract!Init
<1> SUFFICES ASSUME ListInit PROVE ListInv /\ Abstract!Init
  OBVIOUS
<1>1. ListTypeOK
  BY DEF ListInit, ListTypeOK
<1>2. PICK c : c = [i \in 0..0 |-> Null]
  OBVIOUS
<1>3. Chain(c, 0, first, next, prev, used)
  BY <1>2 DEF ListInit, Chain, Linkable
<1>4. Content = <<>>
  BY <1>1, <1>3, ReadOff DEF ReadsOff
<1>5. size = Cardinality(used)
  BY FS_EmptySet DEF ListInit
<1>6. Linked
  BY <1>3 DEF Linked
<1> QED BY <1>1, <1>4, <1>5, <1>6 DEF ListInv, ListInit, Abstract!Init

LEMMA ListStep ==
  ListInv /\ [ListNext]_listVars => ListInv' /\ [Abstract!Next]_(Abstract!vars)
<1> SUFFICES ASSUME ListInv, [ListNext]_listVars
             PROVE  ListInv' /\ [Abstract!Next]_(Abstract!vars)
  OBVIOUS
<1>1. PICK k \in Nat : \E c : Chain(c, k, first, next, prev, used)
  BY DEF ListInv, Linked
<1>2. PICK c : Chain(c, k, first, next, prev, used)
  BY <1>1
<1>3. ListTypeOK /\ size = Cardinality(used)
  BY DEF ListInv
<1>4. Positions \subseteq Nat
  BY DEF Positions
<1> USE <1>2, <1>3
<1>5. CASE OutOfMemory
  <2>1. ListInv' /\ Content' = Content
    BY <1>5, NothingStep DEF OutOfMemory, Nothing
  <2>2. Abstract!OutOfMemory
    BY <1>5, <2>1 DEF OutOfMemory, Nothing, Return, Abstract!OutOfMemory, Abstract!Keep
  <2> QED BY <2>1, <2>2 DEF Abstract!Next
<1>6. CASE RemoveHead
  BY <1>6, RemoveHeadStep DEF Abstract!Next
<1>7. CASE RemoveTail
  BY <1>7, RemoveTailStep DEF Abstract!Next
<1>8. CASE RemoveAll
  BY <1>8, RemoveAllRefines DEF Abstract!Next
<1>9. ASSUME NEW d \in Data, AddHead(d) PROVE ListInv' /\ Abstract!Next
  BY <1>9, AddHeadStep DEF Abstract!Next
<1>10. ASSUME NEW d \in Data, AddTail(d) PROVE ListInv' /\ Abstract!Next
  BY <1>10, AddTailStep DEF Abstract!Next
<1>11. ASSUME NEW pos \in Positions, RemoveAt(pos) PROVE ListInv' /\ Abstract!Next
  <2>1. ListInv' /\ \E i \in 0..Len(Content) : Abstract!RemoveAt(i)
    BY <1>4, <1>11, RemoveAtStep
  <2> QED BY <2>1 DEF Abstract!Next
<1>12. ASSUME NEW pos \in Positions, NEW d \in Data, SetAt(pos, d)
       PROVE  ListInv' /\ Abstract!Next
  <2>1. ListInv' /\ \E i \in 0..Len(Content) : Abstract!SetAt(i, d)
    BY <1>4, <1>12, SetAtStep
  <2> QED BY <2>1 DEF Abstract!Next
<1>13. ASSUME NEW pos \in Positions, NEW d \in Data, InsertAfter(pos, d)
       PROVE  ListInv' /\ Abstract!Next
  <2>1. ListInv' /\ \E i \in 0..Len(Content) : Abstract!InsertAfter(i, d)
    BY <1>4, <1>13, InsertAfterStep
  <2> QED BY <2>1 DEF Abstract!Next
<1>14. ASSUME NEW pos \in Positions, NEW d \in Data, InsertBefore(pos, d)
       PROVE  ListInv' /\ Abstract!Next
  <2>1. /\ ListInv'
        /\ \/ Abstract!AddHead(d)
           \/ \E i \in 0..Len(Content) : Abstract!InsertAfter(i, d)
    BY <1>4, <1>14, InsertBeforeStep
  <2> QED BY <2>1 DEF Abstract!Next
<1>15. CASE UNCHANGED listVars
  <2>1. UNCHANGED <<first, nodeVars, used, size>> /\ UNCHANGED <<dropped, ret>>
    BY <1>15 DEF listVars
  <2>2. ListInv' /\ Content' = Content
    BY <2>1, NothingStep
  <2> QED BY <2>1, <2>2 DEF Abstract!vars
<1> QED BY <1>5, <1>6, <1>7, <1>8, <1>9, <1>10, <1>11, <1>12, <1>13, <1>14, <1>15 DEF ListNext

LEMMA ListInvHolds == ListSpec => []ListInv
<1>1. ListInit => ListInv
  BY ListStarts
<1>2. ListInv /\ [ListNext]_listVars => ListInv'
  BY ListStep
<1> QED BY <1>1, <1>2, PTL DEF ListSpec

\* The chain of links says what WellLinked says.
LEMMA ChainIsWellLinked == ListInv => WellLinked
<1> SUFFICES ASSUME ListInv PROVE WellLinked
  OBVIOUS
<1>1. PICK k \in Nat : \E c : Chain(c, k, first, next, prev, used)
  BY DEF ListInv, Linked
<1>2. PICK c : Chain(c, k, first, next, prev, used)
  BY <1>1
<1>3. used \subseteq Nodes /\ ListTypeOK /\ size = Cardinality(used)
  BY DEF ListInv, ListTypeOK
<1>4. Distinct(c, k, first, used) /\ ReadsOff(c, k)
  BY <1>2, <1>3, ChainNodes, ReadOff
<1>5. NodeAt[Cardinality(Nodes)] = Null
  <2>1. Bound \in k..Bound
    BY <1>4, BoundNat DEF ReadsOff
  <2> QED BY <1>4, <2>1 DEF ReadsOff, Bound
<1>6. InList \subseteq used
  BY <1>4 DEF ReadsOff, Distinct
<1>7. first # Null => prev[first] = Null
  <2>1. k # 0 => 0 \in 0..k - 1
    OBVIOUS
  <2> QED BY <1>2, <1>4, <2>1 DEF Distinct, Chain
<1>8. ASSUME NEW n \in InList, next[n] # Null PROVE prev[next[n]] = n
  <2>1. PICK i \in 0..k - 1 : n = c[i]
    BY <1>4 DEF ReadsOff
  <2>2. next[n] = c[i + 1]
    BY <1>2, <2>1 DEF Chain
  <2>3. i + 1 \in 0..k - 1 /\ i + 1 # 0 /\ (i + 1) - 1 = i
    BY <1>4, <1>8, <2>2 DEF Distinct
  <2>4. prev[c[i + 1]] = c[(i + 1) - 1]
    BY <1>2, <2>3 DEF Chain
  <2> QED BY <2>1, <2>2, <2>3, <2>4
<1> QED BY <1>3, <1>5, <1>6, <1>7, <1>8 DEF WellLinked

\* Whatever is put in and taken out of TinyList, and wherever: the links back
\* are those forward, a freed node is not linked, the list ends, and the count
\* is that of the allocated nodes (TinyList.c:205-667).
THEOREM ListIsWellLinked == ListSpec => []WellLinked
BY ListInvHolds, ChainIsWellLinked, PTL

\* TinyList is the sequence of its data: each operation does to the links what
\* DataList says it does to the sequence, and hands what leaves it to the
\* delete listener once, for every memory and every data (TinyList.c:205-667).
THEOREM ListIsASequence == ListSpec => DataListSpec
<1>1. ListInit => Abstract!Init
  BY ListStarts
<1>2. ListInv /\ [ListNext]_listVars => [Abstract!Next]_(Abstract!vars)
  BY ListStep
<1> QED BY <1>1, <1>2, ListInvHolds, PTL DEF ListSpec, DataListSpec, Abstract!Spec

-----------------------------------------------------------------------------
(* The timer.                                                              *)

\* The correction is a length of time: it never makes the interval longer.
IntervalOK ==
  /\ times \in Nat
  /\ interval \in Half .. Interval
  /\ previous \in Nat

USE TimesNat, IntervalNat, ElapsedInt

LEMMA HalfBounds == Half \in Nat /\ Half + Half <= Interval
BY DEF Half

LEMMA CorrectionInRange ==
  ASSUME previous \in Nat, NEW late \in Int
  PROVE  ShortenedBySelect(late) \in Half .. Interval /\ Remembered(late) \in Nat
BY HalfBounds DEF ShortenedBySelect, Correction, Remembered, AtMost, AtLeast

LEMMA ListenerInRange ==
  ASSUME interval \in Half .. Interval, NEW spent \in Int
  PROVE  ShortenedByListener(spent) \in Half .. Interval
BY HalfBounds DEF ShortenedByListener, AtLeast

LEMMA IntervalInit == TimerInit => IntervalOK
BY HalfBounds DEF TimerInit, IntervalOK

LEMMA IntervalStep == IntervalOK /\ [TimerNext]_timerVars => IntervalOK'
<1> SUFFICES ASSUME IntervalOK, [TimerNext]_timerVars PROVE IntervalOK'
  OBVIOUS
<1> USE DEF IntervalOK
<1>1. CASE Start
  BY <1>1, HalfBounds DEF Start, Half
<1>2. CASE StopBegin \/ StopSend \/ StopJoin \/ DisposeSend \/ DisposeClose
  BY <1>2 DEF StopBegin, StopSend, StopJoin, DisposeSend, DisposeClose, threadVars, Half
<1>3. CASE ReadStop
  BY <1>3 DEF ReadStop, Half
<1>4. CASE TimesOut
  <2>1. times' = times
    BY <1>4 DEF TimesOut
  <2>2. CASE times > 0
    BY <1>4, <2>1, <2>2 DEF TimesOut, Half
  <2>3. CASE ~(times > 0)
    <3>1. PICK e \in Elapsed : /\ interval' = ShortenedBySelect(e - interval)
                               /\ previous' = Remembered(e - interval)
      BY <1>4, <2>3 DEF TimesOut
    <3>2. e - interval \in Int
      BY HalfBounds
    <3>3. interval' \in Half .. Interval /\ previous' \in Nat
      BY <3>1, <3>2, CorrectionInRange
    <3> QED BY <2>1, <3>3 DEF Half
  <2> QED BY <2>2, <2>3
<1>5. CASE ListenerReturns
  <2>1. times' = times /\ previous' = previous
    BY <1>5 DEF ListenerReturns
  <2>2. CASE interval' = interval
    BY <2>1, <2>2 DEF Half
  <2>3. CASE \E e \in Elapsed : interval' = ShortenedByListener(e)
    <3>1. PICK e \in Elapsed : interval' = ShortenedByListener(e)
      BY <2>3
    <3>2. interval' \in Half .. Interval
      BY <3>1, ListenerInRange
    <3> QED BY <2>1, <3>2 DEF Half
  <2> QED BY <1>5, <2>2, <2>3 DEF ListenerReturns
<1>6. CASE SelectClosed
  BY <1>6 DEF SelectClosed, Half
<1>7. CASE UNCHANGED timerVars
  BY <1>7 DEF timerVars, threadVars, Half
<1> QED BY <1>1, <1>2, <1>3, <1>4, <1>5, <1>6, <1>7 DEF TimerNext, OwnerStep, ThreadStep

\* Whatever the clock says, the timer never waits less than half of its
\* interval and never longer than all of it (TinyTimer.c:235-269).
THEOREM IntervalStays == TimerSpec => []IntervalBounded
<1>1. IntervalOK => IntervalBounded
  BY DEF IntervalOK, IntervalBounded
<1> QED BY <1>1, IntervalInit, IntervalStep, PTL DEF TimerSpec

-----------------------------------------------------------------------------
(* The datagrams.  While the socket is open it holds the STOP that a run   *)
(* has left behind, and the one of the call under way, less the one that   *)
(* the thread has read.                                                    *)

Left    == IF unread THEN 1 ELSE 0
Sent    == IF owner \in {"join", "close"} THEN 1 ELSE 0
WasRead == IF thread = "ended" /\ cause = "stop" THEN 1 ELSE 0

Kinds ==
  /\ isRunning \in BOOLEAN /\ unread \in BOOLEAN /\ ticks \in BOOLEAN /\ liveAtEnd \in BOOLEAN
  /\ thread \in {"none", "select", "call", "ended"}
  /\ cause \in {"none", "times", "listener", "stop", "error"}
  /\ owner \in {"idle", "send", "join", "close", "disposed"}
  /\ mail \in Nat /\ asked \in Nat
  /\ socket = IF owner = "disposed" THEN "closed" ELSE "open"

\* A thread there is between Start and the end of Stop, and after Dispose only
\* if nobody has stopped it.
ThreadIff ==
  /\ owner = "idle" => (isRunning <=> thread # "none")
  /\ owner \in {"send", "join"} => ~isRunning /\ thread # "none"
  /\ owner \in {"close", "disposed"} => (liveAtEnd <=> thread # "none")
  /\ thread \in {"select", "call"} => cause = "none"
  /\ thread = "ended" => cause # "none"

AskedOK ==
  /\ owner \in {"join", "close", "disposed"} => asked > 0
  /\ (owner = "send" \/ (owner = "idle" /\ isRunning)) => asked = 0

\* Where a STOP was left, the thread of a later run does nothing but read it.
LeftIsRead ==
  (unread /\ socket = "open" /\ thread # "none") =>
    ~ticks /\ (thread = "select" \/ (thread = "ended" /\ cause = "stop"))

MailOK == socket = "open" => mail = Left + Sent - WasRead

CauseOK == cause = "stop" => asked > 0 \/ unread

StopInv == Kinds /\ ThreadIff /\ AskedOK /\ LeftIsRead /\ MailOK /\ CauseOK

LEMMA StopInit == TimerInit => StopInv
<1> SUFFICES ASSUME TimerInit PROVE StopInv
  OBVIOUS
<1> USE DEF TimerInit
<1>1. Kinds
  BY DEF Kinds
<1>2. ThreadIff /\ AskedOK /\ LeftIsRead /\ CauseOK
  BY DEF ThreadIff, AskedOK, LeftIsRead, CauseOK
<1>3. MailOK
  BY DEF MailOK, Left, Sent, WasRead
<1> QED BY <1>1, <1>2, <1>3 DEF StopInv

LEMMA StopStep == StopInv /\ [TimerNext]_timerVars => StopInv'
<1> SUFFICES ASSUME StopInv, [TimerNext]_timerVars PROVE StopInv'
  OBVIOUS
<1> USE DEF StopInv, Kinds, ThreadIff, AskedOK, LeftIsRead, MailOK, CauseOK, Left, Sent, WasRead
<1>1. CASE Start
  BY <1>1 DEF Start
<1>2. CASE StopBegin
  BY <1>2 DEF StopBegin, threadVars, history
<1>3. CASE StopSend
  BY <1>3 DEF StopSend, threadVars, history
<1>4. CASE StopJoin
  <2> USE <1>4 DEF StopJoin
  <2>1. cause # "stop" => ~unread
    OBVIOUS
  <2>2. Kinds'
    BY <2>1
  <2>3. ThreadIff' /\ AskedOK' /\ LeftIsRead' /\ CauseOK'
    BY <2>1
  <2>4. unread' = IF cause = "stop" THEN unread ELSE TRUE
    BY <2>1
  <2>5. MailOK'
    <3>1. CASE cause = "stop"
      BY <2>4, <3>1
    <3>2. CASE cause # "stop"
      <4>1. mail' = 1
        BY <2>1, <3>2
      <4>2. Left' = 1 /\ Sent' = 0 /\ WasRead' = 0
        BY <2>4, <3>2
      <4> QED BY <4>1, <4>2 DEF MailOK
    <3> QED BY <3>1, <3>2
  <2> QED BY <2>2, <2>3, <2>5
<1>5. CASE DisposeSend
  BY <1>5 DEF DisposeSend, threadVars
<1>6. CASE DisposeClose
  BY <1>6 DEF DisposeClose, threadVars, history
<1>7. CASE ReadStop
  BY <1>7 DEF ReadStop, EndBecause, history
<1>8. CASE TimesOut
  BY <1>8 DEF TimesOut, history
<1>9. CASE ListenerReturns
  BY <1>9 DEF ListenerReturns, NextRound, EndBecause, history
<1>10. CASE SelectClosed
  BY <1>10 DEF SelectClosed, NextRound, EndBecause, history
<1>11. CASE UNCHANGED timerVars
  BY <1>11 DEF timerVars, threadVars, history
<1> QED BY <1>1, <1>2, <1>3, <1>4, <1>5, <1>6, <1>7, <1>8, <1>9, <1>10, <1>11
        DEF TimerNext, OwnerStep, ThreadStep

\* A STOP ends the run it was meant for, or, once a run has ended by itself,
\* all the runs to come (TinyTimer.c:157-180, 337-344); between two runs the
\* socket holds at most the one that nobody has read.
THEOREM StopsAreReadOnce == TimerSpec => []StopsReadOnce
<1>1. StopInv => StopsReadOnce
  BY DEF StopInv, Kinds, ThreadIff, AskedOK, LeftIsRead, MailOK, CauseOK, Left, Sent, WasRead,
         StopsReadOnce, StopsAccounted, CutShortForCause, QuietAfterDispose
<1> QED BY <1>1, StopInit, StopStep, PTL DEF TimerSpec
=============================================================================
