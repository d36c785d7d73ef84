-------------------------- MODULE TreeConfigProofs --------------------------
(***************************************************************************)
(* Proofs about TreeConfig: the layout is right for every number of        *)
(* replicas and every fanout, both from 2 on.                              *)
(***************************************************************************)
EXTENDS TreeConfig, FiniteSetTheorems, WellFoundedInduction, TLAPS

-----------------------------------------------------------------------------
(* Loops as recursive functions: the induction over the number of runs of  *)
(* the body is on sets, so that no lemma takes an operator.                *)

(* g[k] is what the loop has computed after k of its M runs, the k-th of   *)
(* which applies f[k].                                                     *)
IsRun(g, M, a, f) ==
    /\ DOMAIN g = 0..M /\ g = [k \in 0..M |-> g[k]]
    /\ g[0] = a
    /\ \A k \in 1..M : g[k] = f[k][g[k - 1]]

(* A set of numbers that is not empty has a least one.                     *)
LEMMA LeastNumber ==
    ASSUME NEW S \in SUBSET Nat, S # {}
    PROVE  \E m \in S : \A n \in S : m <= n
<1> DEFINE R == OpToRel(<, Nat)
<1>1. IsWellFoundedOn(R, Nat)
  BY NatLessThanWellFounded
<1>2. PICK m \in S : \A n \in S : ~ (<<n, m>> \in R)
  <2> HIDE DEF R
  <2> QED BY <1>1, WFMin
<1>3. \A n \in S : ~ (n < m)
  BY <1>2 DEF OpToRel
<1> QED
  BY <1>3

(* A loop invariant: B[k] holds what may be there after k runs.            *)
LEMMA RunStays ==
    ASSUME NEW M \in Nat, NEW g, NEW B, g[0] \in B[0],
           \A k \in 1..M : g[k - 1] \in B[k - 1] => g[k] \in B[k]
    PROVE  \A k \in 0..M : g[k] \in B[k]
<1> DEFINE S == {k \in 0..M : g[k] \notin B[k]}
<1> SUFFICES ASSUME S # {} PROVE FALSE
  OBVIOUS
<1>1. PICK m \in S : \A k \in S : m <= k
  <2>1. S \in SUBSET Nat
    OBVIOUS
  <2> HIDE DEF S
  <2> QED BY <2>1, LeastNumber
<1>2. m \in 1..M
  BY <1>1
<1>3. m - 1 \notin S
  BY <1>1, <1>2
<1>4. g[m - 1] \in B[m - 1]
  BY <1>2, <1>3
<1> QED BY <1>1, <1>2, <1>4

(* Every loop of M runs computes something.                                *)
LEMMA RunExists ==
    ASSUME NEW M \in Nat, NEW a, NEW f
    PROVE  \E g : IsRun(g, M, a, f)
<1> DEFINE S == {j \in 0..M : ~ \E g : IsRun(g, j, a, f)}
<1> SUFFICES ASSUME S # {} PROVE FALSE
  OBVIOUS
<1>1. PICK m \in S : \A k \in S : m <= k
  <2>1. S \in SUBSET Nat
    OBVIOUS
  <2> HIDE DEF S
  <2> QED BY <2>1, LeastNumber
<1>2. m \in 0..M /\ ~ \E g : IsRun(g, m, a, f)
  BY <1>1
<1>3. CASE m = 0
  <2> DEFINE h == [k \in 0..0 |-> a]
  <2>1. IsRun(h, 0, a, f)
    BY DEF IsRun
  <2> QED BY <1>2, <1>3, <2>1
<1>4. CASE m # 0
  <2>1. m - 1 \in 0..M /\ m - 1 \notin S
    BY <1>1, <1>2, <1>4
  <2>2. PICK g : IsRun(g, m - 1, a, f)
    BY <2>1
  <2> DEFINE h == [k \in 0..m |-> IF k = m THEN f[m][g[m - 1]] ELSE g[k]]
  <2>3. IsRun(h, m, a, f)
    <3>1. h[0] = a
      BY <1>2, <1>4, <2>2 DEF IsRun
    <3>2. ASSUME NEW k \in 1..m
          PROVE  h[k] = f[k][h[k - 1]]
      <4>1. CASE k = m
        BY <1>2, <1>4, <4>1
      <4>2. CASE k # m
        <5>1. k \in 1..(m - 1) /\ k - 1 \in 0..m /\ k - 1 # m
          BY <1>2, <4>2
        <5>2. g[k] = f[k][g[k - 1]]
          BY <2>2, <5>1 DEF IsRun
        <5>3. h[k] = g[k] /\ h[k - 1] = g[k - 1]
          BY <4>2, <5>1
        <5> QED BY <5>2, <5>3
      <4> QED BY <4>1, <4>2
    <3> QED BY <3>1, <3>2 DEF IsRun
  <2> QED BY <1>2, <2>3
<1> QED BY <1>3, <1>4

-----------------------------------------------------------------------------

(* With one replica, or a fanout of one, the loop reads replicas[size].    *)
TwoAtLeast == 0..1 \cap (Sizes \cup Fanouts) = {}

TypeInv ==
    /\ size \in Sizes /\ fanout \in Fanouts
    /\ {i, processesOnLevel, remaining, curr_fanout, start, counter} \subseteq Nat
    /\ done \in BOOLEAN /\ pc \in {"level", "parents", "stop"}
    /\ childPeers \in [Ids -> SUBSET Ids]
    /\ parentPeer \in [Ids -> Ids \cup {NoParent}]

(* Between two levels the parents of the next one are those that have been *)
(* given a parent and not been given children.                             *)
LevelInv ==
    /\ processesOnLevel # 0 /\ i + processesOnLevel <= size
    /\ processesOnLevel = 1 => i = 0

(* Within a level the parents before i have curr_fanout children each.     *)
ParentsInv ==
    /\ processesOnLevel # 0 /\ counter \in 1..(processesOnLevel + 1)
    /\ i = size - remaining + (counter - 1)
    /\ start = size - remaining + processesOnLevel + (counter - 1) * curr_fanout
    /\ start <= size
    /\ remaining >= processesOnLevel
    /\ curr_fanout = FanoutOn(remaining)
    /\ processesOnLevel = 1 => remaining = size

(* The first replica that has no parent yet.                               *)
Frontier ==
    IF done THEN size ELSE IF pc = "level" THEN i + processesOnLevel ELSE start

(* The tree on the replicas below n.                                       *)
TreeBelow(n) ==
    /\ \A c \in 1..(n - 1) : /\ parentPeer[c] \in 0..(c - 1)
                             /\ c \in childPeers[parentPeer[c]]
    /\ \A c \in Ids \ 1..(n - 1) : parentPeer[c] = NoParent
    /\ \A m \in Ids : \A c \in childPeers[m] : c \in 1..(n - 1) /\ parentPeer[c] = m

(* Who has children, and how many.                                         *)
Peers ==
    \A m \in Ids : /\ m >= i => childPeers[m] = {}
                   /\ Cardinality(childPeers[m]) <= fanout

Inv ==
    /\ TypeInv
    /\ pc = "level" /\ ~ done => LevelInv
    /\ pc = "parents" /\ ~ done => ParentsInv
    /\ pc = "stop" => done
    /\ TreeBelow(Frontier)
    /\ ~ done => Peers
    /\ \A m \in Ids : Cardinality(childPeers[m]) <= fanout
    /\ ~ overrun

-----------------------------------------------------------------------------
(* The ids of every number of replicas are among Ids, and -1 is none.      *)
LEMMA IdFacts ==
    /\ \A n \in Sizes : n \in Nat \ {0} /\ 0..(n - 1) \subseteq Ids
    /\ \A n \in Fanouts : n \in Nat \ {0}
    /\ Ids \subseteq Nat /\ NoParent \notin Nat /\ NoParent \in Int
<1>1. PICK m \in Sizes : \A n \in Sizes : n <= m
  BY ConfigAssumption
<1>2. \A n \in Sizes : n \in Nat \ {0}
  BY ConfigAssumption
<1>3. \A n \in Sizes : m >= n
  BY <1>1, <1>2
<1>4. Max(Sizes) \in Sizes /\ \A n \in Sizes : Max(Sizes) >= n
  BY <1>3 DEF Max
<1> DEFINE M == Max(Sizes)
<1> HIDE DEF M
<1>5. M \in Nat \ {0} /\ \A n \in Sizes : M >= n
  BY <1>2, <1>4 DEF M
<1>6. Ids = 0..(M - 1)
  BY DEF Ids, M
<1>7. ASSUME NEW n \in Sizes PROVE 0..(n - 1) \subseteq Ids
  BY <1>2, <1>5, <1>6
<1> QED BY <1>2, <1>5, <1>6, <1>7, ConfigAssumption DEF NoParent

(* The invariant holds before the loops.                                   *)
LEMMA InitInv ==
    ASSUME Init, TwoAtLeast
    PROVE  Inv
<1>1. TypeInv
  <2>1. size \in Sizes /\ fanout \in Fanouts /\ done \in BOOLEAN
    BY DEF Init
  <2>3. /\ i \in Nat /\ processesOnLevel \in Nat \ {0}
        /\ {remaining, curr_fanout, start, counter} \subseteq Nat
    BY DEF Init
  <2>4. pc \in {"level", "parents", "stop"}
    BY DEF Init
  <2>2. /\ childPeers \in [Ids -> SUBSET Ids]
        /\ parentPeer \in [Ids -> Ids \cup {NoParent}]
    BY DEF Init
  <2> QED BY <2>1, <2>2, <2>3, <2>4 DEF TypeInv
<1>2. size \in Nat \ {0, 1}
  BY <1>1, IdFacts DEF TypeInv, TwoAtLeast
<1>3. LevelInv /\ Frontier = 1
  BY <1>2 DEF LevelInv, Frontier, Init
<1>4. TreeBelow(1)
  <2>1. 1..(1 - 1) = {}
    OBVIOUS
  <2> QED BY <2>1 DEF TreeBelow, Init
<1>5. Peers
  <2>1. Cardinality({}) = 0 /\ fanout \in Nat
    BY <1>1, IdFacts, FS_EmptySet DEF TypeInv
  <2> QED BY <2>1 DEF Peers, Init
<1> QED BY <1>1, <1>3, <1>4, <1>5 DEF Inv, Init, Peers

(* Division, and what the fanout of a level is.                            *)
LEMMA Division ==
    ASSUME NEW a \in Nat, NEW b \in Nat \ {0}
    PROVE  /\ a \div b \in Nat
           /\ (a \div b) * b <= a /\ (a \div b) * b > a - b
           /\ a >= b => a \div b >= 1
<1>1. a \div b \in Int /\ a % b \in 0..(b - 1) /\ a = b * (a \div b) + (a % b)
  OBVIOUS
<1>2. a \div b \in Nat
  OBVIOUS
<1> QED BY <1>1, <1>2

(* The children of a level are among the replicas that remain; where the   *)
(* division and not the fanout limits them, fewer than a level are left.   *)
LEMMA FanoutFacts ==
    ASSUME TypeInv, processesOnLevel # 0, NEW r \in Nat, r >= processesOnLevel
    PROVE  /\ FanoutOn(r) \in Nat \ {0} /\ FanoutOn(r) <= fanout
           /\ FanoutOn(r) * processesOnLevel <= r
           /\ FanoutOn(r) # fanout => FanoutOn(r) * processesOnLevel > r - processesOnLevel
<1> DEFINE q == r \div processesOnLevel
<1>1. processesOnLevel \in Nat \ {0} /\ fanout \in Nat \ {0}
  BY IdFacts DEF TypeInv
<1>2. /\ q \in Nat /\ q >= 1
      /\ q * processesOnLevel <= r /\ q * processesOnLevel > r - processesOnLevel
  BY <1>1, Division
<1>3. FanoutOn(r) = IF q < fanout THEN q ELSE fanout
  BY DEF FanoutOn, Least
<1> HIDE DEF q
<1>4. CASE q < fanout
  BY <1>1, <1>2, <1>3, <1>4
<1>5. CASE ~ (q < fanout)
  <2>1. fanout * processesOnLevel <= q * processesOnLevel
    BY <1>1, <1>2, <1>5
  <2> QED BY <1>1, <1>2, <1>3, <1>5, <2>1
<1> QED BY <1>4, <1>5

(* The head of the outer loop keeps the invariant.                         *)
LEMMA LevelKeeps ==
    ASSUME Inv, Level
    PROVE  Inv'
<1>1. TypeInv /\ size \in Nat \ {0} /\ LevelInv
  BY IdFacts DEF Inv, TypeInv, Level
<1>2. /\ i \in Nat /\ processesOnLevel \in Nat \ {0} /\ fanout \in Nat \ {0}
      /\ size - i \in Nat /\ size - i >= processesOnLevel
      /\ i + processesOnLevel \in Nat
  BY <1>1, IdFacts DEF TypeInv, LevelInv
<1>3. FanoutOn(size - i) \in Nat \ {0}
  BY <1>1, <1>2, FanoutFacts
<1>4. /\ size' = size /\ fanout' = fanout /\ i' = i
      /\ processesOnLevel' = processesOnLevel /\ done' = done /\ ~ done
      /\ remaining' = size - i /\ curr_fanout' = FanoutOn(size - i)
      /\ start' = i + processesOnLevel /\ counter' = 1 /\ pc' = "parents"
      /\ childPeers' = childPeers /\ parentPeer' = parentPeer /\ overrun' = overrun
      /\ pc = "level"
  BY DEF Level, FirstChild, tree
<1>5. TypeInv'
  BY <1>1, <1>2, <1>3, <1>4 DEF TypeInv
<1>6. ParentsInv'
  <2>1. counter' \in 1..(processesOnLevel' + 1)
    BY <1>2, <1>4
  <2>2. i' = size' - remaining' + (counter' - 1)
    BY <1>1, <1>2, <1>4
  <2>3. start' = size' - remaining' + processesOnLevel' + (counter' - 1) * curr_fanout'
    <3>1. (counter' - 1) * curr_fanout' = 0
      BY <1>3, <1>4
    <3> QED BY <1>1, <1>2, <1>4, <3>1
  <2>4. FanoutOn(remaining)' = FanoutOn(size - i)
    BY <1>4 DEF FanoutOn, Least
  <2>5. start' <= size' /\ remaining' >= processesOnLevel'
    BY <1>1, <1>2, <1>4 DEF LevelInv
  <2>6. processesOnLevel' = 1 => remaining' = size'
    BY <1>1, <1>2, <1>4 DEF LevelInv
  <2>7. processesOnLevel' # 0
    BY <1>2, <1>4
  <2> QED BY <1>4, <2>1, <2>2, <2>3, <2>4, <2>5, <2>6, <2>7 DEF ParentsInv
<1>7. Frontier' = Frontier
  BY <1>4 DEF Frontier
<1>8. TreeBelow(Frontier)' /\ Peers'
  BY <1>4, <1>7 DEF Inv, TreeBelow, Peers
<1> QED BY <1>4, <1>5, <1>6, <1>8 DEF Inv

(* The children that i is given.                                           *)
LEMMA NewFacts ==
    ASSUME Inv, TwoAtLeast, Adopt,
           NEW new, new = {j \in start..(start + curr_fanout - 1) : j < size}
    PROVE  /\ new \subseteq start..(size - 1) /\ new \subseteq Ids /\ i \in Ids
           /\ i < start /\ 1 <= start /\ start <= size /\ i + 1 < size
           /\ curr_fanout \in Nat \ {0} /\ curr_fanout <= fanout
           /\ IsFiniteSet(new) /\ Cardinality(new) <= fanout
           /\ start + curr_fanout > size => new = start..(size - 1)
           /\ ~ (start + curr_fanout > size) => new = start..(start + curr_fanout - 1)
<1>1. TypeInv /\ ParentsInv /\ size \in Nat \ {0, 1} /\ counter <= processesOnLevel
  BY IdFacts DEF Inv, TypeInv, Adopt, TwoAtLeast
<1>2. /\ i \in Nat /\ start \in Nat /\ counter \in Nat /\ remaining \in Nat
      /\ curr_fanout \in Nat /\ processesOnLevel \in Nat \ {0} /\ fanout \in Nat \ {0}
  BY <1>1, IdFacts DEF TypeInv, ParentsInv
<1>3. curr_fanout \in Nat \ {0} /\ curr_fanout <= fanout
  BY <1>1, <1>2, FanoutFacts DEF ParentsInv
<1>4. /\ (counter - 1) * curr_fanout >= 0
      /\ counter >= 2 => (counter - 1) * curr_fanout >= 1
  BY <1>1, <1>2, <1>3 DEF ParentsInv
<1>5. i < start /\ 1 <= start /\ start <= size /\ i + 1 < size
  <2> DEFINE m == (counter - 1) * curr_fanout
  <2>1. m \in Int
    BY <1>2
  <2>2. start = size - remaining + processesOnLevel + m
    BY <1>1 DEF ParentsInv
  <2>3. m >= 0 /\ (counter >= 2 => m >= 1)
    BY <1>4
  <2> HIDE DEF m
  <2>4. /\ i = size - remaining + (counter - 1) /\ start <= size
        /\ remaining >= processesOnLevel /\ counter >= 1
        /\ processesOnLevel = 1 => remaining = size
    BY <1>1, <1>2 DEF ParentsInv
  <2>5. i < start /\ start <= size
    BY <1>1, <1>2, <2>1, <2>2, <2>3, <2>4
  <2>6. CASE processesOnLevel = 1
    BY <1>1, <1>2, <2>1, <2>2, <2>3, <2>4, <2>5, <2>6
  <2>7. CASE processesOnLevel >= 2
    BY <1>1, <1>2, <2>1, <2>2, <2>3, <2>4, <2>5, <2>7
  <2> QED BY <1>2, <2>5, <2>6, <2>7
<1>6. 0..(size - 1) \subseteq Ids
  BY <1>1, IdFacts DEF TypeInv
<1>7. new \subseteq start..(size - 1) /\ new \subseteq 0..(size - 1) /\ i \in 0..(size - 1)
  BY <1>1, <1>2, <1>3, <1>5
<1>8. IsFiniteSet(new) /\ Cardinality(new) <= fanout
  <2> DEFINE a == start
             b == start + curr_fanout - 1
  <2>1. a \in Int /\ b \in Int /\ b - a + 1 = curr_fanout /\ a <= b
    BY <1>2, <1>3
  <2>2. IsFiniteSet(a..b) /\ Cardinality(a..b) = IF a > b THEN 0 ELSE b - a + 1
    <3> HIDE DEF a, b
    <3> QED BY <2>1, FS_Interval
  <2>3. Cardinality(a..b) = curr_fanout
    BY <2>1, <2>2
  <2>4. new \subseteq a..b
    OBVIOUS
  <2> HIDE DEF a, b
  <2>5. IsFiniteSet(new) /\ Cardinality(new) <= Cardinality(a..b)
    BY <2>2, <2>4, FS_Subset
  <2>6. Cardinality(new) \in Nat
    BY <2>5, FS_CardinalityType
  <2> QED BY <1>2, <1>3, <2>3, <2>5, <2>6
<1>9. start + curr_fanout > size => new = start..(size - 1)
  BY <1>1, <1>2, <1>3
<1>10. ~ (start + curr_fanout > size) => new = start..(start + curr_fanout - 1)
  BY <1>1, <1>2, <1>3
<1> QED BY <1>3, <1>5, <1>6, <1>7, <1>8, <1>9, <1>10

(* Giving a parent its children keeps the invariant.                       *)
LEMMA AdoptKeeps ==
    ASSUME Inv, TwoAtLeast, Adopt
    PROVE  Inv'
<1> DEFINE new == {j \in start..(start + curr_fanout - 1) : j < size}
<1>1. /\ new \subseteq start..(size - 1) /\ new \subseteq Ids /\ i \in Ids
      /\ i < start /\ 1 <= start /\ start <= size /\ i + 1 < size
      /\ curr_fanout \in Nat \ {0} /\ curr_fanout <= fanout
      /\ IsFiniteSet(new) /\ Cardinality(new) <= fanout
      /\ start + curr_fanout > size => new = start..(size - 1)
      /\ ~ (start + curr_fanout > size) => new = start..(start + curr_fanout - 1)
  BY NewFacts
<1>2. /\ pc = "parents" /\ counter <= processesOnLevel /\ ~ done
      /\ childPeers' = [childPeers EXCEPT ![i] = @ \cup new]
      /\ parentPeer' = [n \in Ids |-> IF n \in new THEN i ELSE parentPeer[n]]
      /\ done' = (start + curr_fanout > size)
      /\ start' = start + curr_fanout /\ i' = i + 1 /\ counter' = counter + 1
      /\ overrun' = (overrun \/ i + 1 >= size)
      /\ size' = size /\ fanout' = fanout /\ processesOnLevel' = processesOnLevel
      /\ remaining' = remaining /\ curr_fanout' = curr_fanout /\ pc' = pc
  BY DEF Adopt
<1> HIDE DEF new
<1>3. /\ TypeInv /\ ParentsInv /\ TreeBelow(start) /\ Peers /\ ~ overrun
      /\ size \in Nat \ {0} /\ fanout \in Nat \ {0}
  BY <1>2, IdFacts DEF Inv, TypeInv, Frontier
<1>4. /\ i \in Nat /\ start \in Nat /\ counter \in Nat /\ remaining \in Nat
      /\ curr_fanout \in Nat /\ processesOnLevel \in Nat \ {0}
      /\ Ids \subseteq Nat /\ NoParent \notin Nat /\ childPeers \in [Ids -> SUBSET Ids]
      /\ childPeers[i] = {}
  <2>1. processesOnLevel # 0
    BY <1>3 DEF ParentsInv
  <2> QED BY <1>1, <1>3, <2>1, IdFacts DEF TypeInv, Peers
<1>5. /\ childPeers' \in [Ids -> SUBSET Ids]
      /\ \A m \in Ids : childPeers'[m] = IF m = i THEN new ELSE childPeers[m]
      /\ \A c \in Ids : parentPeer'[c] = IF c \in new THEN i ELSE parentPeer[c]
      /\ parentPeer' \in [Ids -> Ids \cup {NoParent}]
  <2>1. childPeers' = [childPeers EXCEPT ![i] = new]
    BY <1>2, <1>4
  <2>2. parentPeer \in [Ids -> Ids \cup {NoParent}]
    BY <1>3 DEF TypeInv
  <2>3. /\ childPeers' \in [Ids -> SUBSET Ids]
        /\ \A m \in Ids : childPeers'[m] = IF m = i THEN new ELSE childPeers[m]
    BY <1>1, <1>4, <2>1
  <2>4. \A c \in Ids : parentPeer'[c] = IF c \in new THEN i ELSE parentPeer[c]
    BY <1>2
  <2>5. parentPeer' \in [Ids -> Ids \cup {NoParent}]
    BY <1>1, <1>2, <2>2
  <2> QED BY <2>3, <2>4, <2>5
<1>13. done' \in BOOLEAN /\ (done' <=> start + curr_fanout > size)
  <2> DEFINE over == start + curr_fanout > size
  <2>1. over \in BOOLEAN
    BY <1>3, <1>4
  <2>2. done' = over
    BY <1>2
  <2> HIDE DEF over
  <2>3. done' \in BOOLEAN /\ (done' <=> over)
    BY <2>1, <2>2, Zenon
  <2> QED BY <2>3 DEF over
<1>6. TypeInv'
  <2>1. start' \in Nat /\ i' \in Nat /\ counter' \in Nat
    BY <1>2, <1>4
  <2> QED BY <1>2, <1>3, <1>5, <1>13, <2>1 DEF TypeInv
<1>7. ~ done' => ParentsInv'
  <2>1. start' <= size' \/ done'
    BY <1>2, <1>3, <1>4, <1>13
  <2>2. counter' \in 1..(processesOnLevel' + 1)
    BY <1>2, <1>3, <1>4 DEF ParentsInv
  <2>3. i' = size' - remaining' + (counter' - 1)
    BY <1>2, <1>3, <1>4 DEF ParentsInv
  <2>4. start' = size' - remaining' + processesOnLevel' + (counter' - 1) * curr_fanout'
    <3>1. counter * curr_fanout = (counter - 1) * curr_fanout + curr_fanout
      <4> DEFINE n == counter - 1
      <4>1. n \in Int /\ counter = n + 1
        BY <1>4
      <4> HIDE DEF n
      <4>2. (n + 1) * curr_fanout = n * curr_fanout + curr_fanout
        BY <1>4, <4>1
      <4> QED BY <4>1, <4>2 DEF n
    <3> DEFINE m == (counter - 1) * curr_fanout
    <3>2. m \in Int /\ start = size - remaining + processesOnLevel + m
      BY <1>3, <1>4 DEF ParentsInv
    <3>3. (counter' - 1) * curr_fanout' = m + curr_fanout
      <4>1. counter' - 1 = counter /\ curr_fanout' = curr_fanout
        BY <1>2, <1>4
      <4>2. (counter' - 1) * curr_fanout' = counter * curr_fanout
        BY <4>1, Zenon
      <4> QED BY <3>1, <4>2
    <3> HIDE DEF m
    <3> QED BY <1>2, <1>3, <1>4, <3>2, <3>3
  <2>5. FanoutOn(remaining)' = FanoutOn(remaining)
    BY <1>2 DEF FanoutOn, Least
  <2>6. /\ remaining' >= processesOnLevel' /\ curr_fanout' = FanoutOn(remaining)
        /\ processesOnLevel' = 1 => remaining' = size'
    BY <1>2, <1>3 DEF ParentsInv
  <2>7. processesOnLevel' # 0
    BY <1>2, <1>4
  <2> QED BY <2>1, <2>2, <2>3, <2>4, <2>5, <2>6, <2>7 DEF ParentsInv
<1>8. /\ Frontier' \in Nat /\ new = start..(Frontier' - 1) /\ start <= Frontier'
      /\ 1..(Frontier' - 1) = 1..(start - 1) \cup new
  <2>1. CASE start + curr_fanout > size
    <3>1. Frontier' = size
      BY <1>2, <2>1 DEF Frontier
    <3> QED BY <1>1, <1>3, <1>4, <2>1, <3>1
  <2>2. CASE ~ (start + curr_fanout > size)
    <3>1. Frontier' = start + curr_fanout
      BY <1>2, <2>2 DEF Frontier
    <3> QED BY <1>1, <1>3, <1>4, <2>2, <3>1
  <2> QED BY <2>1, <2>2
<1>9. TreeBelow(Frontier)'
  <2> DEFINE N == Frontier'
  <2>1. /\ N \in Nat /\ new = start..(N - 1)
        /\ 1..(N - 1) = 1..(start - 1) \cup new
    BY <1>8
  <2> HIDE DEF N
  <2>2. \A c \in new : c \in Ids /\ c \notin 1..(start - 1) /\ i \in 0..(c - 1)
    BY <1>1, <1>4, <2>1
  <2>3. 1..(start - 1) \subseteq Ids
    <3>1. 0..(size - 1) \subseteq Ids
      BY <1>3, IdFacts DEF TypeInv
    <3> QED BY <1>1, <1>3, <1>4, <3>1
  <2>4. ASSUME NEW c \in 1..(N - 1)
        PROVE  parentPeer'[c] \in 0..(c - 1) /\ c \in childPeers'[parentPeer'[c]]
    <3>1. CASE c \in new
      BY <1>1, <1>5, <2>2, <3>1
    <3>2. CASE c \notin new
      <4>1. c \in 1..(start - 1) /\ c \in Ids /\ parentPeer'[c] = parentPeer[c]
        BY <1>5, <2>1, <2>3, <3>2
      <4>2. parentPeer[c] \in 0..(c - 1) /\ c \in childPeers[parentPeer[c]]
        BY <1>3, <4>1 DEF TreeBelow
      <4>3. parentPeer[c] \in Ids
        <5>1. 0..(size - 1) \subseteq Ids
          BY <1>3, IdFacts DEF TypeInv
        <5> QED BY <1>1, <1>3, <1>4, <4>1, <4>2, <5>1
      <4>4. parentPeer[c] # i
        BY <1>4, <4>2
      <4> QED BY <1>5, <4>1, <4>2, <4>3, <4>4
    <3> QED BY <3>1, <3>2
  <2>5. ASSUME NEW c \in Ids \ 1..(N - 1)
        PROVE  parentPeer'[c] = NoParent
    BY <1>3, <1>5, <2>1 DEF TreeBelow
  <2>6. ASSUME NEW m \in Ids, NEW c \in childPeers'[m]
        PROVE  c \in 1..(N - 1) /\ parentPeer'[c] = m
    <3>1. CASE m = i
      BY <1>1, <1>5, <2>1, <3>1
    <3>2. CASE m # i
      <4>1. c \in childPeers[m]
        BY <1>5, <3>2
      <4>2. c \in 1..(start - 1) /\ parentPeer[c] = m
        BY <1>3, <4>1 DEF TreeBelow
      <4> QED BY <1>5, <2>1, <2>2, <2>3, <4>2
    <3> QED BY <3>1, <3>2
  <2> QED BY <2>4, <2>5, <2>6 DEF TreeBelow, N
<1>10. \A m \in Ids : Cardinality(childPeers'[m]) <= fanout'
  BY <1>1, <1>2, <1>3, <1>5 DEF Peers
<1>11. Peers'
  <2>1. ASSUME NEW m \in Ids, m >= i' PROVE childPeers'[m] = {}
    <3>1. m # i /\ m >= i
      BY <1>2, <1>4, <2>1
    <3> QED BY <1>3, <1>5, <3>1 DEF Peers
  <2> QED BY <1>10, <2>1 DEF Peers
<1>12. ~ overrun'
  <2>1. ~ (i + 1 >= size)
    BY <1>1, <1>3, <1>4
  <2> QED BY <1>2, <1>3, <2>1, Zenon
<1> QED BY <1>2, <1>6, <1>7, <1>9, <1>10, <1>11, <1>12 DEF Inv

(* A level that does not end the loops has given each of its parents       *)
(* fanout children.                                                        *)
LEMMA FullLevel ==
    ASSUME Inv, TwoAtLeast, EndLevel, ~ done
    PROVE  /\ processesOnLevel' = fanout * processesOnLevel
           /\ fanout * processesOnLevel \in Nat /\ fanout * processesOnLevel >= 2
           /\ i = size - remaining + processesOnLevel
           /\ i + fanout * processesOnLevel = start /\ start <= size
<1> DEFINE all == curr_fanout * processesOnLevel
<1>1. /\ pc = "parents" /\ (counter > processesOnLevel \/ done)
      /\ processesOnLevel' = Least(all, remaining)
  BY DEF EndLevel
<1>2. /\ TypeInv /\ size \in Nat \ {0, 1} /\ fanout \in Nat \ {0, 1}
      /\ i \in Nat /\ start \in Nat /\ counter \in Nat /\ remaining \in Nat
      /\ curr_fanout \in Nat /\ processesOnLevel \in Nat
  BY IdFacts DEF Inv, TypeInv, TwoAtLeast
<1>3. ParentsInv /\ processesOnLevel # 0 /\ counter = processesOnLevel + 1
  BY <1>1, <1>2 DEF Inv, ParentsInv
<1>4. /\ curr_fanout \in Nat \ {0} /\ all <= remaining
      /\ curr_fanout # fanout => all > remaining - processesOnLevel
  BY <1>2, <1>3, FanoutFacts DEF ParentsInv
<1>5. all \in Nat /\ processesOnLevel * curr_fanout = all
  BY <1>2
<1>6. start = size - remaining + processesOnLevel + all
  <2>1. counter - 1 = processesOnLevel
    BY <1>2, <1>3
  <2>2. (counter - 1) * curr_fanout = all
    BY <1>5, <2>1
  <2> HIDE DEF all
  <2> QED BY <1>3, <2>2 DEF ParentsInv
<1>7. curr_fanout = fanout
  <2> HIDE DEF all
  <2>1. start <= size
    BY <1>3 DEF ParentsInv
  <2> QED BY <1>2, <1>4, <1>5, <1>6, <2>1
<1>8. all >= 2 /\ all = fanout * processesOnLevel
  BY <1>2, <1>3, <1>7
<1> HIDE DEF all
<1>9. processesOnLevel' = all
  BY <1>1, <1>2, <1>4, <1>5 DEF Least
<1>10. /\ i = size - remaining + processesOnLevel
       /\ i + all = start /\ start <= size
  BY <1>2, <1>3, <1>5, <1>6 DEF ParentsInv
<1> QED BY <1>5, <1>8, <1>9, <1>10

(* Going to the next level keeps the invariant: it has all its parents.    *)
LEMMA EndLevelKeeps ==
    ASSUME Inv, TwoAtLeast, EndLevel
    PROVE  Inv'
<1> DEFINE all == curr_fanout * processesOnLevel
<1>1. /\ pc = "parents" /\ (counter > processesOnLevel \/ done)
      /\ processesOnLevel' = Least(all, remaining) /\ pc' = "level"
      /\ size' = size /\ fanout' = fanout /\ i' = i /\ remaining' = remaining
      /\ curr_fanout' = curr_fanout /\ start' = start /\ counter' = counter
      /\ done' = done /\ childPeers' = childPeers /\ parentPeer' = parentPeer
      /\ overrun' = overrun
  BY DEF EndLevel, tree
<1>2. /\ TypeInv /\ size \in Nat \ {0, 1} /\ fanout \in Nat \ {0, 1}
      /\ i \in Nat /\ start \in Nat /\ counter \in Nat /\ remaining \in Nat
      /\ curr_fanout \in Nat /\ processesOnLevel \in Nat
  BY IdFacts DEF Inv, TypeInv, TwoAtLeast
<1>3. CASE done
  <2>1. processesOnLevel' \in Nat
    <3>1. all \in Nat
      BY <1>2
    <3> HIDE DEF all
    <3> QED BY <1>1, <1>2, <3>1 DEF Least
  <2>2. Frontier' = Frontier
    BY <1>1, <1>3 DEF Frontier
  <2>3. TreeBelow(Frontier)'
    BY <1>1, <2>2 DEF Inv, TreeBelow
  <2>4. TypeInv'
    BY <1>1, <1>2, <2>1 DEF TypeInv
  <2> QED BY <1>1, <1>3, <2>3, <2>4 DEF Inv
<1>4. CASE ~ done
  <2> DEFINE many == fanout * processesOnLevel
  <2>1. /\ processesOnLevel' = many /\ many \in Nat /\ many >= 2
        /\ i + many = start /\ start <= size
    BY <1>4, FullLevel
  <2> HIDE DEF many
  <2>2. LevelInv'
    BY <1>1, <1>2, <2>1 DEF LevelInv
  <2>3. Frontier' = Frontier
    BY <1>1, <1>4, <2>1 DEF Frontier
  <2>4. TreeBelow(Frontier)' /\ Peers'
    BY <1>1, <1>4, <2>3 DEF Inv, TreeBelow, Peers
  <2>5. TypeInv'
    BY <1>1, <1>2, <2>1 DEF TypeInv
  <2> QED BY <1>1, <2>2, <2>4, <2>5 DEF Inv
<1> QED BY <1>3, <1>4

(* The loops end only when every replica has a parent.                     *)
LEMMA StopKeeps ==
    ASSUME Inv, Stop
    PROVE  Inv'
<1>1. /\ pc = "level" /\ (i >= size \/ done) /\ pc' = "stop"
      /\ size' = size /\ fanout' = fanout /\ i' = i /\ remaining' = remaining
      /\ processesOnLevel' = processesOnLevel
      /\ curr_fanout' = curr_fanout /\ start' = start /\ counter' = counter
      /\ done' = done /\ childPeers' = childPeers /\ parentPeer' = parentPeer
      /\ overrun' = overrun
  BY DEF Stop, tree
<1>2. done
  <2>1. size \in Nat /\ i \in Nat /\ processesOnLevel \in Nat
    BY IdFacts DEF Inv, TypeInv
  <2> QED BY <1>1, <2>1 DEF Inv, LevelInv
<1>3. TypeInv'
  BY <1>1 DEF Inv, TypeInv
<1>4. TreeBelow(Frontier)'
  BY <1>1, <1>2 DEF Inv, TreeBelow, Frontier
<1> QED BY <1>1, <1>2, <1>3, <1>4 DEF Inv

(* Every step of the loops keeps the invariant.                            *)
LEMMA NextKeeps ==
    ASSUME Inv, TwoAtLeast, [Next]_vars
    PROVE  Inv'
<1>1. CASE UNCHANGED vars
  <2>1. /\ size' = size /\ fanout' = fanout /\ i' = i /\ remaining' = remaining
        /\ processesOnLevel' = processesOnLevel
        /\ curr_fanout' = curr_fanout /\ start' = start /\ counter' = counter
        /\ done' = done /\ childPeers' = childPeers /\ parentPeer' = parentPeer
        /\ overrun' = overrun /\ pc' = pc
    BY <1>1 DEF vars, loop, tree
  <2>2. TypeInv' /\ (LevelInv => LevelInv')
    BY <2>1 DEF Inv, TypeInv, LevelInv
  <2>3. ParentsInv => ParentsInv'
    BY <2>1 DEF ParentsInv, FanoutOn, Least
  <2>4. TreeBelow(Frontier)' /\ (Peers => Peers')
    BY <2>1 DEF Inv, TreeBelow, Frontier, Peers
  <2> QED BY <2>1, <2>2, <2>3, <2>4 DEF Inv
<1> QED BY <1>1, LevelKeeps, AdoptKeeps, EndLevelKeeps, StopKeeps DEF Next

(* The invariant of the loops of start holds throughout, for every number  *)
(* of replicas and every fanout from 2 on.                                 *)
THEOREM LayoutInvariance ==
    ASSUME TwoAtLeast
    PROVE  Spec => []Inv
<1>1. Init => Inv
  BY InitInv
<1>2. Inv /\ [Next]_vars => Inv'
  BY NextKeeps
<1> QED BY <1>1, <1>2, PTL DEF Spec

-----------------------------------------------------------------------------
(* The loops of start never read beyond the list of replicas, whatever the *)
(* number of replicas and the fanout, if both are at least 2.              *)
THEOREM NeverOverruns ==
    ASSUME TwoAtLeast
    PROVE  Spec => []InRange
<1>1. Inv => InRange
  BY DEF Inv, InRange
<1> QED BY <1>1, LayoutInvariance, PTL

(* One more generation below the replicas of S.                            *)
Grow(S) == S \cup UNION {childPeers[c] : c \in S}

(* The descendants of n are computed generation by generation.             *)
LEMMA DescendantsRun ==
    ASSUME TypeInv, TreeBelow(size), NEW n \in Ids
    PROVE  \E b : /\ b[0] = childPeers[n]
                  /\ \A k \in 1..size : b[k] = Grow(b[k - 1])
                  /\ \A k \in 0..size : b[k] \in SUBSET (1..(size - 1))
                  /\ Descendants(n) = b[size]
<1> DEFINE R == 1..(size - 1)
           B == [k \in 0..size |-> SUBSET R]
           F == [k \in 1..size |-> [S \in SUBSET R |-> Grow(S)]]
           Loop(g) == [k \in 0..size |-> IF k = 0 THEN childPeers[n]
                         ELSE g[k - 1] \cup UNION {childPeers[c] : c \in g[k - 1]}]
           below == CHOOSE g : g = Loop(g)
<1>1. size \in Nat \ {0} /\ R \subseteq Ids
  <2>1. size \in Nat \ {0} /\ 0..(size - 1) \subseteq Ids
    BY IdFacts DEF TypeInv
  <2> QED BY <2>1
<1>2. \A m \in Ids : childPeers[m] \subseteq R
  BY DEF TreeBelow
<1>3. \A S \in SUBSET R : Grow(S) \in SUBSET R
  BY <1>1, <1>2 DEF Grow
<1>4. ASSUME NEW g, g[0] = childPeers[n],
             \A k \in 1..size : g[k - 1] \in SUBSET R => g[k] = Grow(g[k - 1])
      PROVE  \A k \in 0..size : g[k] \in SUBSET R
  <2>1. g[0] \in B[0]
    BY <1>1, <1>2, <1>4
  <2>2. \A k \in 1..size : g[k - 1] \in B[k - 1] => g[k] \in B[k]
    <3>1. \A k \in 1..size : k - 1 \in 0..size /\ k \in 0..size
      BY <1>1
    <3> HIDE DEF R
    <3> QED BY <1>3, <1>4, <3>1
  <2>3. \A k \in 0..size : g[k] \in B[k]
    <3> HIDE DEF B
    <3> QED BY <1>1, <2>1, <2>2, RunStays
  <2> QED BY <2>3
<1>5. \E g : g = Loop(g)
  <2>1. PICK g : IsRun(g, size, childPeers[n], F)
    BY <1>1, RunExists
  <2>2. \A k \in 1..size : g[k - 1] \in SUBSET R => g[k] = Grow(g[k - 1])
    <3> HIDE DEF R
    <3> QED BY <2>1 DEF IsRun
  <2>3. \A k \in 0..size : g[k] \in SUBSET R
    <3> HIDE DEF R
    <3> QED BY <1>4, <2>1, <2>2 DEF IsRun
  <2>4. \A k \in 0..size : g[k] = Loop(g)[k]
    <3>1. g[0] = Loop(g)[0]
      BY <1>1, <2>1 DEF IsRun
    <3>2. ASSUME NEW k \in 1..size PROVE g[k] = Loop(g)[k]
      <4>1. k - 1 \in 0..size /\ k \in 0..size /\ k # 0
        BY <1>1
      <4>2. g[k] = Grow(g[k - 1])
        BY <2>2, <2>3, <4>1
      <4> QED BY <4>1, <4>2 DEF Grow
    <3> HIDE DEF Loop
    <3> QED BY <1>1, <3>1, <3>2
  <2>5. g = [k \in 0..size |-> g[k]]
    BY <2>1 DEF IsRun
  <2>6. g = Loop(g)
    BY <2>4, <2>5
  <2> QED BY <2>6
<1>6. below = Loop(below)
  <2> HIDE DEF Loop
  <2> QED BY <1>5
<1>7. Descendants(n) = below[size]
  BY DEF Descendants
<1> HIDE DEF below
<1>8. below[0] = childPeers[n]
  BY <1>1, <1>6
<1>9. ASSUME NEW k \in 1..size PROVE below[k] = Grow(below[k - 1])
  <2>1. k \in 0..size /\ k # 0
    BY <1>1
  <2> QED BY <1>6, <2>1 DEF Grow
<1>10. \A k \in 0..size : below[k] \in SUBSET R
  <2> HIDE DEF R
  <2> QED BY <1>4, <1>8, <1>9
<1> QED BY <1>7, <1>8, <1>9, <1>10

(* When every replica but 0 has a parent before it, and is among the       *)
(* children of that, everyone hangs below 0.                               *)
LEMMA EveryoneBelow ==
    ASSUME TypeInv, TreeBelow(size)
    PROVE  Descendants(0) = Replicas \ {0}
<1> DEFINE R == 1..(size - 1)
           B == [k \in 0..size |-> {S \in SUBSET R : /\ childPeers[0] \subseteq S
                                                    /\ {c \in R : c <= k} \subseteq S}]
<1>1. size \in Nat \ {0} /\ 0 \in Ids /\ R = Replicas \ {0}
  <2>1. size \in Nat \ {0} /\ 0..(size - 1) \subseteq Ids
    BY IdFacts DEF TypeInv
  <2> QED BY <2>1 DEF Replicas
<1>2. PICK b : /\ b[0] = childPeers[0]
               /\ \A k \in 1..size : b[k] = Grow(b[k - 1])
               /\ \A k \in 0..size : b[k] \in SUBSET R
               /\ Descendants(0) = b[size]
  BY <1>1, DescendantsRun
<1>3. b[0] \in B[0]
  <2>1. {c \in R : c <= 0} = {} /\ 0 \in 0..size
    BY <1>1
  <2> QED BY <1>2, <2>1
<1>4. ASSUME NEW k \in 1..size, b[k - 1] \in B[k - 1]
      PROVE  b[k] \in B[k]
  <2>1. k - 1 \in 0..size /\ k \in 0..size
    BY <1>1
  <2>2. childPeers[0] \subseteq b[k - 1] /\ {c \in R : c <= k - 1} \subseteq b[k - 1]
    BY <1>4, <2>1
  <2>3. b[k] = Grow(b[k - 1]) /\ b[k] \in SUBSET R /\ b[k - 1] \subseteq b[k]
    BY <1>2, <2>1 DEF Grow
  <2>4. ASSUME NEW c \in R, c <= k PROVE c \in b[k]
    <3>1. parentPeer[c] \in 0..(c - 1) /\ c \in childPeers[parentPeer[c]]
      BY DEF TreeBelow
    <3>2. CASE parentPeer[c] = 0
      BY <2>2, <2>3, <3>1, <3>2
    <3>3. CASE parentPeer[c] # 0
      <4>1. parentPeer[c] \in R /\ parentPeer[c] <= k - 1
        BY <1>1, <2>4, <3>1, <3>3
      <4>2. parentPeer[c] \in b[k - 1]
        BY <2>2, <4>1
      <4> QED BY <2>3, <3>1, <4>2 DEF Grow
    <3> QED BY <3>2, <3>3
  <2> HIDE DEF R
  <2> QED BY <2>1, <2>2, <2>3, <2>4
<1>5. b[size] \in B[size]
  <2>1. \A k \in 0..size : b[k] \in B[k]
    <3> HIDE DEF B
    <3> QED BY <1>1, <1>3, <1>4, RunStays
  <2> HIDE DEF B
  <2> QED BY <1>1, <2>1
<1>6. \A c \in R : c <= size
  BY <1>1
<1>7. size \in 0..size
  BY <1>1
<1> HIDE DEF R
<1> QED BY <1>1, <1>2, <1>5, <1>6, <1>7

(* The loops of start lay a tree over all replicas, whatever their number  *)
(* and the fanout, if both are at least 2: everyone but 0 has one parent   *)
(* that knows it as a child and hangs below 0, and nobody has more         *)
(* children than the fanout.                                               *)
THEOREM LayoutSpans ==
    ASSUME TwoAtLeast
    PROVE  Spec => []Spanning
<1>1. Inv => Spanning
  <2> SUFFICES ASSUME Inv, pc = "stop" PROVE
         /\ Descendants(0) = Replicas \ {0}
         /\ \A n \in Replicas, c \in Replicas :
               c \in childPeers[n] <=> parentPeer[c] = n
         /\ parentPeer[0] = NoParent
         /\ \A n \in Replicas : Cardinality(childPeers[n]) <= fanout
    BY DEF Spanning
  <2>1. TypeInv /\ TreeBelow(size) /\ \A m \in Ids : Cardinality(childPeers[m]) <= fanout
    BY DEF Inv, Frontier
  <2>2. size \in Nat \ {0} /\ Replicas \subseteq Ids /\ 0 \in Ids /\ 0 \notin 1..(size - 1)
    <3>1. size \in Nat \ {0} /\ 0..(size - 1) \subseteq Ids
      BY <2>1, IdFacts DEF TypeInv
    <3> QED BY <3>1 DEF Replicas
  <2>3. Descendants(0) = Replicas \ {0}
    BY <2>1, EveryoneBelow
  <2>4. ASSUME NEW n \in Replicas, NEW c \in Replicas
        PROVE  c \in childPeers[n] <=> parentPeer[c] = n
    <3>1. n \in Ids /\ c \in Ids /\ n \in Nat /\ n # NoParent
      BY <2>2, IdFacts DEF Replicas
    <3>2. ASSUME c \in childPeers[n] PROVE parentPeer[c] = n
      BY <2>1, <3>1, <3>2 DEF TreeBelow
    <3>3. ASSUME parentPeer[c] = n PROVE c \in childPeers[n]
      BY <2>1, <3>1, <3>3 DEF TreeBelow
    <3> QED BY <3>2, <3>3
  <2>5. parentPeer[0] = NoParent
    BY <2>1, <2>2 DEF TreeBelow
  <2> QED BY <2>1, <2>2, <2>3, <2>4, <2>5
<1> QED BY <1>1, LayoutInvariance, PTL

-----------------------------------------------------------------------------
(* The first replica two and three levels below 0.                         *)
Level2 == 1 + fanout
Level3 == Level2 + fanout * fanout

(* The parents of a level are n replicas from m on.                        *)
LevelAt(m, n) ==
    \/ m = 0 /\ n = 1
    \/ m = 1 /\ n = fanout
    \/ m = Level2 /\ n = fanout * fanout
    \/ m >= Level3 /\ m + n >= Level4

(* A replica is one level below its parent.                                *)
OneLevelDown(m, c) ==
    /\ m >= 1 <=> c >= Level2
    /\ m >= Level2 <=> c >= Level3
    /\ m >= Level3 <=> c >= Level4

LevelsInv ==
    /\ pc = "level" /\ ~ done => LevelAt(i, processesOnLevel)
    /\ pc = "parents" /\ ~ done => LevelAt(size - remaining, processesOnLevel)
    /\ \A m \in Ids : \A c \in childPeers[m] : OneLevelDown(m, c)

(* A replica counts its children and theirs.                               *)
CountInv ==
    /\ children \in [Ids -> SUBSET Ids]
    /\ \A n \in Ids : children[n] = Grow(childPeers[n])

(* Where the children of a level end and those of the next one start.      *)
LEMMA LevelFacts ==
    ASSUME TypeInv, NEW m \in Int, NEW n \in Nat, LevelAt(m, n)
    PROVE  /\ m \in Nat
           /\ LevelAt(m + n, fanout * n)
           /\ \A a \in m..(m + n - 1) : \A c \in (m + n)..(m + n + fanout * n - 1) :
                 OneLevelDown(a, c)
<1> DEFINE s == fanout * fanout
           t == fanout * s
<1>1. fanout \in Nat \ {0} /\ s \in Nat \ {0}
  <2>1. fanout \in Nat \ {0}
    BY IdFacts DEF TypeInv
  <2> QED BY <2>1
<1>2. t \in Nat \ {0}
  <2> HIDE DEF s
  <2> QED BY <1>1
<1>3. /\ Level2 = 1 + fanout /\ Level3 = 1 + fanout + s
      /\ Level4 = 1 + fanout + s + t
  BY DEF Level2, Level3, Level4
<1>4. \/ m = 0 /\ n = 1 /\ fanout * n = fanout
      \/ m = 1 /\ n = fanout /\ fanout * n = s
      \/ m = Level2 /\ n = s /\ fanout * n = t
      \/ m >= Level3 /\ m + n >= Level4 /\ fanout * n >= 0
  <2>1. fanout * n >= 0
    BY <1>1
  <2>2. n = 1 => fanout * n = fanout
    BY <1>1
  <2> QED BY <2>1, <2>2 DEF LevelAt
<1>5. fanout * n \in Nat
  BY <1>1
<1> DEFINE d == fanout * n
<1>6. /\ d \in Nat
      /\ \/ m = 0 /\ n = 1 /\ d = fanout
         \/ m = 1 /\ n = fanout /\ d = s
         \/ m = Level2 /\ n = s /\ d = t
         \/ m >= Level3 /\ m + n >= Level4 /\ d >= 0
  BY <1>4, <1>5
<1> HIDE DEF d, s, t
<1>7. \/ m + n = 1 /\ d = fanout
      \/ m + n = Level2 /\ d = s
      \/ m + n >= Level3 /\ m + n + d >= Level4
  BY <1>1, <1>2, <1>3, <1>6
<1>8. LevelAt(m + n, d)
  BY <1>7 DEF LevelAt, s
<1>9. ASSUME NEW a \in m..(m + n - 1), NEW c \in (m + n)..(m + n + d - 1)
      PROVE  OneLevelDown(a, c)
  BY <1>1, <1>2, <1>3, <1>6 DEF OneLevelDown
<1>10. m \in Nat
  BY <1>1, <1>2, <1>3, <1>6
<1> QED BY <1>8, <1>9, <1>10 DEF d

(* Giving a parent its children keeps both.                                *)
LEMMA AdoptCounts ==
    ASSUME Inv, TwoAtLeast, Adopt, LevelsInv, CountInv
    PROVE  LevelsInv' /\ CountInv'
<1> DEFINE new == {j \in start..(start + curr_fanout - 1) : j < size}
<1>1. /\ new \subseteq start..(size - 1) /\ new \subseteq Ids /\ i \in Ids
      /\ i < start /\ curr_fanout \in Nat \ {0} /\ curr_fanout <= fanout
  BY NewFacts
<1>2. /\ pc = "parents" /\ counter <= processesOnLevel /\ ~ done
      /\ childPeers' = [childPeers EXCEPT ![i] = @ \cup new]
      /\ children' = [n \in Ids |-> children[n] \cup Adopted(n, new)]
      /\ size' = size /\ fanout' = fanout /\ processesOnLevel' = processesOnLevel
      /\ remaining' = remaining /\ pc' = pc
  BY DEF Adopt
<1>3. \A c \in new : c \in start..(start + curr_fanout - 1)
  OBVIOUS
<1> HIDE DEF new
<1>4. /\ TypeInv /\ ParentsInv /\ Peers /\ childPeers \in [Ids -> SUBSET Ids]
      /\ i \in Nat /\ start \in Nat /\ counter \in Nat /\ remaining \in Nat
      /\ processesOnLevel \in Nat /\ fanout \in Nat \ {0} /\ Ids \subseteq Nat
      /\ size \in Nat
  BY <1>2, IdFacts DEF Inv, TypeInv
<1>5. childPeers[i] = {} /\ \A c \in new : childPeers[c] = {} /\ c # i
  BY <1>1, <1>4 DEF Peers
<1>6. \A m \in Ids : childPeers'[m] = IF m = i THEN new ELSE childPeers[m]
  BY <1>1, <1>2, <1>4, <1>5
<1>7. LevelAt(size - remaining, processesOnLevel)
  BY <1>2 DEF LevelsInv
<1>8. /\ Level2' = Level2 /\ Level3' = Level3 /\ Level4' = Level4
      /\ \A m, c : OneLevelDown(m, c)' <=> OneLevelDown(m, c)
      /\ LevelAt(size - remaining, processesOnLevel)'
  BY <1>2, <1>7 DEF Level2, Level3, Level4, LevelAt, OneLevelDown
<1>9. ASSUME NEW c \in new PROVE OneLevelDown(i, c)
  <2> DEFINE m == size - remaining
             before == (counter - 1) * curr_fanout
             all == fanout * processesOnLevel
  <2>1. /\ i = m + (counter - 1) /\ start = m + processesOnLevel + before
        /\ counter >= 1 /\ remaining >= processesOnLevel /\ start <= size
    BY <1>4 DEF ParentsInv
  <2>2. before \in Nat /\ before + curr_fanout <= all /\ all \in Nat
    <3>1. before + curr_fanout = counter * curr_fanout
      BY <1>1, <1>4
    <3>2. counter * curr_fanout <= processesOnLevel * curr_fanout
      BY <1>1, <1>2, <1>4
    <3>3. processesOnLevel * curr_fanout <= all
      BY <1>1, <1>4
    <3>4. before \in Nat /\ all \in Nat
      BY <1>1, <1>4, <2>1
    <3>5. counter * curr_fanout \in Nat /\ processesOnLevel * curr_fanout \in Nat
      BY <1>1, <1>4
    <3> HIDE DEF before, all
    <3> QED BY <1>1, <3>1, <3>2, <3>3, <3>4, <3>5
  <2>3. m \in Nat
    BY <1>4, <1>7, LevelFacts
  <2>4. c \in start..(start + curr_fanout - 1)
    BY <1>3
  <2> HIDE DEF before, all
  <2>5. i \in m..(m + processesOnLevel - 1)
    BY <1>2, <1>4, <2>1, <2>3
  <2>6. c \in (m + processesOnLevel)..(m + processesOnLevel + all - 1)
    BY <1>1, <1>4, <2>1, <2>2, <2>3, <2>4
  <2> QED BY <1>4, <1>7, <2>3, <2>5, <2>6, LevelFacts DEF all
<1>10. LevelsInv'
  <2>1. ASSUME NEW m \in Ids, NEW c \in childPeers'[m] PROVE OneLevelDown(m, c)
    BY <1>6, <1>9 DEF LevelsInv
  <2> QED BY <1>2, <1>8, <2>1 DEF LevelsInv
<1>11. CountInv'
  <2>1. children' \in [Ids -> SUBSET Ids]
    BY <1>1, <1>2 DEF CountInv, Adopted
  <2>2. ASSUME NEW n \in Ids PROVE children'[n] = Grow(childPeers[n])'
    <3>1. children[n] = childPeers[n] \cup UNION {childPeers[c] : c \in childPeers[n]}
      BY DEF CountInv, Grow
    <3>2. children'[n] = children[n] \cup Adopted(n, new)
      BY <1>2
    <3>3. Grow(childPeers[n])' = childPeers'[n] \cup UNION {childPeers'[c] : c \in childPeers'[n]}
      BY DEF Grow
    <3>4. CASE n = i
      <4>1. childPeers'[n] = new /\ children[n] = {} /\ Adopted(n, new) = new
        BY <1>5, <1>6, <3>1, <3>4 DEF Adopted
      <4>2. \A c \in new : childPeers'[c] = {}
        BY <1>1, <1>5, <1>6
      <4> QED BY <3>2, <3>3, <4>1, <4>2
    <3>5. CASE n # i
      <4>1. childPeers'[n] = childPeers[n] /\ childPeers[n] \subseteq Ids
        BY <1>4, <1>6, <3>5
      <4>2. \A c \in childPeers[n] : childPeers'[c] = IF c = i THEN new ELSE childPeers[c]
        BY <1>6, <4>1
      <4>3. CASE i \in childPeers[n]
        <5>1. Adopted(n, new) = new
          BY <4>3 DEF Adopted
        <5>2. UNION {childPeers'[c] : c \in childPeers[n]}
                = new \cup UNION {childPeers[c] : c \in childPeers[n]}
          BY <1>5, <4>2, <4>3
        <5> QED BY <3>1, <3>2, <3>3, <4>1, <5>1, <5>2
      <4>4. CASE i \notin childPeers[n]
        <5>1. Adopted(n, new) = {}
          BY <3>5, <4>4 DEF Adopted
        <5>2. \A c \in childPeers[n] : childPeers'[c] = childPeers[c]
          BY <4>2, <4>4
        <5>3. UNION {childPeers'[c] : c \in childPeers[n]} = UNION {childPeers[c] : c \in childPeers[n]}
          BY <5>2
        <5> QED BY <3>1, <3>2, <3>3, <4>1, <5>1, <5>3
      <4> QED BY <4>3, <4>4
    <3> QED BY <3>4, <3>5
  <2> QED BY <2>1, <2>2 DEF CountInv
<1> QED BY <1>10, <1>11

(* Every step keeps both.                                                  *)
LEMMA NextCounts ==
    ASSUME Inv, TwoAtLeast, [Next]_vars, LevelsInv, CountInv
    PROVE  LevelsInv' /\ CountInv'
<1>1. ASSUME childPeers' = childPeers, children' = children, fanout' = fanout
      PROVE  /\ CountInv'
             /\ \A m \in Ids : \A c \in childPeers'[m] : OneLevelDown(m, c)'
             /\ \A m, n : LevelAt(m, n) =>
                    \/ m = 0 /\ n = 1
                    \/ m = 1 /\ n = fanout'
                    \/ m = Level2' /\ n = fanout' * fanout'
                    \/ m >= Level3' /\ m + n >= Level4'
  <2>1. Level2' = Level2 /\ Level3' = Level3 /\ Level4' = Level4
    BY <1>1 DEF Level2, Level3, Level4
  <2>2. CountInv'
    BY <1>1 DEF CountInv, Grow
  <2>3. \A m \in Ids : \A c \in childPeers'[m] : OneLevelDown(m, c)'
    BY <1>1, <2>1 DEF LevelsInv, OneLevelDown
  <2> QED BY <1>1, <2>1, <2>2, <2>3 DEF LevelAt
<1>2. CASE Level
  <2>1. /\ childPeers' = childPeers /\ children' = children /\ fanout' = fanout
        /\ pc = "level" /\ ~ done /\ size' - remaining' = size - (size - i)
        /\ processesOnLevel' = processesOnLevel /\ pc' = "parents"
    BY <1>2 DEF Level, tree
  <2>2. size - (size - i) = i
    BY IdFacts DEF Inv, TypeInv
  <2>3. LevelAt(size - remaining, processesOnLevel)'
    BY <1>1, <2>1, <2>2 DEF LevelsInv, LevelAt
  <2> QED BY <1>1, <2>1, <2>3 DEF LevelsInv
<1>3. CASE EndLevel
  <2>1. /\ childPeers' = childPeers /\ children' = children /\ fanout' = fanout
        /\ pc = "parents" /\ pc' = "level" /\ done' = done /\ i' = i
        /\ (counter > processesOnLevel \/ done)
        /\ processesOnLevel' = Least(curr_fanout * processesOnLevel, remaining)
    BY <1>3 DEF EndLevel, tree
  <2>2. CASE done
    BY <1>1, <2>1, <2>2 DEF LevelsInv
  <2>3. CASE ~ done
    <3>1. i = size - remaining + processesOnLevel /\ processesOnLevel' = fanout * processesOnLevel
      BY <1>3, <2>3, FullLevel
    <3>2. TypeInv /\ size - remaining \in Int /\ processesOnLevel \in Nat
      BY IdFacts DEF Inv, TypeInv
    <3>3. LevelAt(i, fanout * processesOnLevel)
      BY <2>1, <2>3, <3>1, <3>2, LevelFacts DEF LevelsInv
    <3>4. LevelAt(i, processesOnLevel)'
      BY <1>1, <2>1, <3>1, <3>3 DEF LevelAt
    <3> QED BY <1>1, <2>1, <3>4 DEF LevelsInv
  <2> QED BY <2>2, <2>3
<1>4. CASE Stop
  <2>1. /\ childPeers' = childPeers /\ children' = children /\ fanout' = fanout
        /\ pc' = "stop"
    BY <1>4 DEF Stop, tree
  <2> QED BY <1>1, <2>1 DEF LevelsInv
<1>5. CASE UNCHANGED vars
  <2>1. /\ childPeers' = childPeers /\ children' = children /\ fanout' = fanout
        /\ pc' = pc /\ done' = done /\ i' = i /\ size' = size /\ remaining' = remaining
        /\ processesOnLevel' = processesOnLevel
    BY <1>5 DEF vars, loop, tree
  <2> QED BY <1>1, <2>1 DEF LevelsInv, LevelAt
<1> QED BY <1>2, <1>3, <1>4, <1>5, AdoptCounts DEF Next

(* Throughout the loops every replica counts its children and theirs, and  *)
(* is one level below its parent.                                          *)
LEMMA CountsInvariance ==
    ASSUME TwoAtLeast
    PROVE  Spec => [](LevelsInv /\ CountInv)
<1>1. Init => Inv /\ LevelsInv /\ CountInv
  <2> SUFFICES ASSUME Init PROVE Inv /\ LevelsInv /\ CountInv
    OBVIOUS
  <2>1. LevelsInv
    BY DEF Init, LevelsInv, LevelAt
  <2>2. CountInv
    BY DEF Init, CountInv, Grow
  <2> QED BY <2>1, <2>2, InitInv
<1>2. Inv /\ LevelsInv /\ CountInv /\ [Next]_vars => Inv' /\ LevelsInv' /\ CountInv'
  BY NextKeeps, NextCounts
<1> QED BY <1>1, <1>2, PTL DEF Spec

(* The replicas that n counts are all that hang below it unless someone    *)
(* hangs three levels below n.                                             *)
LEMMA CountsUnlessDeeper ==
    ASSUME TypeInv, TreeBelow(size), CountInv, NEW n \in Ids
    PROVE  children[n] = Descendants(n) <=>
              \A c \in childPeers[n] : \A d \in childPeers[c] : childPeers[d] = {}
<1> DEFINE R == 1..(size - 1)
           S == Grow(childPeers[n])
<1>1. size \in Nat \ {0} /\ R \subseteq Ids /\ n \in Nat
  <2>1. size \in Nat \ {0} /\ 0..(size - 1) \subseteq Ids
    BY IdFacts DEF TypeInv
  <2> QED BY <2>1, IdFacts
<1>2. \A m \in Ids : \A c \in childPeers[m] :
         c \in R /\ parentPeer[c] = m /\ parentPeer[c] \in 0..(c - 1) /\ c \in Ids
  BY <1>1 DEF TreeBelow
<1>3. children[n] = S
  BY DEF CountInv
<1>4. PICK b : /\ b[0] = childPeers[n]
               /\ \A k \in 1..size : b[k] = Grow(b[k - 1])
               /\ \A k \in 0..size : b[k] \in SUBSET R
               /\ Descendants(n) = b[size]
  BY DescendantsRun
<1>5. ASSUME \A c \in childPeers[n] : \A d \in childPeers[c] : childPeers[d] = {}
      PROVE  Descendants(n) = S
  <2> DEFINE B == [k \in 0..size |-> IF k = 0 THEN {childPeers[n]} ELSE {S}]
  <2>1. Grow(S) = S
    <3>1. \A d \in S : d \in childPeers[n] \/ childPeers[d] = {}
      BY <1>5 DEF Grow
    <3>2. \A d \in S : childPeers[d] \subseteq S
      BY <3>1 DEF Grow
    <3> HIDE DEF S
    <3> QED BY <3>2 DEF Grow
  <2>2. ASSUME NEW k \in 1..size, b[k - 1] \in B[k - 1] PROVE b[k] \in B[k]
    <3>1. k - 1 \in 0..size /\ k \in 0..size /\ k # 0
      BY <1>1
    <3>2. b[k - 1] \in {childPeers[n], S}
      <4> HIDE DEF S
      <4> QED BY <2>2, <3>1
    <3>3. b[k] = S
      BY <1>4, <2>1, <3>2
    <3> HIDE DEF S
    <3> QED BY <3>1, <3>3
  <2>3. b[0] \in B[0]
    BY <1>1, <1>4
  <2>4. b[size] \in B[size]
    <3>1. size \in 0..size
      BY <1>1
    <3> HIDE DEF B
    <3> QED BY <1>1, <2>2, <2>3, <3>1, RunStays
  <2>5. size \in 0..size /\ size # 0
    BY <1>1
  <2> HIDE DEF S
  <2> QED BY <1>4, <2>4, <2>5
<1>6. ASSUME NEW c \in childPeers[n], NEW d \in childPeers[c], NEW e \in childPeers[d]
      PROVE  e \in Descendants(n) /\ e \notin S
  <2> DEFINE B == [k \in 0..size |-> {T \in SUBSET R : /\ c \in T
                                                       /\ k >= 1 => d \in T
                                                       /\ k >= 2 => e \in T}]
  <2>1. /\ c \in R /\ c \in Ids /\ parentPeer[c] = n /\ parentPeer[c] \in 0..(c - 1)
        /\ d \in R /\ d \in Ids /\ parentPeer[d] = c /\ parentPeer[d] \in 0..(d - 1)
        /\ e \in R /\ parentPeer[e] = d
    BY <1>2
  <2>2. b[0] \in B[0]
    BY <1>1, <1>4
  <2>3. ASSUME NEW k \in 1..size, b[k - 1] \in B[k - 1] PROVE b[k] \in B[k]
    <3>1. k - 1 \in 0..size /\ k \in 0..size
      BY <1>1
    <3>2. c \in b[k - 1] /\ (k - 1 >= 1 => d \in b[k - 1])
      BY <2>3, <3>1
    <3>3. b[k] = b[k - 1] \cup UNION {childPeers[x] : x \in b[k - 1]}
      BY <1>4 DEF Grow
    <3>4. c \in b[k] /\ d \in b[k] /\ (k >= 2 => e \in b[k])
      BY <3>1, <3>2, <3>3
    <3>5. b[k] \in SUBSET R
      BY <1>4, <3>1
    <3> HIDE DEF R
    <3> QED BY <3>1, <3>4, <3>5
  <2>4. b[size] \in B[size]
    <3>1. size \in 0..size
      BY <1>1
    <3> HIDE DEF B
    <3> QED BY <1>1, <2>2, <2>3, <3>1, RunStays
  <2>5. size >= 2 /\ size \in 0..size
    BY <1>1, <2>1
  <2>6. e \in Descendants(n)
    <3> HIDE DEF R
    <3> QED BY <1>4, <2>4, <2>5
  <2>7. d # n /\ c # n
    BY <1>1, <2>1
  <2>8. ASSUME e \in S PROVE FALSE
    <3>1. e \in childPeers[n] \/ \E x \in childPeers[n] : e \in childPeers[x]
      BY <2>8 DEF Grow
    <3> QED BY <1>2, <2>1, <2>7, <3>1
  <2> QED BY <2>6, <2>8
<1> QED BY <1>3, <1>5, <1>6

(* On the tree of the loops somebody hangs three levels below a replica    *)
(* other than 0 just if there is a replica four levels below 0.            *)
LEMMA DeeperIffFifthLevel ==
    ASSUME TypeInv, TreeBelow(size), LevelsInv
    PROVE  (\A n \in Replicas \ {0} : \A c \in childPeers[n] : \A d \in childPeers[c] :
               childPeers[d] = {}) <=> size <= Level4
<1>1. /\ size \in Nat \ {0} /\ 0..(size - 1) \subseteq Ids /\ fanout \in Nat \ {0}
      /\ Ids \subseteq Nat
  BY IdFacts DEF TypeInv
<1>2. Level2 \in Nat /\ Level3 \in Nat /\ Level4 \in Nat /\ 1 < Level2 /\ Level2 < Level3 /\ Level3 < Level4
  <2> DEFINE s == fanout * fanout
             t == fanout * s
  <2>1. s \in Nat \ {0}
    BY <1>1
  <2>2. t \in Nat \ {0}
    <3> HIDE DEF s
    <3> QED BY <1>1, <2>1
  <2>3. /\ Level2 = 1 + fanout /\ Level3 = 1 + fanout + s
        /\ Level4 = 1 + fanout + s + t
    BY DEF Level2, Level3, Level4
  <2> HIDE DEF s, t
  <2> QED BY <1>1, <2>1, <2>2, <2>3
<1>3. \A m \in Ids : \A c \in childPeers[m] :
         c \in 1..(size - 1) /\ parentPeer[c] = m /\ c \in Ids /\ OneLevelDown(m, c)
  BY <1>1 DEF TreeBelow, LevelsInv
<1>4. ASSUME size <= Level4, NEW n \in Replicas \ {0}, NEW c \in childPeers[n],
             NEW d \in childPeers[c], NEW e \in childPeers[d]
      PROVE  FALSE
  <2>1. n \in Ids /\ n >= 1
    BY <1>1 DEF Replicas
  <2>2. c \in Ids /\ OneLevelDown(n, c)
    BY <1>3, <2>1
  <2>3. d \in Ids /\ OneLevelDown(c, d)
    BY <1>3, <2>2
  <2>4. e \in 1..(size - 1) /\ OneLevelDown(d, e)
    BY <1>3, <2>3
  <2>5. c >= Level2
    BY <2>1, <2>2 DEF OneLevelDown
  <2>6. d >= Level3
    BY <2>3, <2>5 DEF OneLevelDown
  <2>7. e >= Level4
    BY <2>4, <2>6 DEF OneLevelDown
  <2> QED BY <1>1, <1>2, <1>4, <2>4, <2>7
<1>5. ASSUME size > Level4
      PROVE  \E n \in Replicas \ {0} : \E c \in childPeers[n] : \E d \in childPeers[c] :
                childPeers[d] # {}
  <2>1. ASSUME NEW c \in 1..(size - 1)
        PROVE  /\ parentPeer[c] \in Ids /\ parentPeer[c] \in 0..(size - 1)
               /\ c \in childPeers[parentPeer[c]] /\ OneLevelDown(parentPeer[c], c)
    <3>1. parentPeer[c] \in 0..(c - 1) /\ c \in childPeers[parentPeer[c]]
      BY DEF TreeBelow
    <3>2. parentPeer[c] \in 0..(size - 1)
      BY <1>1, <3>1
    <3> QED BY <1>1, <1>3, <3>1, <3>2
  <2> DEFINE d == parentPeer[Level4]
             c == parentPeer[d]
             n == parentPeer[c]
  <2>2. Level4 \in 1..(size - 1)
    BY <1>1, <1>2, <1>5
  <2>3. d \in 0..(size - 1) /\ Level4 \in childPeers[d] /\ d >= Level3
    <3>1. Level4 >= Level4
      BY <1>2
    <3> QED BY <2>1, <2>2, <3>1 DEF OneLevelDown
  <2>4. d \in 1..(size - 1)
    <3> HIDE DEF d
    <3> QED BY <1>1, <1>2, <2>3
  <2>5. c \in 0..(size - 1) /\ d \in childPeers[c] /\ c >= Level2
    <3> HIDE DEF d
    <3> QED BY <2>1, <2>3, <2>4 DEF OneLevelDown
  <2>6. c \in 1..(size - 1)
    <3> HIDE DEF c
    <3> QED BY <1>1, <1>2, <2>5
  <2>7. n \in 0..(size - 1) /\ c \in childPeers[n] /\ n >= 1
    <3> HIDE DEF c
    <3> QED BY <2>1, <2>5, <2>6 DEF OneLevelDown
  <2>8. n \in Replicas \ {0}
    <3> HIDE DEF n
    <3> QED BY <1>1, <2>7 DEF Replicas
  <2> HIDE DEF n, c, d
  <2> QED BY <2>3, <2>5, <2>7, <2>8
<1>6. size <= Level4 \/ size > Level4
  BY <1>1, <1>2
<1> QED BY <1>4, <1>5, <1>6

(* numberOfChildren is right for every replica other than 0 if and only if *)
(* the tree has at most four levels, for every number of replicas and      *)
(* every fanout from 2 on. From the fifth level on a replica waits for     *)
(* fewer votes than its subtree has.                                       *)
THEOREM CountsUpToFourLevels ==
    ASSUME TwoAtLeast
    PROVE  Spec => []CountsSubtree
<1>1. Inv /\ LevelsInv /\ CountInv => CountsSubtree
  <2> SUFFICES ASSUME Inv, LevelsInv, CountInv, pc = "stop"
               PROVE  (\A n \in Replicas \ {0} : children[n] = Descendants(n))
                         <=> size <= Level4
    BY DEF CountsSubtree
  <2>1. TypeInv /\ TreeBelow(size)
    BY DEF Inv, Frontier
  <2>2. Replicas \subseteq Ids
    BY <2>1, IdFacts DEF TypeInv, Replicas
  <2>3. \A n \in Replicas \ {0} : children[n] = Descendants(n) <=>
           \A c \in childPeers[n] : \A d \in childPeers[c] : childPeers[d] = {}
    BY <2>1, <2>2, CountsUnlessDeeper
  <2> QED BY <2>1, <2>3, DeeperIffFifthLevel
<1> QED BY <1>1, LayoutInvariance, CountsInvariance, PTL

(* The layout as TreeVotes takes it, and the children of n in it.          *)
Laid == [n \in 1..(size - 1) |-> parentPeer[n]]
LaidBelow(n) == {c \in DOMAIN Laid : Laid[c] = n}

(* What the loops leave is what TreeVotes assumes of its layouts: every    *)
(* parent is 0 or has a parent, and following the parents meets no circle; *)
(* and what a replica counts is numberOfChildren there.                    *)
THEOREM LaidOutForTreeVotes ==
    ASSUME TwoAtLeast
    PROVE  Spec => [](pc = "stop" =>
              /\ \A n \in DOMAIN Laid : Laid[n] \in DOMAIN Laid \cup {0}
              /\ \A S \in SUBSET DOMAIN Laid : S # {} => \E n \in S : Laid[n] \notin S
              /\ \A n \in Replicas : children[n] =
                    LaidBelow(n) \cup UNION {LaidBelow(c) : c \in LaidBelow(n)})
<1>1. ASSUME Inv, CountInv, pc = "stop"
      PROVE  /\ \A n \in DOMAIN Laid : Laid[n] \in DOMAIN Laid \cup {0}
             /\ \A S \in SUBSET DOMAIN Laid : S # {} => \E n \in S : Laid[n] \notin S
             /\ \A n \in Replicas : children[n] =
                   LaidBelow(n) \cup UNION {LaidBelow(c) : c \in LaidBelow(n)}
  <2>1. TypeInv /\ TreeBelow(size)
    BY <1>1 DEF Inv, Frontier
  <2>2. /\ size \in Nat \ {0} /\ Replicas \subseteq Ids /\ Ids \subseteq Nat
        /\ NoParent \notin Nat
    BY <2>1, IdFacts DEF TypeInv, Replicas
  <2>3. ASSUME NEW n \in 1..(size - 1)
        PROVE  Laid[n] = parentPeer[n] /\ Laid[n] \in 0..(n - 1)
    BY <2>1 DEF Laid, TreeBelow
  <2>4. DOMAIN Laid = 1..(size - 1)
    BY DEF Laid
  <2>5. ASSUME NEW n \in DOMAIN Laid PROVE Laid[n] \in DOMAIN Laid \cup {0}
    BY <2>2, <2>3, <2>4
  <2>6. ASSUME NEW S \in SUBSET DOMAIN Laid, S # {} PROVE \E n \in S : Laid[n] \notin S
    <3>1. S \in SUBSET Nat
      BY <2>4
    <3>2. PICK n \in S : \A k \in S : n <= k
      BY <2>6, <3>1, LeastNumber
    <3>3. Laid[n] \in 0..(n - 1) /\ n \in Nat
      BY <2>3, <2>4, <3>1
    <3> QED BY <3>2, <3>3
  <2>7. ASSUME NEW n \in Ids PROVE LaidBelow(n) = childPeers[n]
    <3>1. ASSUME NEW c \in LaidBelow(n) PROVE c \in childPeers[n]
      BY <2>1, <2>3, <2>4 DEF LaidBelow, TreeBelow
    <3>2. ASSUME NEW c \in childPeers[n] PROVE c \in LaidBelow(n)
      BY <2>1, <2>3, <2>4 DEF LaidBelow, TreeBelow
    <3> QED BY <3>1, <3>2
  <2>8. ASSUME NEW n \in Replicas
        PROVE  children[n] = LaidBelow(n) \cup UNION {LaidBelow(c) : c \in LaidBelow(n)}
    <3>1. n \in Ids /\ childPeers[n] \subseteq Ids
      BY <2>1, <2>2 DEF TypeInv
    <3>2. children[n] = childPeers[n] \cup UNION {childPeers[c] : c \in childPeers[n]}
      BY <1>1, <3>1 DEF CountInv, Grow
    <3>3. \A c \in childPeers[n] : LaidBelow(c) = childPeers[c]
      BY <2>7, <3>1
    <3> QED BY <2>7, <3>1, <3>2, <3>3
  <2> QED BY <2>5, <2>6, <2>8
<1>2. Spec => []CountInv
  BY CountsInvariance, PTL
<1> QED BY <1>1, <1>2, LayoutInvariance, PTL

=============================================================================
