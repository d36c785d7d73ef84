------------------------- MODULE HotStuffCoreProofs -------------------------
(***************************************************************************)
(* Proofs about HotStuffCore, for every set of replicas, every nfaulty     *)
(* below half of them and every set of blocks.                             *)
(***************************************************************************)
EXTENDS HotStuffCore, FiniteSetTheorems, WellFoundedInduction, TLAPS

(* What update computes has the right types.                               *)
LEMMA UpdateType ==
    ASSUME TypeOK, NEW r \in Replica, NEW q \in Block
    PROVE  /\ NewHqc(r, q) \in Block
           /\ NewLock(r, q) \in Block
           /\ NewExec(r, q) \in Block
           /\ NewDecided(r, q) \in SUBSET Block
<1>1. NewExec(r, q) \in Block
  BY DEF TypeOK, NewExec
<1>2. NewDecided(r, q) \in SUBSET Block
  BY <1>1 DEF TypeOK, NewDecided
<1>3. NewHqc(r, q) \in Block /\ NewLock(r, q) \in Block
  BY DEF TypeOK, NewHqc, NewLock
<1> QED
  BY <1>1, <1>2, <1>3

(* The tails that the pacemaker chooses from are blocks.                   *)
LEMMA HighTailsType ==
    ASSUME NEW h \in Block, NEW D \in SUBSET Block
    PROVE  HighTails(h, D) \subseteq Block
BY DEF HighTails, Tails

(* Every handler keeps the types of the replicas' fields.                  *)
LEMMA TypeStep == TypeOK /\ [Next]_vars => TypeOK'
<1> SUFFICES ASSUME TypeOK, [Next]_vars
             PROVE  TypeOK'
  OBVIOUS
<1>1. ASSUME NEW r \in Replica, NEW b \in Block, Propose(r, b)
      PROVE  TypeOK'
  <2> DEFINE p == hqc_tail[r]
             q == hqc[r]
  <2>1. p \in Block /\ q \in Block
    BY DEF TypeOK
  <2>2. height[p] + 1 \in Nat
    BY <2>1 DEF TypeOK
  <2> HIDE DEF p, q
  <2>3. /\ blocks' = blocks \cup {b}
        /\ parent' = [parent EXCEPT ![b] = p]
        /\ qc_ref' = [qc_ref EXCEPT ![b] = q]
        /\ height' = [height EXCEPT ![b] = height[p] + 1]
        /\ branch' = [branch EXCEPT ![b] = branch[p] \cup {b}]
        /\ delivered' = [delivered EXCEPT ![r] = @ \cup {b}]
        /\ b_lock' = [b_lock EXCEPT ![r] = NewLock(r, q)]
        /\ b_exec' = [b_exec EXCEPT ![r] = NewExec(r, q)]
        /\ decided' = [decided EXCEPT ![r] = NewDecided(r, q)]
        /\ vheight' = [vheight EXCEPT ![r] = height[p] + 1]
        /\ votes' = votes \cup {<<r, b>>}
        /\ hqc_tail' = [hqc_tail EXCEPT ![r] = b]
        /\ hqc' = hqc /\ failed' = failed
    BY <1>1 DEF Propose, p, q
  <2> QED
    BY <2>1, <2>2, <2>3, UpdateType DEF TypeOK
<1>2. ASSUME NEW r \in Replica, NEW b \in Block, DeliverBlk(r, b)
      PROVE  TypeOK'
  BY <1>2 DEF DeliverBlk, tree, TypeOK
<1>3. ASSUME NEW r \in Replica, NEW b \in Block, ReceiveProposal(r, b)
      PROVE  TypeOK'
  <2> DEFINE q == qc_ref[b]
             h == NewHqc(r, q)
  <2>1. q \in Block /\ h \in Block
    BY UpdateType DEF TypeOK
  <2>2. HighTails(h, delivered[r]) \subseteq Block
    <3>1. delivered[r] \in SUBSET Block
      BY DEF TypeOK
    <3> QED BY <2>1, <3>1, HighTailsType
  <2> HIDE DEF q, h
  <2>3. /\ hqc' = [hqc EXCEPT ![r] = h]
        /\ b_lock' = [b_lock EXCEPT ![r] = NewLock(r, q)]
        /\ b_exec' = [b_exec EXCEPT ![r] = NewExec(r, q)]
        /\ decided' = [decided EXCEPT ![r] = NewDecided(r, q)]
        /\ UNCHANGED <<blocks, parent, qc_ref, height, branch, delivered, failed>>
    BY <1>3 DEF ReceiveProposal, tree, q, h
  <2>4. hqc_tail' \in [Replica -> Block]
    <3>1. PICK t \in IF h = hqc[r] THEN {hqc_tail[r]} ELSE HighTails(h, delivered[r]) :
            hqc_tail' = [hqc_tail EXCEPT ![r] =
                IF Extends(b, h) /\ height[b] > height[t] THEN b ELSE t]
      BY <1>3 DEF ReceiveProposal, q, h
    <3>2. t \in Block
      BY <2>2, <3>1 DEF TypeOK
    <3> QED BY <3>1, <3>2 DEF TypeOK
  <2>5. vheight' \in [Replica -> Nat] /\ votes' \subseteq Replica \X Block
    BY <1>3 DEF ReceiveProposal, TypeOK
  <2> QED
    BY <2>1, <2>3, <2>4, <2>5, UpdateType DEF TypeOK
<1>4. ASSUME NEW r \in Replica, NEW b \in Block, QcFinish(r, b)
      PROVE  TypeOK'
  <2>1. delivered[r] \in SUBSET Block
    BY DEF TypeOK
  <2>2. hqc_tail' \in [Replica -> Block]
    BY <1>4, <2>1, HighTailsType DEF QcFinish, TypeOK
  <2> QED BY <1>4, <2>2 DEF QcFinish, tree, TypeOK
<1>5. ASSUME NEW r \in Replica, ProposeThrows(r)
      PROVE  TypeOK'
  <2>1. hqc[r] \in Block
    BY DEF TypeOK
  <2> QED BY <1>5, <2>1, UpdateType DEF ProposeThrows, tree, TypeOK
<1>6. CASE UNCHANGED vars
  BY <1>6 DEF vars, tree, TypeOK
<1> QED
  BY <1>1, <1>2, <1>3, <1>4, <1>5, <1>6 DEF Next

(* Type correctness: no handler of the core leaves its types.              *)
THEOREM TypeCorrect == Spec => []TypeOK
<1>1. Init => TypeOK
  BY BlockAssumption DEF Init, TypeOK
<1> QED
  BY <1>1, TypeStep, PTL DEF Spec

-----------------------------------------------------------------------------
(***************************************************************************)
(* The inductive invariant.                                                *)
(***************************************************************************)
(* The blocks form a tree, a block's branch is its chain of parents, and   *)
(* the QC in a block is for a certified proper ancestor.                   *)
GenesisInv ==
    /\ b0 \in blocks
    /\ parent[b0] = b0
    /\ qc_ref[b0] = b0
    /\ height[b0] = 0
    /\ branch[b0] = {b0}

BranchInv ==
    \A b \in blocks :
        /\ branch[b] \subseteq blocks
        /\ b \in branch[b]
        /\ b0 \in branch[b]
        /\ \A c \in branch[b] :
              /\ branch[c] \subseteq branch[b]
              /\ height[c] <= height[b]
              /\ height[c] = height[b] => c = b
              /\ \A d \in branch[b] : height[c] <= height[d] => c \in branch[d]

ParentInv ==
    \A b \in blocks \ {b0} :
        /\ parent[b] \in blocks
        /\ branch[b] = branch[parent[b]] \cup {b}
        /\ height[b] = height[parent[b]] + 1
        /\ qc_ref[b] \in branch[parent[b]]
        /\ Certified(qc_ref[b])

TreeInv == GenesisInv /\ BranchInv /\ ParentInv

(* b heads a three-chain whose last block is certified: what update needs  *)
(* to commit b.                                                            *)
ThreeChain(b, b1, b2) ==
    /\ parent[b1] = b /\ qc_ref[b1] = b
    /\ parent[b2] = b1 /\ qc_ref[b2] = b1
    /\ Certified(b2)

Committable(b) ==
    \E b1, b2 \in blocks \ {b0} : ThreeChain(b, b1, b2)

(* Each replica's blocks are delivered, certified and ordered.             *)
DeliveredAt(r) ==
    /\ delivered[r] \subseteq blocks
    /\ \A b \in delivered[r] : branch[b] \subseteq delivered[r]
    /\ {hqc[r], hqc_tail[r], b_lock[r], b_exec[r]} \subseteq delivered[r]

DeliveredInv == \A r \in Replica : DeliveredAt(r)

ReplicaAt(r) ==
    /\ hqc[r] \in branch[hqc_tail[r]]
    /\ Certified(hqc[r])
    /\ Certified(b_lock[r])
    /\ decided[r] = branch[b_exec[r]]
    /\ b_exec[r] # b0 => /\ height[b_exec[r]] < height[b_lock[r]]
                         /\ Committable(b_exec[r])
    /\ height[b_lock[r]] <= height[hqc[r]]

ReplicaInv == \A r \in Replica : ReplicaAt(r)

(* When r voted for w, w extended a certified block at least as high as    *)
(* every lock that r's earlier votes had imposed on it.                    *)
SafeVote(r, w) ==
    \A v \in Block :
        <<r, v>> \in votes /\ height[v] < height[w]
        => \E c \in branch[w] \ {w} :
              Certified(c) /\ height[c] >= height[qc_ref[qc_ref[v]]]

VoteInv ==
    /\ \A r \in Replica, b \in Block :
          <<r, b>> \in votes =>
              /\ b \in delivered[r] \ {b0}
              /\ height[b] <= vheight[r]
              /\ height[qc_ref[qc_ref[b]]] <= height[b_lock[r]]
              /\ ~ Certified(b) => SafeVote(r, b)
              /\ \A c \in Block : <<r, c>> \in votes /\ height[c] = height[b]
                                  => b = c
    /\ \A b \in Block \ {b0} :
          Certified(b) => \E Q \in Quorum : \A r \in Q :
                              <<r, b>> \in votes /\ SafeVote(r, b)

Inv == TypeOK /\ TreeInv /\ DeliveredInv /\ ReplicaInv /\ VoteInv

-----------------------------------------------------------------------------
(* Two quorums of nmajority replicas share a replica.                      *)
LEMMA QuorumIntersection ==
    ASSUME NEW P \in Quorum, NEW Q \in Quorum
    PROVE  \E r \in Replica : r \in P /\ r \in Q
<1>1. /\ P \subseteq Replica /\ Q \subseteq Replica
      /\ Cardinality(P) >= nmajority /\ Cardinality(Q) >= nmajority
  BY DEF Quorum
<1>2. /\ IsFiniteSet(P) /\ IsFiniteSet(Q)
      /\ Cardinality(P) \in Nat /\ Cardinality(Q) \in Nat
      /\ Cardinality(Replica) \in Nat
  BY <1>1, ReplicaAssumption, FS_Subset, FS_CardinalityType
<1>3. Cardinality(P) + Cardinality(Q) > Cardinality(Replica)
  BY <1>1, <1>2, ReplicaAssumption DEF nmajority
<1>4. P \cap Q # {}
  BY <1>1, <1>3, ReplicaAssumption, FS_MajoritiesIntersect
<1> QED
  BY <1>1, <1>4

(* A set of heights that is not empty has a least one.                     *)
LEMMA LeastHeight ==
    ASSUME NEW S \in SUBSET Nat, S # {}
    PROVE  \E m \in S : \A n \in S : m <= n
<1> DEFINE R == OpToRel(<, Nat)
<1>1. IsWellFoundedOn(R, Nat)
  BY NatLessThanWellFounded
<1>2. PICK m \in S : \A n \in S : ~ (<<n, m>> \in R)
  <2> HIDE DEF R
  <2> QED BY <1>1, WFMin
<1>3. \A n \in S : ~ (n < m)
  BY <1>2 DEF OpToRel
<1> QED
  BY <1>3

(* Two certified blocks of the same height are the same block.             *)
LEMMA OneCertifiedPerHeight ==
    ASSUME Inv, NEW b \in blocks, NEW c \in blocks,
           Certified(b), Certified(c), height[b] = height[c]
    PROVE  b = c
<1>1. \A d \in blocks : height[d] = 0 => d = b0
  BY DEF Inv, TreeInv, GenesisInv, BranchInv
<1>2. CASE b = b0 \/ c = b0
  BY <1>1, <1>2 DEF Inv, TreeInv, GenesisInv
<1>3. CASE b # b0 /\ c # b0
  <2>1. PICK P \in Quorum : \A r \in P : <<r, b>> \in votes
    BY <1>3 DEF Certified
  <2>2. PICK Q \in Quorum : \A r \in Q : <<r, c>> \in votes
    BY <1>3 DEF Certified
  <2>3. PICK r \in Replica : r \in P /\ r \in Q
    BY QuorumIntersection
  <2> QED
    BY <2>1, <2>2, <2>3 DEF Inv, VoteInv, TypeOK
<1> QED
  BY <1>2, <1>3

(* A three-chain fixes the branch: every certified block at least as high  *)
(* as its head extends its head. The argument takes a lowest               *)
(* counterexample w; a replica in both quorums voted for the chain's last  *)
(* block and, later, for w, so w extends a lower certified block that is   *)
(* not below the head.                                                     *)
LEMMA CertifiedExtendsCommittable ==
    ASSUME Inv, NEW b \in blocks, Committable(b),
           NEW w \in blocks, Certified(w), height[w] >= height[b]
    PROVE  b \in branch[w]
<1> DEFINE Bad == {x \in blocks : /\ Certified(x)
                                  /\ height[x] >= height[b]
                                  /\ b \notin branch[x]}
           Heights == {height[x] : x \in Bad}
<1> SUFFICES ASSUME Bad # {} PROVE FALSE
  OBVIOUS
<1>1. PICK x \in Bad : \A y \in Bad : height[x] <= height[y]
  <2>1. Heights \in SUBSET Nat
    BY DEF Inv, TypeOK
  <2>2. Heights # {}
    OBVIOUS
  <2>3. PICK m \in Heights : \A n \in Heights : m <= n
    <3> HIDE DEF Heights
    <3> QED BY <2>1, <2>2, LeastHeight
  <2> QED
    BY <2>3
<1>2. PICK b1 \in blocks \ {b0}, b2 \in blocks \ {b0} : ThreeChain(b, b1, b2)
  BY DEF Committable
<1>3. /\ height[b1] = height[b] + 1 /\ height[b2] = height[b] + 2
      /\ b \in branch[b1] /\ b1 \in branch[b2] /\ b \in branch[b2]
      /\ Certified(b) /\ Certified(b1) /\ Certified(b2)
  BY <1>2 DEF Inv, TreeInv, BranchInv, ParentInv, ThreeChain, TypeOK
<1>4. height[x] > height[b2]
  <2>0. /\ height[x] \in Nat /\ height[b] \in Nat
        /\ height[x] >= height[b]
    BY DEF Inv, TypeOK
  <2>1. height[x] # height[b]
    BY <1>3, OneCertifiedPerHeight DEF Inv, TreeInv, BranchInv
  <2>2. height[x] # height[b1]
    BY <1>2, <1>3, OneCertifiedPerHeight
  <2>3. height[x] # height[b2]
    BY <1>2, <1>3, OneCertifiedPerHeight
  <2> QED
    BY <1>3, <2>0, <2>1, <2>2, <2>3
<1>5. PICK c \in branch[x] \ {x} : Certified(c) /\ height[c] >= height[b]
  <2>1. x # b0
    BY <1>4 DEF Inv, TypeOK, TreeInv, GenesisInv
  <2>2. PICK P \in Quorum : \A r \in P : <<r, b2>> \in votes
    BY <1>2, <1>3 DEF Certified
  <2>3. PICK Q \in Quorum : \A r \in Q : <<r, x>> \in votes /\ SafeVote(r, x)
    BY <2>1 DEF Inv, VoteInv, TypeOK
  <2>4. PICK r \in Replica : r \in P /\ r \in Q
    BY QuorumIntersection
  <2>5. <<r, b2>> \in votes /\ SafeVote(r, x)
    BY <2>2, <2>3, <2>4
  <2>6. qc_ref[qc_ref[b2]] = b
    BY <1>2 DEF ThreeChain
  <2> QED
    BY <1>2, <1>4, <2>5, <2>6 DEF SafeVote, Inv, TypeOK
<1>6. c \in blocks /\ height[c] < height[x] /\ branch[c] \subseteq branch[x]
  <2>1. /\ x \in blocks /\ c \in branch[x] /\ c # x
        /\ branch[x] \subseteq blocks /\ branch[c] \subseteq branch[x]
        /\ height[c] <= height[x] /\ height[c] # height[x]
    BY <1>5 DEF Inv, TreeInv, BranchInv
  <2>2. c \in Block /\ x \in Block
    BY <2>1 DEF Inv, TypeOK
  <2>3. height[c] \in Nat /\ height[x] \in Nat
    BY <2>2 DEF Inv, TypeOK
  <2> QED
    BY <2>1, <2>3
<1>7. b \in branch[c]
  BY <1>1, <1>5, <1>6 DEF Inv, TypeOK
<1> QED
  BY <1>6, <1>7

-----------------------------------------------------------------------------
(***************************************************************************)
(* What update does in a state that satisfies the invariant.               *)
(***************************************************************************)
(* The QC of a delivered block is for a delivered and certified block.     *)
LEMMA QcRefDelivered ==
    ASSUME Inv, NEW r \in Replica, NEW b \in delivered[r]
    PROVE  /\ qc_ref[b] \in delivered[r]
           /\ Certified(qc_ref[b])
           /\ height[qc_ref[b]] <= height[b]
           /\ b # b0 => qc_ref[b] \in branch[b] \ {b} /\ height[qc_ref[b]] < height[b]
<1>1. b \in blocks /\ branch[b] \subseteq delivered[r]
  BY DEF Inv, DeliveredInv, DeliveredAt
<1>2. CASE b = b0
  BY <1>2 DEF Inv, TreeInv, GenesisInv, Certified
<1>3. CASE b # b0
  <2>1. /\ parent[b] \in blocks /\ qc_ref[b] \in branch[parent[b]]
        /\ Certified(qc_ref[b])
        /\ branch[b] = branch[parent[b]] \cup {b}
        /\ height[b] = height[parent[b]] + 1
    BY <1>1, <1>3 DEF Inv, TreeInv, ParentInv
  <2>2. height[qc_ref[b]] <= height[parent[b]]
    BY <2>1 DEF Inv, TreeInv, BranchInv
  <2>3. height[qc_ref[b]] < height[b]
    BY <1>1, <2>1, <2>2 DEF Inv, TypeOK
  <2> QED
    BY <1>1, <2>1, <2>3 DEF Inv, TypeOK
<1> QED
  BY <1>2, <1>3

(* "safety breached" is unreachable.                                       *)
LEMMA NoBreach ==
    ASSUME Inv, NEW r \in Replica, NEW q \in delivered[r], Certified(q)
    PROVE  ~ Breach(r, q)
<1> SUFFICES ASSUME Commits(r, q), b_exec[r] \notin branch[qc_ref[qc_ref[q]]]
             PROVE  FALSE
  BY DEF Breach, Extends
<1> DEFINE b1 == qc_ref[q]
           b  == qc_ref[b1]
<1>1. b1 \in delivered[r] /\ b \in delivered[r] /\ Certified(b)
  BY QcRefDelivered
<1>2. q \in blocks /\ b1 \in blocks /\ b \in blocks /\ b_exec[r] \in blocks
  BY <1>1 DEF Inv, DeliveredInv, DeliveredAt
<1>3. /\ q \notin decided[r] /\ b1 \notin decided[r] /\ b \notin decided[r]
      /\ parent[q] = b1 /\ parent[b1] = b
  BY DEF Commits
<1>4. decided[r] = branch[b_exec[r]] /\ b0 \in decided[r]
  BY <1>2 DEF Inv, ReplicaInv, ReplicaAt, TreeInv, BranchInv
<1>5. Committable(b)
  BY <1>2, <1>3, <1>4 DEF Committable, ThreeChain
<1>6. Certified(b_exec[r]) /\ (b_exec[r] # b0 => Committable(b_exec[r]))
  <2>1. CASE b_exec[r] = b0
    BY <2>1 DEF Certified
  <2>2. CASE b_exec[r] # b0
    <3>1. Committable(b_exec[r])
      BY <2>2 DEF Inv, ReplicaInv, ReplicaAt
    <3> QED
      BY <3>1 DEF Committable, ThreeChain, Inv, TreeInv, ParentInv
  <2> QED BY <2>1, <2>2
<1>7. b_exec[r] # b0
  BY <1>2 DEF Inv, TreeInv, BranchInv
<1>8. height[b] \in Nat /\ height[b_exec[r]] \in Nat
  BY <1>2 DEF Inv, TypeOK
<1>9. CASE height[b] >= height[b_exec[r]]
  BY <1>1, <1>2, <1>6, <1>7, <1>9, CertifiedExtendsCommittable
<1>10. CASE height[b_exec[r]] >= height[b]
  BY <1>2, <1>3, <1>4, <1>5, <1>6, <1>10, CertifiedExtendsCommittable
<1> QED
  BY <1>8, <1>9, <1>10

(* The values update computes.                                             *)
LEMMA UpdateFacts ==
    ASSUME Inv, NEW r \in Replica, NEW q \in delivered[r], Certified(q)
    PROVE  /\ NewHqc(r, q) \in delivered[r]
           /\ Certified(NewHqc(r, q))
           /\ height[NewHqc(r, q)] >= height[hqc[r]]
           /\ NewLock(r, q) \in delivered[r]
           /\ Certified(NewLock(r, q))
           /\ height[NewLock(r, q)] >= height[b_lock[r]]
           /\ height[NewLock(r, q)] >= height[qc_ref[q]]
           /\ height[NewLock(r, q)] <= height[NewHqc(r, q)]
           /\ NewExec(r, q) \in delivered[r]
           /\ NewDecided(r, q) = branch[NewExec(r, q)]
           /\ b_exec[r] \in branch[NewExec(r, q)]
           /\ NewExec(r, q) # b0 =>
                 /\ height[NewExec(r, q)] < height[NewLock(r, q)]
                 /\ Committable(NewExec(r, q))
<1> DEFINE b1 == qc_ref[q]
           b  == qc_ref[b1]
<1>1. /\ b1 \in delivered[r] /\ Certified(b1) /\ height[b1] <= height[q]
      /\ b \in delivered[r] /\ Certified(b)
  BY QcRefDelivered
<1>2. /\ q \in blocks /\ b1 \in blocks /\ b \in blocks
      /\ {hqc[r], b_lock[r], b_exec[r]} \subseteq blocks \cap delivered[r]
  BY <1>1 DEF Inv, DeliveredInv, DeliveredAt
<1>3. /\ height[q] \in Nat /\ height[b1] \in Nat /\ height[b] \in Nat
      /\ height[hqc[r]] \in Nat /\ height[b_lock[r]] \in Nat
      /\ height[b_exec[r]] \in Nat
  BY <1>2 DEF Inv, TypeOK
<1>4. /\ decided[r] = branch[b_exec[r]]
      /\ Certified(hqc[r]) /\ Certified(b_lock[r])
      /\ height[b_lock[r]] <= height[hqc[r]]
  BY DEF Inv, ReplicaInv, ReplicaAt
<1>5. height[b_exec[r]] <= height[b_lock[r]]
  <2>1. CASE b_exec[r] = b0
    BY <1>3, <2>1 DEF Inv, TreeInv, GenesisInv
  <2>2. CASE b_exec[r] # b0
    BY <1>3, <2>2 DEF Inv, ReplicaInv, ReplicaAt
  <2> QED BY <2>1, <2>2
<1>6. \A c \in decided[r] : height[c] \in Nat /\ height[c] <= height[b_exec[r]]
  BY <1>2, <1>4 DEF Inv, TreeInv, BranchInv, TypeOK
<1>7. /\ NewHqc(r, q) \in delivered[r]
      /\ Certified(NewHqc(r, q))
      /\ height[NewHqc(r, q)] >= height[hqc[r]]
  BY <1>2, <1>3, <1>4 DEF NewHqc
<1>8. /\ NewLock(r, q) \in delivered[r]
      /\ Certified(NewLock(r, q))
      /\ height[NewLock(r, q)] >= height[b_lock[r]]
  BY <1>1, <1>2, <1>3, <1>4 DEF NewLock
<1>9. height[NewLock(r, q)] >= height[b1]
  BY <1>1, <1>2, <1>3, <1>5, <1>6 DEF NewLock
<1>10. height[NewLock(r, q)] <= height[NewHqc(r, q)]
  BY <1>1, <1>2, <1>3, <1>4 DEF NewLock, NewHqc
<1>11. CASE ~ Commits(r, q)
  <2>1. NewExec(r, q) = b_exec[r]
    BY <1>11 DEF NewExec
  <2>2. NewDecided(r, q) = branch[b_exec[r]]
    BY <1>3, <1>4, <1>6, <2>1 DEF NewDecided
  <2>3. b_exec[r] \in branch[b_exec[r]]
    BY <1>2 DEF Inv, TreeInv, BranchInv
  <2>4. b_exec[r] # b0 => height[b_exec[r]] < height[NewLock(r, q)] /\ Committable(b_exec[r])
    <3>1. height[NewLock(r, q)] \in Nat
      BY <1>8 DEF Inv, DeliveredInv, DeliveredAt, TypeOK
    <3> QED BY <1>3, <1>8, <3>1 DEF Inv, ReplicaInv, ReplicaAt
  <2> QED
    BY <1>2, <1>7, <1>8, <1>9, <1>10, <2>1, <2>2, <2>3, <2>4
<1>12. CASE Commits(r, q)
  <2>1. NewExec(r, q) = b
    BY <1>12 DEF NewExec
  <2>2. b_exec[r] \in branch[b]
    BY <1>12, NoBreach DEF Breach, Extends
  <2>3. /\ q \notin decided[r] /\ b1 \notin decided[r]
        /\ parent[q] = b1 /\ parent[b1] = b
    BY <1>12 DEF Commits
  <2>4. b0 \in decided[r]
    BY <1>2, <1>4 DEF Inv, TreeInv, BranchInv
  <2>5. height[b] < height[NewLock(r, q)]
    <3>1. height[b1] = height[b] + 1
      BY <1>2, <2>3, <2>4 DEF Inv, TreeInv, ParentInv
    <3>2. height[NewLock(r, q)] \in Nat
      BY <1>8 DEF Inv, DeliveredInv, DeliveredAt, TypeOK
    <3> QED BY <1>3, <1>9, <3>1, <3>2
  <2>6. Committable(b)
    BY <1>2, <2>3, <2>4 DEF Committable, ThreeChain
  <2>7. NewDecided(r, q) = branch[b]
    <3>1. branch[b_exec[r]] \subseteq branch[b]
      BY <1>2, <2>2 DEF Inv, TreeInv, BranchInv
    <3>2. \A c \in branch[b] : height[c] > height[b_exec[r]] \/ c \in branch[b_exec[r]]
      <4>1. \A c \in branch[b] : height[c] \in Nat
        BY <1>2 DEF Inv, TreeInv, BranchInv, TypeOK
      <4>2. \A c \in branch[b] : height[c] <= height[b_exec[r]] => c \in branch[b_exec[r]]
        BY <1>2, <2>2 DEF Inv, TreeInv, BranchInv
      <4> QED BY <1>3, <4>1, <4>2
    <3> QED BY <1>4, <2>1, <3>1, <3>2 DEF NewDecided
  <2> QED
    BY <1>1, <1>7, <1>8, <1>9, <1>10, <2>1, <2>2, <2>5, <2>6, <2>7
<1> QED
  BY <1>11, <1>12

-----------------------------------------------------------------------------
(***************************************************************************)
(* Steps that only add blocks, votes and deliveries.                       *)
(***************************************************************************)
(* What every step of the system has in common.                            *)
Grows ==
    /\ blocks \subseteq blocks'
    /\ \A c \in blocks : /\ parent'[c] = parent[c]
                         /\ qc_ref'[c] = qc_ref[c]
                         /\ height'[c] = height[c]
                         /\ branch'[c] = branch[c]
    /\ votes \subseteq votes'
    /\ \A s \in Replica : /\ delivered[s] \subseteq delivered'[s]
                          /\ vheight[s] <= vheight'[s]
                          /\ height[b_lock[s]] <= height'[b_lock'[s]]

(* New votes are above the voter's earlier ones.                           *)
VotesRise ==
    \A s \in Replica, v \in Block :
        <<s, v>> \in votes' \ votes => height'[v] > vheight[s]

(* What a vote says about the block and about the voter's vheight and      *)
(* lock.                                                                   *)
LEMMA VotedBlocks ==
    ASSUME Inv, NEW s \in Replica, NEW v \in Block, <<s, v>> \in votes
    PROVE  /\ v \in blocks \ {b0} /\ v \in delivered[s]
           /\ qc_ref[v] \in blocks /\ qc_ref[qc_ref[v]] \in blocks
           /\ branch[v] \subseteq blocks
           /\ height[v] <= vheight[s]
           /\ height[qc_ref[qc_ref[v]]] <= height[b_lock[s]]
<1>1. /\ v \in delivered[s] \ {b0}
      /\ height[v] <= vheight[s]
      /\ height[qc_ref[qc_ref[v]]] <= height[b_lock[s]]
  BY DEF Inv, VoteInv
<1>2. qc_ref[v] \in delivered[s] /\ qc_ref[qc_ref[v]] \in delivered[s]
  BY <1>1, QcRefDelivered
<1> QED
  BY <1>1, <1>2 DEF Inv, DeliveredInv, DeliveredAt, TreeInv, BranchInv

(* A QC stays one: votes are not withdrawn.                                *)
LEMMA CertifiedStable ==
    ASSUME votes \subseteq votes', NEW c, Certified(c)
    PROVE  Certified(c)'
BY DEF Certified

(* A vote that was safe stays safe as the tree grows and later votes rise. *)
LEMMA SafeVoteStable ==
    ASSUME Inv, TypeOK', Grows, VotesRise,
           NEW s \in Replica, NEW x \in Block, <<s, x>> \in votes, SafeVote(s, x)
    PROVE  SafeVote(s, x)'
<1> SUFFICES ASSUME NEW v \in Block, <<s, v>> \in votes', height'[v] < height'[x]
             PROVE  \E c \in branch'[x] \ {x} :
                       /\ Certified(c)'
                       /\ height'[c] >= height'[qc_ref'[qc_ref'[v]]]
  BY DEF SafeVote
<1>1. /\ x \in blocks /\ height[x] <= vheight[s] /\ branch[x] \subseteq blocks
      /\ height'[x] = height[x] /\ branch'[x] = branch[x]
  BY VotedBlocks DEF Grows
<1>2. <<s, v>> \in votes
  BY <1>1 DEF VotesRise, Inv, TypeOK
<1>3. /\ v \in blocks /\ qc_ref[v] \in blocks /\ qc_ref[qc_ref[v]] \in blocks
  BY <1>2, VotedBlocks
<1>4. PICK c \in branch[x] \ {x} :
         Certified(c) /\ height[c] >= height[qc_ref[qc_ref[v]]]
  BY <1>1, <1>2, <1>3 DEF SafeVote, Grows
<1>5. Certified(c)'
  BY <1>4, CertifiedStable DEF Grows
<1> QED
  BY <1>1, <1>3, <1>4, <1>5 DEF Grows

(* The votes stay safe in a step that adds none.                           *)
LEMMA NoVoteStep ==
    ASSUME Inv, TypeOK', Grows, votes' = votes
    PROVE  VoteInv'
<1>1. VotesRise
  BY DEF VotesRise
<1>2. \A b \in Block : Certified(b)' <=> Certified(b)
  BY DEF Certified
<1>3. ASSUME NEW s \in Replica, NEW b \in Block, <<s, b>> \in votes
      PROVE  /\ b \in delivered'[s] \ {b0}
             /\ height'[b] <= vheight'[s]
             /\ height'[qc_ref'[qc_ref'[b]]] <= height'[b_lock'[s]]
             /\ ~ Certified(b)' => SafeVote(s, b)'
             /\ \A c \in Block : <<s, c>> \in votes /\ height'[c] = height'[b]
                                 => b = c
  <2>1. /\ height'[b] = height[b]
        /\ height'[qc_ref'[qc_ref'[b]]] = height[qc_ref[qc_ref[b]]]
    BY <1>3, VotedBlocks DEF Grows
  <2>2. b \in delivered'[s] \ {b0}
    BY <1>3, VotedBlocks DEF Grows
  <2>3. height'[b] <= vheight'[s]
    BY <1>3, <2>1, VotedBlocks DEF Grows, Inv, TypeOK
  <2>4. height'[qc_ref'[qc_ref'[b]]] <= height'[b_lock'[s]]
    BY <1>3, <2>1, VotedBlocks DEF Grows, Inv, TypeOK
  <2>5. ~ Certified(b)' => SafeVote(s, b)'
    BY <1>1, <1>2, <1>3, SafeVoteStable DEF Inv, VoteInv
  <2>6. \A c \in Block : <<s, c>> \in votes /\ height'[c] = height'[b] => b = c
    <3>1. \A c \in Block : <<s, c>> \in votes => height'[c] = height[c]
      BY VotedBlocks DEF Grows
    <3> QED BY <1>3, <2>1, <3>1 DEF Inv, VoteInv
  <2> QED
    BY <2>2, <2>3, <2>4, <2>5, <2>6
<1>4. ASSUME NEW b \in Block \ {b0}, Certified(b)'
      PROVE  \E Q \in Quorum : \A s \in Q : <<s, b>> \in votes /\ SafeVote(s, b)'
  <2>1. PICK Q \in Quorum : \A s \in Q : <<s, b>> \in votes /\ SafeVote(s, b)
    BY <1>2, <1>4 DEF Inv, VoteInv
  <2>2. Q \subseteq Replica
    BY DEF Quorum
  <2> QED
    BY <1>1, <2>1, <2>2, SafeVoteStable
<1> QED
  BY <1>3, <1>4 DEF VoteInv

(* The votes stay safe when r votes, above vheight, for a block w that is  *)
(* certified already or extends a certified block not below r's lock.      *)
LEMMA VoteStep ==
    ASSUME Inv, TypeOK', Grows,
           NEW r \in Replica, NEW w \in Block, w # b0, w \in delivered'[r],
           votes' = votes \cup {<<r, w>>},
           height'[w] > vheight[r], vheight'[r] = height'[w],
           height'[qc_ref'[qc_ref'[w]]] <= height'[b_lock'[r]],
           \/ Certified(w)
           \/ \E c \in branch'[w] \ {w} :
                 c \in blocks /\ Certified(c) /\ height[c] >= height[b_lock[r]]
    PROVE  VoteInv'
<1>1. VotesRise
  BY DEF VotesRise
<1>2. ASSUME ~ Certified(w)
      PROVE  SafeVote(r, w)'
  <2>1. PICK c \in branch'[w] \ {w} :
           c \in blocks /\ Certified(c) /\ height[c] >= height[b_lock[r]]
    BY <1>2
  <2>2. Certified(c)'
    BY <2>1, CertifiedStable DEF Grows
  <2> SUFFICES ASSUME NEW v \in Block, <<r, v>> \in votes', height'[v] < height'[w]
               PROVE  height'[c] >= height'[qc_ref'[qc_ref'[v]]]
    BY <2>1, <2>2 DEF SafeVote
  <2>3. <<r, v>> \in votes
    BY DEF TypeOK
  <2>4. height[qc_ref[qc_ref[v]]] <= height[b_lock[r]]
    BY <2>3, VotedBlocks
  <2>5. /\ height'[qc_ref'[qc_ref'[v]]] = height[qc_ref[qc_ref[v]]]
        /\ height'[c] = height[c]
    BY <2>1, <2>3, VotedBlocks DEF Grows
  <2>6. /\ height[qc_ref[qc_ref[v]]] \in Nat /\ height[b_lock[r]] \in Nat
        /\ height[c] \in Nat
    BY <2>1 DEF Inv, TypeOK
  <2> QED
    BY <2>1, <2>4, <2>5, <2>6
<1>3. ASSUME NEW s \in Replica, NEW b \in Block, <<s, b>> \in votes', ~ Certified(b)
      PROVE  SafeVote(s, b)'
  <2>1. CASE <<s, b>> \in votes
    BY <1>1, <1>3, <2>1, SafeVoteStable DEF Inv, VoteInv
  <2>2. CASE s = r /\ b = w
    BY <1>2, <1>3, <2>2
  <2> QED
    BY <1>3, <2>1, <2>2
<1>4. ASSUME NEW s \in Replica, NEW b \in Block, <<s, b>> \in votes'
      PROVE  /\ b \in delivered'[s] \ {b0}
             /\ height'[b] <= vheight'[s]
             /\ height'[qc_ref'[qc_ref'[b]]] <= height'[b_lock'[s]]
             /\ ~ Certified(b)' => SafeVote(s, b)'
             /\ \A c \in Block : <<s, c>> \in votes' /\ height'[c] = height'[b]
                                 => b = c
  <2>0. ~ Certified(b)' => SafeVote(s, b)'
    BY <1>3, <1>4, CertifiedStable DEF Grows
  <2>1. CASE <<s, b>> \in votes
    <3>1. /\ height'[b] = height[b]
          /\ height'[qc_ref'[qc_ref'[b]]] = height[qc_ref[qc_ref[b]]]
      BY <2>1, VotedBlocks DEF Grows
    <3>2. b \in delivered'[s] \ {b0}
      BY <2>1, VotedBlocks DEF Grows
    <3>3. height'[b] <= vheight'[s] /\ height'[b] <= vheight[s]
      BY <2>1, <3>1, VotedBlocks DEF Grows, Inv, TypeOK
    <3>4. height'[qc_ref'[qc_ref'[b]]] <= height'[b_lock'[s]]
      BY <2>1, <3>1, VotedBlocks DEF Grows, Inv, TypeOK
    <3>5. ASSUME NEW c \in Block, <<s, c>> \in votes', height'[c] = height'[b]
          PROVE  b = c
      <4>1. CASE <<s, c>> \in votes
        <5>1. height'[c] = height[c]
          BY <4>1, VotedBlocks DEF Grows
        <5> QED BY <2>1, <3>1, <3>5, <4>1, <5>1 DEF Inv, VoteInv
      <4>2. CASE s = r /\ c = w
        BY <3>3, <3>5, <4>2 DEF Inv, TypeOK
      <4> QED BY <3>5, <4>1, <4>2
    <3> QED BY <2>0, <3>2, <3>3, <3>4, <3>5
  <2>2. CASE s = r /\ b = w
    <3>1. height'[b] <= vheight'[s]
      BY <2>2 DEF TypeOK
    <3>2. ASSUME NEW c \in Block, <<s, c>> \in votes', height'[c] = height'[b]
          PROVE  b = c
      <4>1. CASE <<s, c>> \in votes
        <5>1. height'[c] = height[c] /\ height[c] <= vheight[s]
          BY <4>1, VotedBlocks DEF Grows
        <5> QED BY <2>2, <3>2, <5>1 DEF Inv, TypeOK
      <4> QED BY <2>2, <3>2, <4>1
    <3> QED BY <2>0, <2>2, <3>1, <3>2
  <2> QED
    BY <1>4, <2>1, <2>2
<1>5. ASSUME NEW b \in Block \ {b0}, Certified(b)'
      PROVE  \E Q \in Quorum : \A s \in Q : <<s, b>> \in votes' /\ SafeVote(s, b)'
  <2>1. CASE Certified(b)
    <3>1. PICK Q \in Quorum : \A s \in Q : <<s, b>> \in votes /\ SafeVote(s, b)
      BY <2>1 DEF Inv, VoteInv
    <3>2. Q \subseteq Replica
      BY DEF Quorum
    <3> QED
      BY <1>1, <3>1, <3>2, SafeVoteStable DEF Grows
  <2>2. CASE ~ Certified(b)
    <3>1. PICK Q \in Quorum : \A s \in Q : <<s, b>> \in votes'
      BY <1>5 DEF Certified
    <3>2. Q \subseteq Replica
      BY DEF Quorum
    <3> QED
      BY <1>3, <2>2, <3>1, <3>2
  <2> QED
    BY <2>1, <2>2
<1> QED
  BY <1>4, <1>5 DEF VoteInv

-----------------------------------------------------------------------------
(***************************************************************************)
(* The invariant is preserved, replica by replica and action by action.    *)
(***************************************************************************)
LEMMA CommittableStable ==
    ASSUME TreeInv, Grows, NEW c, Committable(c)
    PROVE  Committable(c)'
<1>1. PICK b1 \in blocks \ {b0}, b2 \in blocks \ {b0} : ThreeChain(c, b1, b2)
  BY DEF Committable
<1>2. Certified(b2)'
  BY <1>1, CertifiedStable DEF Grows, ThreeChain
<1>3. ThreeChain(c, b1, b2)'
  BY <1>1, <1>2 DEF ThreeChain, Grows
<1> QED
  BY <1>1, <1>3 DEF Committable, Grows

(* A replica that takes no part in the step.                               *)
LEMMA IdleReplica ==
    ASSUME Inv, Grows, NEW s \in Replica,
           delivered'[s] = delivered[s], decided'[s] = decided[s],
           hqc'[s] = hqc[s], hqc_tail'[s] = hqc_tail[s],
           b_lock'[s] = b_lock[s], b_exec'[s] = b_exec[s]
    PROVE  DeliveredAt(s)' /\ ReplicaAt(s)'
<1>1. DeliveredAt(s) /\ ReplicaAt(s)
  BY DEF Inv, DeliveredInv, ReplicaInv
<1>2. {hqc[s], hqc_tail[s], b_lock[s], b_exec[s]} \subseteq blocks
  BY <1>1 DEF DeliveredAt
<1>3. DeliveredAt(s)'
  BY <1>1 DEF DeliveredAt, Grows
<1>4. b_exec[s] # b0 => Committable(b_exec[s])'
  BY <1>1, CommittableStable DEF ReplicaAt, Inv
<1>5. Certified(hqc[s])' /\ Certified(b_lock[s])'
  BY <1>1, CertifiedStable DEF ReplicaAt, Grows
<1>6. ReplicaAt(s)'
  BY <1>1, <1>2, <1>4, <1>5 DEF ReplicaAt, Grows, Certified, Committable, ThreeChain
<1> QED
  BY <1>3, <1>6

(* A replica that runs update on a block whose QC is for q.                *)
LEMMA UpdatedReplica ==
    ASSUME Inv, Grows, NEW r \in Replica, NEW q \in delivered[r], Certified(q),
           NEW lock, lock = NewLock(r, q), b_lock'[r] = lock,
           NEW exec, exec = NewExec(r, q), b_exec'[r] = exec,
           decided'[r] = NewDecided(r, q),
           NEW h \in delivered[r], hqc'[r] = h, Certified(h),
           height[h] >= height[lock],
           NEW t \in delivered'[r], hqc_tail'[r] = t, h \in branch'[t],
           delivered'[r] \subseteq blocks',
           \A b \in delivered'[r] : branch'[b] \subseteq delivered'[r]
    PROVE  DeliveredAt(r)' /\ ReplicaAt(r)'
<1>1. /\ lock \in delivered[r] /\ Certified(lock)
      /\ exec \in delivered[r] /\ NewDecided(r, q) = branch[exec]
      /\ exec # b0 => height[exec] < height[lock] /\ Committable(exec)
  BY UpdateFacts
<1>2. {lock, exec, h} \subseteq blocks
  BY <1>1 DEF Inv, DeliveredInv, DeliveredAt
<1>3. /\ height'[lock] = height[lock] /\ height'[exec] = height[exec]
      /\ height'[h] = height[h] /\ branch'[exec] = branch[exec]
  BY <1>2 DEF Grows
<1>4. {lock, exec, h} \subseteq delivered'[r]
  BY <1>1 DEF Grows
<1>5. Certified(lock)' /\ Certified(h)' /\ (exec # b0 => Committable(exec)')
  BY <1>1, CertifiedStable, CommittableStable DEF Inv, Grows
<1>6. DeliveredAt(r)'
  BY <1>4 DEF DeliveredAt
<1>7. Certified(hqc[r])' /\ Certified(b_lock[r])'
  BY <1>5 DEF Certified
<1>8. exec # b0 => Committable(b_exec[r])'
  BY <1>5 DEF Committable, ThreeChain, Certified
<1>9. height'[b_lock'[r]] <= height'[hqc'[r]]
  <2>1. height[h] \in Nat /\ height[lock] \in Nat
    BY <1>2 DEF Inv, TypeOK
  <2> QED BY <1>3, <2>1
<1>10. ReplicaAt(r)'
  BY <1>1, <1>3, <1>7, <1>8, <1>9 DEF ReplicaAt
<1> QED
  BY <1>6, <1>10

(* The new hqc is not below the old and the new b_exec extends the old.    *)
Rises(s) ==
    /\ hqc'[s] \in blocks /\ height[hqc'[s]] >= height[hqc[s]]
    /\ b_exec'[s] \in blocks /\ b_exec[s] \in branch[b_exec'[s]]

(* A replica whose hqc and b_exec do not change does not fall back.        *)
LEMMA IdleRises ==
    ASSUME Inv, NEW s \in Replica, hqc'[s] = hqc[s], b_exec'[s] = b_exec[s]
    PROVE  Rises(s)
<1>1. hqc[s] \in blocks /\ b_exec[s] \in blocks
  BY DEF Inv, DeliveredInv, DeliveredAt
<1> QED
  BY <1>1 DEF Rises, Inv, TreeInv, BranchInv, TypeOK

(* If hqc and b_exec rise then a replica's state advances.                 *)
LEMMA GrowsAdvances ==
    ASSUME Inv, TypeOK', Grows, NEW s \in Replica, Rises(s)
    PROVE  Advance(s)
<1>1. /\ height[b_lock[s]] \in Nat /\ height'[b_lock'[s]] \in Nat
      /\ vheight[s] \in Nat /\ vheight'[s] \in Nat
  BY DEF Inv, TypeOK
<1> QED
  BY <1>1 DEF Grows, Rises, Advance

(* A parent chosen among the tails is delivered and extends the hqc.       *)
LEMMA HighTailsFacts ==
    ASSUME Inv, NEW r \in Replica, NEW h \in delivered[r],
           NEW t \in HighTails(h, delivered[r])
    PROVE  t \in delivered[r] /\ h \in branch[t]
<1>1. h \in branch[h]
  BY DEF Inv, TreeInv, BranchInv, DeliveredInv, DeliveredAt
<1> QED
  BY <1>1 DEF HighTails, Tails, Extends

(* The invariant in the initial state.                                     *)
LEMMA InvInit == Init => Inv
<1> SUFFICES ASSUME Init PROVE Inv
  OBVIOUS
<1>1. TypeOK
  BY BlockAssumption DEF Init, TypeOK
<1>2. TreeInv
  BY BlockAssumption DEF Init, TreeInv, GenesisInv, BranchInv, ParentInv
<1>3. DeliveredInv
  BY BlockAssumption DEF Init, DeliveredInv, DeliveredAt
<1>4. ReplicaInv
  BY BlockAssumption DEF Init, ReplicaInv, ReplicaAt, Certified
<1>5. \A Q \in Quorum : Q # {}
  BY QuorumIntersection
<1>6. \A b \in Block \ {b0} : ~ Certified(b)
  BY <1>5 DEF Init, Certified
<1>7. VoteInv
  BY <1>6 DEF Init, VoteInv
<1> QED
  BY <1>1, <1>2, <1>3, <1>4, <1>7 DEF Inv

(* on_deliver_blk keeps the invariant and takes nothing back.              *)
LEMMA InvDeliverBlk ==
    ASSUME Inv, TypeOK', NEW r \in Replica, NEW b \in Block, DeliverBlk(r, b)
    PROVE  Inv' /\ \A s \in Replica : Advance(s)
<1>1. /\ b \in blocks /\ parent[b] \in delivered[r] /\ b \notin delivered[r]
      /\ delivered' = [delivered EXCEPT ![r] = @ \cup {b}]
      /\ UNCHANGED <<blocks, parent, qc_ref, height, branch, votes, decided, hqc,
                     b_lock, b_exec, vheight, hqc_tail>>
  BY DEF DeliverBlk, tree
<1>2. delivered'[r] = delivered[r] \cup {b}
      /\ \A s \in Replica \ {r} : delivered'[s] = delivered[s]
  BY <1>1 DEF Inv, TypeOK
<1>3. Grows
  BY <1>1, <1>2 DEF Grows, Inv, TypeOK
<1>4. TreeInv'
  BY <1>1 DEF Inv, TreeInv, GenesisInv, BranchInv, ParentInv, Certified
<1>5. DeliveredAt(r) /\ ReplicaAt(r)
  BY DEF Inv, DeliveredInv, ReplicaInv
<1>6. b # b0 => branch[b] = branch[parent[b]] \cup {b}
  BY <1>1 DEF Inv, TreeInv, ParentInv
<1>7. branch[b] \subseteq delivered'[r]
  BY <1>1, <1>2, <1>5, <1>6 DEF DeliveredAt, Inv, TreeInv, GenesisInv
<1>8. DeliveredAt(r)'
  BY <1>1, <1>2, <1>5, <1>7 DEF DeliveredAt
<1>9. ReplicaAt(r)'
  BY <1>1, <1>5 DEF ReplicaAt, Certified, Committable, ThreeChain
<1>10. \A s \in Replica \ {r} : DeliveredAt(s)' /\ ReplicaAt(s)'
  BY <1>1, <1>2, <1>3, IdleReplica
<1>11. VoteInv'
  BY <1>1, <1>3, NoVoteStep
<1>12. \A s \in Replica : Advance(s)
  BY <1>1, <1>3, IdleRises, GrowsAdvances
<1> QED
  BY <1>4, <1>8, <1>9, <1>10, <1>11, <1>12 DEF Inv, DeliveredInv, ReplicaInv

(* The vote that completes a QC keeps the invariant and takes nothing      *)
(* back.                                                                   *)
LEMMA InvQcFinish ==
    ASSUME Inv, TypeOK', NEW r \in Replica, NEW b \in Block, QcFinish(r, b)
    PROVE  Inv' /\ \A s \in Replica : Advance(s)
<1>1. PICK t \in HighTails(b, delivered[r]) :
         hqc_tail' = [hqc_tail EXCEPT ![r] = t]
  BY DEF QcFinish
<1>2. /\ b \in delivered[r] /\ Certified(b) /\ height[b] > height[hqc[r]]
      /\ hqc' = [hqc EXCEPT ![r] = b]
      /\ UNCHANGED <<blocks, parent, qc_ref, height, branch, votes, delivered,
                     decided, b_lock, b_exec, vheight>>
  BY DEF QcFinish, tree
<1>3. /\ hqc'[r] = b /\ hqc_tail'[r] = t
      /\ \A s \in Replica \ {r} : hqc'[s] = hqc[s] /\ hqc_tail'[s] = hqc_tail[s]
  BY <1>1, <1>2 DEF Inv, TypeOK
<1>4. t \in delivered[r] /\ b \in branch[t]
  BY <1>2, HighTailsFacts
<1>5. Grows
  BY <1>2 DEF Grows, Inv, TypeOK
<1>6. TreeInv'
  BY <1>2 DEF Inv, TreeInv, GenesisInv, BranchInv, ParentInv, Certified
<1>7. DeliveredAt(r) /\ ReplicaAt(r)
  BY DEF Inv, DeliveredInv, ReplicaInv
<1>8. DeliveredAt(r)'
  BY <1>2, <1>3, <1>4, <1>7 DEF DeliveredAt
<1>9. height[b_lock[r]] <= height[b]
  BY <1>2, <1>7 DEF ReplicaAt, Inv, TypeOK
<1>10. ReplicaAt(r)'
  BY <1>2, <1>3, <1>4, <1>7, <1>9 DEF ReplicaAt, Certified, Committable, ThreeChain
<1>11. \A s \in Replica \ {r} : DeliveredAt(s)' /\ ReplicaAt(s)'
  BY <1>2, <1>3, <1>5, IdleReplica
<1>12. VoteInv'
  BY <1>2, <1>5, NoVoteStep
<1>13. Rises(r)
  <2>1. hqc'[r] \in blocks /\ b_exec[r] \in blocks
    BY <1>2, <1>3, <1>7 DEF DeliveredAt
  <2> QED BY <1>2, <1>3, <2>1 DEF Rises, Inv, TypeOK, TreeInv, BranchInv
<1>14. \A s \in Replica : Advance(s)
  BY <1>2, <1>3, <1>5, <1>13, IdleRises, GrowsAdvances
<1> QED
  BY <1>6, <1>8, <1>10, <1>11, <1>12, <1>14 DEF Inv, DeliveredInv, ReplicaInv

(* on_receive_proposal keeps the invariant and takes nothing back.         *)
LEMMA InvReceiveProposal ==
    ASSUME Inv, TypeOK', NEW r \in Replica, NEW b \in Block, ReceiveProposal(r, b)
    PROVE  Inv' /\ \A s \in Replica : Advance(s)
<1> PICK q : q = qc_ref[b]
  OBVIOUS
<1> PICK h : h = NewHqc(r, q)
  OBVIOUS
<1> PICK lock : lock = NewLock(r, q)
  OBVIOUS
<1> PICK exec : exec = NewExec(r, q)
  OBVIOUS
<1>1. /\ b \in delivered[r] /\ b # b0
      /\ hqc' = [hqc EXCEPT ![r] = h]
      /\ b_lock' = [b_lock EXCEPT ![r] = lock]
      /\ b_exec' = [b_exec EXCEPT ![r] = exec]
      /\ decided' = [decided EXCEPT ![r] = NewDecided(r, q)]
      /\ UNCHANGED <<blocks, parent, qc_ref, height, branch, delivered>>
  BY DEF ReceiveProposal, tree
<1>2. PICK u \in IF h = hqc[r] THEN {hqc_tail[r]} ELSE HighTails(h, delivered[r]) :
         hqc_tail' = [hqc_tail EXCEPT ![r] =
             IF Extends(b, h) /\ height[b] > height[u] THEN b ELSE u]
  BY DEF ReceiveProposal
<1> PICK t : t = IF Extends(b, h) /\ height[b] > height[u] THEN b ELSE u
  OBVIOUS
<1>3. /\ \/ /\ Opinion(r, b)
            /\ vheight' = [vheight EXCEPT ![r] = height[b]]
            /\ votes' = votes \cup {<<r, b>>}
         \/ vheight' = vheight /\ votes' = votes
  BY DEF ReceiveProposal
<1>4. /\ hqc'[r] = h /\ b_lock'[r] = lock /\ b_exec'[r] = exec
      /\ decided'[r] = NewDecided(r, q) /\ hqc_tail'[r] = t
      /\ \A s \in Replica \ {r} :
            /\ hqc'[s] = hqc[s] /\ b_lock'[s] = b_lock[s] /\ b_exec'[s] = b_exec[s]
            /\ decided'[s] = decided[s] /\ hqc_tail'[s] = hqc_tail[s]
  BY <1>1, <1>2 DEF Inv, TypeOK
<1>5. /\ q \in delivered[r] /\ Certified(q)
      /\ q \in branch[b] \ {b} /\ height[q] < height[b]
  BY <1>1, QcRefDelivered
<1>6. /\ h \in delivered[r] /\ Certified(h) /\ height[h] >= height[hqc[r]]
      /\ lock \in delivered[r] /\ Certified(lock)
      /\ height[lock] >= height[b_lock[r]] /\ height[lock] >= height[qc_ref[q]]
      /\ height[lock] <= height[h]
  BY <1>5, UpdateFacts
<1>7. delivered[r] \subseteq blocks /\ {b, q, h, lock, b_lock[r], hqc[r]} \subseteq blocks
      /\ \A c \in delivered[r] : branch[c] \subseteq delivered[r]
  BY <1>1, <1>5, <1>6 DEF Inv, DeliveredInv, DeliveredAt
<1>8. /\ height[b] \in Nat /\ height[lock] \in Nat /\ height[b_lock[r]] \in Nat
      /\ height[q] \in Nat /\ height[h] \in Nat /\ vheight[r] \in Nat
  BY <1>7 DEF Inv, TypeOK
<1>9. t \in delivered[r] /\ h \in branch[t]
  <2>1. u \in delivered[r] /\ h \in branch[u]
    <3>1. CASE h = hqc[r]
      BY <1>2, <3>1 DEF Inv, DeliveredInv, DeliveredAt, ReplicaInv, ReplicaAt
    <3>2. CASE h # hqc[r]
      BY <1>2, <1>6, <3>2, HighTailsFacts
    <3> QED BY <3>1, <3>2
  <2> QED
    BY <1>1, <2>1 DEF Extends
<1>10. votes \subseteq votes' /\ \A s \in Replica : vheight[s] <= vheight'[s]
  <2>1. \A s \in Replica : vheight[s] \in Nat
    BY DEF Inv, TypeOK
  <2>2. CASE vheight' = vheight /\ votes' = votes
    BY <2>1, <2>2
  <2>3. CASE /\ Opinion(r, b)
             /\ vheight' = [vheight EXCEPT ![r] = height[b]]
             /\ votes' = votes \cup {<<r, b>>}
    <3>1. height[b] > vheight[r]
      BY <2>3 DEF Opinion
    <3>2. vheight'[r] = height[b] /\ \A s \in Replica \ {r} : vheight'[s] = vheight[s]
      BY <2>3 DEF Inv, TypeOK
    <3> QED BY <1>8, <2>1, <2>3, <3>1, <3>2
  <2> QED
    BY <1>3, <2>2, <2>3
<1>11. Grows
  <2>1. \A s \in Replica : height[b_lock[s]] <= height'[b_lock'[s]]
    BY <1>1, <1>4, <1>6, <1>8 DEF Inv, TypeOK
  <2> QED BY <1>1, <1>10, <2>1 DEF Grows
<1>12. TreeInv'
  <2>1. \A c \in Block : Certified(c) => Certified(c)'
    BY <1>10, CertifiedStable
  <2>2. \A c \in blocks : Certified(qc_ref[c]) => Certified(qc_ref[c])'
    BY <1>1, <1>10 DEF Certified
  <2> QED
    BY <1>1, <2>2 DEF Inv, TreeInv, GenesisInv, BranchInv, ParentInv
<1>13. DeliveredAt(r)' /\ ReplicaAt(r)'
  <2>1. /\ delivered'[r] \subseteq blocks'
        /\ \A c \in delivered'[r] : branch'[c] \subseteq delivered'[r]
        /\ t \in delivered'[r] /\ h \in branch'[t]
        /\ height[h] >= height[lock]
    BY <1>1, <1>6, <1>7, <1>8, <1>9
  <2> QED
    BY <1>4, <1>5, <1>6, <1>11, <2>1, UpdatedReplica
<1>14. \A s \in Replica \ {r} : DeliveredAt(s)' /\ ReplicaAt(s)'
  BY <1>1, <1>4, <1>11, IdleReplica
<1>15. VoteInv'
  <2>1. CASE votes' = votes
    BY <1>11, <2>1, NoVoteStep
  <2>2. CASE /\ Opinion(r, b)
             /\ vheight' = [vheight EXCEPT ![r] = height[b]]
             /\ votes' = votes \cup {<<r, b>>}
    <3>1. /\ height'[b] > vheight[r] /\ vheight'[r] = height'[b]
          /\ b \in delivered'[r]
      BY <1>1, <2>2 DEF Opinion, Inv, TypeOK
    <3>2. height'[qc_ref'[qc_ref'[b]]] <= height'[b_lock'[r]]
      <4>1. height[qc_ref[q]] \in Nat
        BY <1>7 DEF Inv, TypeOK
      <4> QED BY <1>1, <1>4, <1>6, <1>8, <4>1
    <3>3. \/ Certified(b)
          \/ \E c \in branch'[b] \ {b} :
                c \in blocks /\ Certified(c) /\ height[c] >= height[b_lock[r]]
      <4>1. CASE height[q] > height[lock]
        BY <1>1, <1>5, <1>6, <1>7, <1>8, <4>1
      <4>2. CASE lock \in branch[b]
        BY <1>1, <1>6, <1>7, <4>2
      <4> QED BY <2>2, <4>1, <4>2 DEF Opinion, Extends
    <3> QED
      BY <1>1, <1>11, <2>2, <3>1, <3>2, <3>3, VoteStep
  <2> QED
    BY <1>3, <2>1, <2>2
<1>16. Rises(r)
  <2>1. exec \in delivered[r] /\ b_exec[r] \in branch[exec]
    BY <1>5, UpdateFacts
  <2> QED BY <1>4, <1>6, <1>7, <2>1 DEF Rises
<1>17. \A s \in Replica : Advance(s)
  BY <1>4, <1>11, <1>16, IdleRises, GrowsAdvances
<1> QED
  BY <1>12, <1>13, <1>14, <1>15, <1>17 DEF Inv, DeliveredInv, ReplicaInv

(* on_propose keeps the invariant and takes nothing back.                  *)
LEMMA InvPropose ==
    ASSUME Inv, TypeOK', NEW r \in Replica, NEW b \in Block, Propose(r, b)
    PROVE  Inv' /\ \A s \in Replica : Advance(s)
<1> PICK p : p = hqc_tail[r]
  OBVIOUS
<1> PICK q : q = hqc[r]
  OBVIOUS
<1> PICK lock : lock = NewLock(r, q)
  OBVIOUS
<1> PICK exec : exec = NewExec(r, q)
  OBVIOUS
<1>1. /\ b \notin blocks /\ height[p] + 1 > vheight[r]
      /\ blocks' = blocks \cup {b}
      /\ parent' = [parent EXCEPT ![b] = p]
      /\ qc_ref' = [qc_ref EXCEPT ![b] = q]
      /\ height' = [height EXCEPT ![b] = height[p] + 1]
      /\ branch' = [branch EXCEPT ![b] = branch[p] \cup {b}]
      /\ delivered' = [delivered EXCEPT ![r] = @ \cup {b}]
      /\ b_lock' = [b_lock EXCEPT ![r] = lock]
      /\ b_exec' = [b_exec EXCEPT ![r] = exec]
      /\ decided' = [decided EXCEPT ![r] = NewDecided(r, q)]
      /\ vheight' = [vheight EXCEPT ![r] = height[p] + 1]
      /\ votes' = votes \cup {<<r, b>>}
      /\ hqc_tail' = [hqc_tail EXCEPT ![r] = b]
      /\ hqc' = hqc
  BY DEF Propose
<1>2. /\ b_lock'[r] = lock /\ b_exec'[r] = exec /\ decided'[r] = NewDecided(r, q)
      /\ hqc_tail'[r] = b /\ hqc'[r] = q /\ vheight'[r] = height[p] + 1
      /\ delivered'[r] = delivered[r] \cup {b}
      /\ \A s \in Replica \ {r} :
            /\ hqc'[s] = hqc[s] /\ b_lock'[s] = b_lock[s] /\ b_exec'[s] = b_exec[s]
            /\ decided'[s] = decided[s] /\ hqc_tail'[s] = hqc_tail[s]
            /\ vheight'[s] = vheight[s] /\ delivered'[s] = delivered[s]
  BY <1>1 DEF Inv, TypeOK
<1>3. DeliveredAt(r) /\ ReplicaAt(r)
  BY DEF Inv, DeliveredInv, ReplicaInv
<1>4. /\ p \in delivered[r] /\ q \in delivered[r] /\ q \in branch[p]
      /\ Certified(q) /\ height[b_lock[r]] <= height[q]
      /\ delivered[r] \subseteq blocks /\ b_lock[r] \in blocks
      /\ \A c \in delivered[r] : branch[c] \subseteq delivered[r]
  BY <1>3 DEF DeliveredAt, ReplicaAt
<1>5. /\ parent'[b] = p /\ qc_ref'[b] = q /\ height'[b] = height[p] + 1
      /\ branch'[b] = branch[p] \cup {b}
      /\ \A c \in blocks : /\ parent'[c] = parent[c] /\ qc_ref'[c] = qc_ref[c]
                           /\ height'[c] = height[c] /\ branch'[c] = branch[c]
  BY <1>1 DEF Inv, TypeOK
<1>6. /\ lock \in delivered[r] /\ height[lock] >= height[b_lock[r]]
      /\ height[lock] >= height[qc_ref[q]] /\ height[lock] <= height[q]
  <2>1. NewHqc(r, q) = q
    BY <1>4 DEF NewHqc, Inv, TypeOK
  <2> QED BY <1>4, <2>1, UpdateFacts
<1>7. /\ height[p] \in Nat /\ height[lock] \in Nat /\ height[b_lock[r]] \in Nat
      /\ height[q] \in Nat /\ vheight[r] \in Nat
      /\ p \in blocks /\ q \in blocks /\ lock \in blocks /\ qc_ref[q] \in blocks
      /\ b # b0
  <2>1. qc_ref[q] \in delivered[r]
    BY <1>4, QcRefDelivered
  <2> QED
    BY <1>1, <1>4, <1>6, <2>1 DEF Inv, TypeOK, TreeInv, GenesisInv
<1>8. Grows
  <2>1. \A s \in Replica : height[b_lock[s]] <= height'[b_lock'[s]]
    <3>1. \A s \in Replica : b_lock[s] \in blocks
      BY DEF Inv, DeliveredInv, DeliveredAt
    <3>2. \A s \in Replica : height[b_lock[s]] \in Nat
      BY DEF Inv, TypeOK
    <3>3. height[b_lock[r]] <= height'[b_lock'[r]]
      BY <1>2, <1>5, <1>6, <1>7
    <3>4. \A s \in Replica \ {r} : height'[b_lock'[s]] = height[b_lock[s]]
      BY <1>2, <1>5, <3>1
    <3> QED BY <3>2, <3>3, <3>4
  <2>2. \A s \in Replica : vheight[s] <= vheight'[s]
    BY <1>1, <1>2, <1>7 DEF Inv, TypeOK
  <2>3. \A s \in Replica : delivered[s] \subseteq delivered'[s]
    BY <1>2
  <2> QED BY <1>1, <1>5, <2>1, <2>2, <2>3 DEF Grows
<1>9. TreeInv'
  <2>1. GenesisInv'
    BY <1>1, <1>5 DEF Inv, TreeInv, GenesisInv
  <2>2. BranchInv'
    <3>1. \A c \in branch[p] : /\ c \in blocks /\ branch[c] \subseteq branch[p]
                               /\ branch[c] \subseteq blocks
                               /\ height[c] \in Nat /\ height[c] <= height[p]
      BY <1>7 DEF Inv, TreeInv, BranchInv, TypeOK
    <3>2. ASSUME NEW c \in blocks
          PROVE  /\ branch'[c] \subseteq blocks'
                 /\ c \in branch'[c] /\ b0 \in branch'[c]
                 /\ \A d \in branch'[c] :
                       /\ branch'[d] \subseteq branch'[c]
                       /\ height'[d] <= height'[c]
                       /\ height'[d] = height'[c] => d = c
                       /\ \A e \in branch'[c] : height'[d] <= height'[e] => d \in branch'[e]
      <4>1. branch[c] \subseteq blocks
        BY DEF Inv, TreeInv, BranchInv
      <4> QED BY <1>1, <1>5, <4>1 DEF Inv, TreeInv, BranchInv
    <3>3. /\ branch'[b] \subseteq blocks' /\ b \in branch'[b] /\ b0 \in branch'[b]
      BY <1>1, <1>5, <1>7, <3>1 DEF Inv, TreeInv, BranchInv
    <3>4. ASSUME NEW d \in branch'[b]
          PROVE  /\ branch'[d] \subseteq branch'[b]
                 /\ height'[d] <= height'[b]
                 /\ height'[d] = height'[b] => d = b
                 /\ \A e \in branch'[b] : height'[d] <= height'[e] => d \in branch'[e]
      <4>1. CASE d = b
        <5>1. \A e \in branch[p] : ~ (height'[b] <= height'[e])
          BY <1>5, <1>7, <3>1
        <5> QED BY <1>5, <1>7, <4>1, <5>1
      <4>2. CASE d \in branch[p]
        <5>1. d \in blocks /\ height'[d] = height[d] /\ branch'[d] = branch[d]
          BY <1>5, <3>1, <4>2
        <5>2. height'[d] < height'[b]
          BY <1>5, <1>7, <3>1, <4>2, <5>1
        <5>3. \A e \in branch[p] : height'[d] <= height'[e] => d \in branch'[e]
          BY <1>5, <1>7, <3>1, <4>2, <5>1 DEF Inv, TreeInv, BranchInv
        <5>4. d \in branch'[b]
          BY <1>5, <4>2
        <5> QED BY <1>5, <1>7, <3>1, <4>2, <5>1, <5>2, <5>3, <5>4
      <4> QED BY <1>5, <4>1, <4>2
    <3> QED
      BY <1>1, <3>2, <3>3, <3>4 DEF BranchInv
  <2>3. ParentInv'
    <3>1. ASSUME NEW c \in blocks \ {b0}
          PROVE  /\ parent'[c] \in blocks'
                 /\ branch'[c] = branch'[parent'[c]] \cup {c}
                 /\ height'[c] = height'[parent'[c]] + 1
                 /\ qc_ref'[c] \in branch'[parent'[c]]
                 /\ Certified(qc_ref[c])'
      <4>1. Certified(qc_ref[c])'
        BY <1>5, <1>8 DEF Inv, TreeInv, ParentInv, Certified, Grows
      <4> QED BY <1>1, <1>5, <4>1 DEF Inv, TreeInv, ParentInv
    <3>2. Certified(qc_ref[b])'
      BY <1>4, <1>5, <1>8 DEF Certified, Grows
    <3> QED
      BY <1>1, <1>4, <1>5, <1>7, <3>1, <3>2 DEF ParentInv
  <2> QED
    BY <2>1, <2>2, <2>3 DEF TreeInv
<1>10. DeliveredAt(r)' /\ ReplicaAt(r)'
  <2>1. /\ delivered'[r] \subseteq blocks'
        /\ \A c \in delivered'[r] : branch'[c] \subseteq delivered'[r]
        /\ b \in delivered'[r] /\ q \in branch'[b]
        /\ height[q] >= height[lock]
    BY <1>1, <1>2, <1>4, <1>5, <1>6, <1>7
  <2> QED
    BY <1>2, <1>4, <1>8, <2>1, UpdatedReplica
<1>11. \A s \in Replica \ {r} : DeliveredAt(s)' /\ ReplicaAt(s)'
  BY <1>2, <1>8, IdleReplica
<1>12. VoteInv'
  <2>1. height'[qc_ref'[qc_ref'[b]]] <= height'[b_lock'[r]]
    <3>1. height[qc_ref[q]] \in Nat
      BY <1>7 DEF Inv, TypeOK
    <3> QED BY <1>2, <1>5, <1>6, <1>7, <3>1
  <2>2. \E c \in branch'[b] \ {b} :
           c \in blocks /\ Certified(c) /\ height[c] >= height[b_lock[r]]
    BY <1>1, <1>4, <1>5, <1>7
  <2>3. /\ height'[b] > vheight[r] /\ vheight'[r] = height'[b]
        /\ b \in delivered'[r]
    BY <1>1, <1>2, <1>5
  <2> QED
    BY <1>1, <1>7, <1>8, <2>1, <2>2, <2>3, VoteStep
<1>13. Rises(r)
  <2>1. exec \in delivered[r] /\ b_exec[r] \in branch[exec]
    BY <1>4, UpdateFacts
  <2> QED BY <1>2, <1>4, <1>7, <2>1 DEF Rises
<1>14. \A s \in Replica : Advance(s)
  BY <1>2, <1>8, <1>13, IdleRises, GrowsAdvances
<1> QED
  BY <1>9, <1>10, <1>11, <1>12, <1>14 DEF Inv, DeliveredInv, ReplicaInv

(* on_propose keeps the invariant when it throws: the update that ran      *)
(* before may have locked and committed.                                   *)
LEMMA InvProposeThrows ==
    ASSUME Inv, TypeOK', NEW r \in Replica, ProposeThrows(r)
    PROVE  Inv' /\ \A s \in Replica : Advance(s)
<1> PICK q : q = hqc[r]
  OBVIOUS
<1> PICK lock : lock = NewLock(r, q)
  OBVIOUS
<1> PICK exec : exec = NewExec(r, q)
  OBVIOUS
<1> PICK t : t = hqc_tail[r]
  OBVIOUS
<1>1. /\ b_lock' = [b_lock EXCEPT ![r] = lock]
      /\ b_exec' = [b_exec EXCEPT ![r] = exec]
      /\ decided' = [decided EXCEPT ![r] = NewDecided(r, q)]
      /\ UNCHANGED <<blocks, parent, qc_ref, height, branch, votes, delivered,
                     hqc, vheight, hqc_tail>>
  BY DEF ProposeThrows, tree
<1>2. /\ b_lock'[r] = lock /\ b_exec'[r] = exec /\ decided'[r] = NewDecided(r, q)
      /\ hqc_tail'[r] = t /\ hqc'[r] = q
      /\ \A s \in Replica \ {r} :
            /\ hqc'[s] = hqc[s] /\ b_lock'[s] = b_lock[s] /\ b_exec'[s] = b_exec[s]
            /\ decided'[s] = decided[s] /\ hqc_tail'[s] = hqc_tail[s]
  BY <1>1 DEF Inv, TypeOK
<1>3. DeliveredAt(r) /\ ReplicaAt(r)
  BY DEF Inv, DeliveredInv, ReplicaInv
<1>4. /\ t \in delivered[r] /\ q \in delivered[r] /\ q \in branch[t]
      /\ Certified(q) /\ q \in blocks
      /\ delivered[r] \subseteq blocks
      /\ \A c \in delivered[r] : branch[c] \subseteq delivered[r]
  BY <1>3 DEF DeliveredAt, ReplicaAt
<1>5. /\ lock \in delivered[r] /\ height[lock] >= height[b_lock[r]]
      /\ height[lock] <= height[q]
      /\ exec \in delivered[r] /\ b_exec[r] \in branch[exec]
  <2>1. NewHqc(r, q) = q
    BY <1>4 DEF NewHqc, Inv, TypeOK
  <2> QED BY <1>4, <2>1, UpdateFacts
<1>6. height[lock] \in Nat /\ height[q] \in Nat /\ height[b_lock[r]] \in Nat
  BY <1>4, <1>5 DEF Inv, TypeOK
<1>7. Grows
  <2>1. \A s \in Replica : height[b_lock[s]] <= height'[b_lock'[s]]
    BY <1>1, <1>2, <1>5, <1>6 DEF Inv, TypeOK
  <2>2. \A s \in Replica : vheight[s] <= vheight'[s]
    BY <1>1 DEF Inv, TypeOK
  <2> QED BY <1>1, <2>1, <2>2 DEF Grows
<1>8. TreeInv'
  BY <1>1 DEF Inv, TreeInv, GenesisInv, BranchInv, ParentInv, Certified
<1>9. DeliveredAt(r)' /\ ReplicaAt(r)'
  <2>1. /\ delivered'[r] \subseteq blocks'
        /\ \A c \in delivered'[r] : branch'[c] \subseteq delivered'[r]
        /\ t \in delivered'[r] /\ q \in branch'[t]
        /\ height[q] >= height[lock]
    BY <1>1, <1>4, <1>5, <1>6
  <2> QED
    BY <1>2, <1>4, <1>7, <2>1, UpdatedReplica
<1>10. \A s \in Replica \ {r} : DeliveredAt(s)' /\ ReplicaAt(s)'
  BY <1>1, <1>2, <1>7, IdleReplica
<1>11. VoteInv'
  BY <1>1, <1>7, NoVoteStep
<1>12. Rises(r)
  BY <1>2, <1>4, <1>5, <1>6 DEF Rises
<1>13. \A s \in Replica : Advance(s)
  BY <1>2, <1>7, <1>12, IdleRises, GrowsAdvances
<1> QED
  BY <1>8, <1>9, <1>10, <1>11, <1>13 DEF Inv, DeliveredInv, ReplicaInv

(* So does a step that leaves the replicas' state alone.                   *)
LEMMA InvUnchanged ==
    ASSUME Inv, TypeOK',
           UNCHANGED <<tree, votes, delivered, decided, hqc, b_lock, b_exec,
                       vheight, hqc_tail>>
    PROVE  Inv' /\ \A s \in Replica : Advance(s)
<1>1. Grows
  BY DEF Grows, tree, Inv, TypeOK
<1>2. TreeInv'
  BY DEF tree, Inv, TreeInv, GenesisInv, BranchInv, ParentInv, Certified
<1>3. \A s \in Replica : DeliveredAt(s)' /\ ReplicaAt(s)'
  BY <1>1, IdleReplica
<1>4. VoteInv'
  BY <1>1, NoVoteStep
<1>5. \A s \in Replica : Advance(s)
  BY <1>1, IdleRises, GrowsAdvances
<1> QED
  BY <1>2, <1>3, <1>4, <1>5 DEF Inv, DeliveredInv, ReplicaInv

(* Every step keeps the invariant and takes nothing back.                  *)
LEMMA InvNext == Inv /\ [Next]_vars => Inv' /\ \A s \in Replica : Advance(s)
<1> SUFFICES ASSUME Inv, [Next]_vars PROVE Inv' /\ \A s \in Replica : Advance(s)
  OBVIOUS
<1>0. TypeOK'
  BY TypeStep DEF Inv
<1>1. ASSUME NEW r \in Replica, NEW b \in Block, Propose(r, b)
      PROVE  Inv' /\ \A s \in Replica : Advance(s)
  BY <1>0, <1>1, InvPropose
<1>2. ASSUME NEW r \in Replica, NEW b \in Block, DeliverBlk(r, b)
      PROVE  Inv' /\ \A s \in Replica : Advance(s)
  BY <1>0, <1>2, InvDeliverBlk
<1>3. ASSUME NEW r \in Replica, NEW b \in Block, ReceiveProposal(r, b)
      PROVE  Inv' /\ \A s \in Replica : Advance(s)
  BY <1>0, <1>3, InvReceiveProposal
<1>4. ASSUME NEW r \in Replica, NEW b \in Block, QcFinish(r, b)
      PROVE  Inv' /\ \A s \in Replica : Advance(s)
  BY <1>0, <1>4, InvQcFinish
<1>5. ASSUME NEW r \in Replica, ProposeThrows(r)
      PROVE  Inv' /\ \A s \in Replica : Advance(s)
  BY <1>0, <1>5, InvProposeThrows
<1>6. CASE UNCHANGED vars
  BY <1>0, <1>6, InvUnchanged DEF vars
<1> QED
  BY <1>1, <1>2, <1>3, <1>4, <1>5, <1>6 DEF Next

-----------------------------------------------------------------------------
(***************************************************************************)
(* The theorems.                                                           *)
(***************************************************************************)
(* The inductive invariant holds in every reachable state.                 *)
THEOREM Invariance == Spec => []Inv
BY InvInit, InvNext, PTL DEF Spec

(* No replica signs two blocks of one height: vheight, set by both         *)
(* process_block and on_receive_proposal, is enough for it.                *)
THEOREM OneVote == Spec => []OneVotePerHeight
<1>1. Inv => OneVotePerHeight
  BY DEF Inv, TypeOK, VoteInv, OneVotePerHeight
<1> QED
  BY <1>1, Invariance, PTL

(* The pacemaker's parent extends hqc and every block extends the block    *)
(* its QC is for, so the voting rule may rely on qc_ref.                   *)
THEOREM ParentsExtend == Spec => []ParentExtendsHqc
<1>1. ASSUME Inv PROVE ParentExtendsHqc
  <2>1. \A r \in Replica : Extends(hqc_tail[r], hqc[r])
    BY <1>1 DEF Inv, ReplicaInv, ReplicaAt, Extends
  <2>2. \A b \in blocks : Extends(b, qc_ref[b])
    BY <1>1 DEF Inv, TreeInv, GenesisInv, ParentInv, Extends
  <2> QED
    BY <2>1, <2>2 DEF ParentExtendsHqc
<1> QED
  BY <1>1, Invariance, PTL

(* The decision flags, b_exec and b_lock of a replica stay in step.        *)
THEOREM Executed == Spec => []DecidedIsExecuted
<1>1. Inv => DecidedIsExecuted
  BY DEF Inv, ReplicaInv, ReplicaAt, DecidedIsExecuted
<1> QED
  BY <1>1, Invariance, PTL

(* The exception "safety breached" of update is unreachable.               *)
THEOREM NeverBreached == Spec => []NoSafetyBreach
<1>1. ASSUME Inv PROVE NoSafetyBreach
  <2> SUFFICES ASSUME NEW r \in Replica, NEW b \in delivered[r]
               PROVE  ~ Breach(r, qc_ref[b])
    BY DEF NoSafetyBreach
  <2> QED
    BY <1>1, QcRefDelivered, NoBreach
<1> QED
  BY <1>1, Invariance, PTL

(* The decided blocks of two replicas are comparable.                      *)
LEMMA InvAgreement == Inv => Agreement
<1> SUFFICES ASSUME Inv, NEW r \in Replica, NEW s \in Replica
             PROVE  decided[r] \subseteq decided[s] \/ decided[s] \subseteq decided[r]
  BY DEF Agreement
<1>1. /\ b_exec[r] \in blocks /\ b_exec[s] \in blocks
      /\ decided[r] = branch[b_exec[r]] /\ decided[s] = branch[b_exec[s]]
  BY DEF Inv, DeliveredInv, DeliveredAt, ReplicaInv, ReplicaAt
<1>2. b_exec[s] \in branch[b_exec[r]] \/ b_exec[r] \in branch[b_exec[s]]
  <2>1. CASE b_exec[r] = b0 \/ b_exec[s] = b0
    BY <1>1, <2>1 DEF Inv, TreeInv, BranchInv
  <2>2. CASE b_exec[r] # b0 /\ b_exec[s] # b0
    <3>1. Committable(b_exec[r]) /\ Committable(b_exec[s])
      BY <2>2 DEF Inv, ReplicaInv, ReplicaAt
    <3>2. Certified(b_exec[r]) /\ Certified(b_exec[s])
      BY <3>1 DEF Committable, ThreeChain, Inv, TreeInv, ParentInv
    <3>3. \/ height[b_exec[r]] >= height[b_exec[s]]
          \/ height[b_exec[s]] >= height[b_exec[r]]
      BY <1>1 DEF Inv, TypeOK
    <3> QED
      BY <1>1, <3>1, <3>2, <3>3, CertifiedExtendsCommittable
  <2> QED
    BY <2>1, <2>2
<1> QED
  BY <1>1, <1>2 DEF Inv, TreeInv, BranchInv

(* Agreement: replicas never decide differently, whatever is lost, late or *)
(* repeated and whichever replicas stop.                                   *)
THEOREM AgreementHolds == Spec => []Agreement
BY InvAgreement, Invariance, PTL

(* Locks, hqc, vote heights and executed branches never go back.           *)
THEOREM Advances == Spec => OnlyAdvances
<1>1. Inv /\ [Next]_vars => [\A r \in Replica : Advance(r)]_vars
  BY InvNext
<1> QED
  BY <1>1, Invariance, PTL DEF Spec, OnlyAdvances

(* Every step changes the decisions of at most one replica, and to more.   *)
LEMMA DecidedStep ==
    ASSUME Inv, Next
    PROVE  \/ decided' = decided
           \/ \E r \in Replica : \E S \in SUBSET Block :
                 /\ decided[r] \subseteq S
                 /\ decided' = [decided EXCEPT ![r] = S]
<1>1. ASSUME NEW r \in Replica, NEW q \in Block,
             decided' = [decided EXCEPT ![r] = NewDecided(r, q)]
      PROVE  \E S \in SUBSET Block : /\ decided[r] \subseteq S
                                     /\ decided' = [decided EXCEPT ![r] = S]
  <2>1. NewDecided(r, q) \in SUBSET Block
    BY UpdateType DEF Inv
  <2>2. decided[r] \subseteq NewDecided(r, q)
    BY DEF NewDecided
  <2> QED
    BY <1>1, <2>1, <2>2
<1>2. ASSUME NEW r \in Replica, NEW b \in Block, Propose(r, b)
      PROVE  \E S \in SUBSET Block : /\ decided[r] \subseteq S
                                     /\ decided' = [decided EXCEPT ![r] = S]
  <2>1. hqc[r] \in Block
    BY DEF Inv, TypeOK
  <2> QED BY <1>1, <1>2, <2>1 DEF Propose
<1>3. ASSUME NEW r \in Replica, NEW b \in Block, ReceiveProposal(r, b)
      PROVE  \E S \in SUBSET Block : /\ decided[r] \subseteq S
                                     /\ decided' = [decided EXCEPT ![r] = S]
  <2>1. qc_ref[b] \in Block
    BY DEF Inv, TypeOK
  <2> QED BY <1>1, <1>3, <2>1 DEF ReceiveProposal
<1>4. ASSUME NEW r \in Replica, NEW b \in Block, DeliverBlk(r, b) \/ QcFinish(r, b)
      PROVE  decided' = decided
  BY <1>4 DEF DeliverBlk, QcFinish
<1>5. ASSUME NEW r \in Replica, ProposeThrows(r)
      PROVE  \E S \in SUBSET Block : /\ decided[r] \subseteq S
                                     /\ decided' = [decided EXCEPT ![r] = S]
  <2>1. hqc[r] \in Block
    BY DEF Inv, TypeOK
  <2> QED BY <1>1, <1>5, <2>1 DEF ProposeThrows
<1> QED
  BY <1>2, <1>3, <1>4, <1>5 DEF Next

(* Refinement: the core implements AgreedChains.                           *)
THEOREM Refinement == Spec => RefinesChains
<1>1. Init => Chains!Init
  BY DEF Init, Chains!Init
<1>2. Inv /\ Inv' /\ [Next]_vars => [Chains!Next]_decided
  <2> SUFFICES ASSUME Inv, Inv', Next, decided' # decided
               PROVE  Chains!Next
    BY DEF vars
  <2>1. PICK r \in Replica, S \in SUBSET Block :
           /\ decided[r] \subseteq S
           /\ decided' = [decided EXCEPT ![r] = S]
    BY DecidedStep
  <2>2. decided'[r] = S /\ \A s \in Replica \ {r} : decided'[s] = decided[s]
    BY <2>1 DEF Inv, TypeOK
  <2>3. Agreement'
    BY InvAgreement, PTL
  <2>4. \A s \in Replica \ {r} : S \subseteq decided[s] \/ decided[s] \subseteq S
    BY <2>2, <2>3 DEF Agreement
  <2> QED
    BY <2>1, <2>2, <2>4 DEF Chains!Next, Chains!Decide
<1> QED
  BY <1>1, <1>2, Invariance, PTL DEF Spec, RefinesChains, Chains!Spec
=============================================================================
