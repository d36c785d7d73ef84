-------------------------- MODULE RoundRobinProofs --------------------------
(***************************************************************************)
(* Proofs about RoundRobin, for every number of replicas, size of a batch  *)
(* and bound on the blocks.                                                *)
(***************************************************************************)
EXTENDS RoundRobin, SequenceTheorems, WellFoundedInduction, TLAPS

-----------------------------------------------------------------------------
(* Loops as recursive functions: the induction over the number of runs of  *)
(* the body is on sets, so that no lemma takes an operator.                *)

(* g[k] is what the loop has computed after k of its M runs, the k-th of   *)
(* which applies f[k].                                                     *)
IsRun(g, M, a, f) ==
    /\ DOMAIN g = 0..M /\ g = [k \in 0..M |-> g[k]]
    /\ g[0] = a
    /\ \A k \in 1..M : g[k] = f[k][g[k - 1]]

(* A set of numbers that is not empty has a least one.                     *)
LEMMA LeastNumber ==
    ASSUME NEW S \in SUBSET Nat, S # {}
    PROVE  \E m \in S : \A n \in S : m <= n
<1> DEFINE R == OpToRel(<, Nat)
<1>1. IsWellFoundedOn(R, Nat)
  BY NatLessThanWellFounded
<1>2. PICK m \in S : \A n \in S : ~ (<<n, m>> \in R)
  <2> HIDE DEF R
  <2> QED BY <1>1, WFMin
<1>3. \A n \in S : ~ (n < m)
  BY <1>2 DEF OpToRel
<1> QED
  BY <1>3

(* A loop invariant: B[k] holds what may be there after k runs.            *)
LEMMA RunStays ==
    ASSUME NEW M \in Nat, NEW g, NEW B, g[0] \in B[0],
           \A k \in 1..M : g[k - 1] \in B[k - 1] => g[k] \in B[k]
    PROVE  \A k \in 0..M : g[k] \in B[k]
<1> DEFINE S == {k \in 0..M : g[k] \notin B[k]}
<1> SUFFICES ASSUME S # {} PROVE FALSE
  OBVIOUS
<1>1. PICK m \in S : \A k \in S : m <= k
  <2>1. S \in SUBSET Nat
    OBVIOUS
  <2> HIDE DEF S
  <2> QED BY <2>1, LeastNumber
<1>2. m \in 1..M
  BY <1>1
<1>3. m - 1 \notin S
  BY <1>1, <1>2
<1>4. g[m - 1] \in B[m - 1]
  BY <1>2, <1>3
<1> QED BY <1>1, <1>2, <1>4

(* Every loop of M runs computes something.                                *)
LEMMA RunExists ==
    ASSUME NEW M \in Nat, NEW a, NEW f
    PROVE  \E g : IsRun(g, M, a, f)
<1> DEFINE S == {j \in 0..M : ~ \E g : IsRun(g, j, a, f)}
<1> SUFFICES ASSUME S # {} PROVE FALSE
  OBVIOUS
<1>1. PICK m \in S : \A k \in S : m <= k
  <2>1. S \in SUBSET Nat
    OBVIOUS
  <2> HIDE DEF S
  <2> QED BY <2>1, LeastNumber
<1>2. m \in 0..M /\ ~ \E g : IsRun(g, m, a, f)
  BY <1>1
<1>3. CASE m = 0
  <2> DEFINE h == [k \in 0..0 |-> a]
  <2>1. IsRun(h, 0, a, f)
    BY DEF IsRun
  <2> QED BY <1>2, <1>3, <2>1
<1>4. CASE m # 0
  <2>1. m - 1 \in 0..M /\ m - 1 \notin S
    BY <1>1, <1>2, <1>4
  <2>2. PICK g : IsRun(g, m - 1, a, f)
    BY <2>1
  <2> DEFINE h == [k \in 0..m |-> IF k = m THEN f[m][g[m - 1]] ELSE g[k]]
  <2>3. IsRun(h, m, a, f)
    <3>1. h[0] = a
      BY <1>2, <1>4, <2>2 DEF IsRun
    <3>2. ASSUME NEW k \in 1..m
          PROVE  h[k] = f[k][h[k - 1]]
      <4>1. CASE k = m
        BY <1>2, <1>4, <4>1
      <4>2. CASE k # m
        <5>1. k \in 1..(m - 1) /\ k - 1 \in 0..m /\ k - 1 # m
          BY <1>2, <4>2
        <5>2. g[k] = f[k][g[k - 1]]
          BY <2>2, <5>1 DEF IsRun
        <5>3. h[k] = g[k] /\ h[k - 1] = g[k - 1]
          BY <4>2, <5>1
        <5> QED BY <5>2, <5>3
      <4> QED BY <4>1, <4>2
    <3> QED BY <3>1, <3>2 DEF IsRun
  <2> QED BY <1>2, <2>3
<1> QED BY <1>3, <1>4

-----------------------------------------------------------------------------

Chain == 0..MaxBlocks

(* What may wait for a QC.                                                 *)
Calls == Nat \cup {beat}

(* The record of the replica.                                              *)
Recs ==
    [proposer : 0..(nreplicas - 1), rotating : BOOLEAN,
     timer : {"none", "exp", "rotate"}, prop_blk : Chain, reg_proposal : BOOLEAN,
     pending : Nat, last_proposed : Chain, locked : BOOLEAN,
     pm_wait_propose : BOOLEAN, pm_qc_finish : Chain, pm_qc_manual : Chain,
     deferred : Nat, decision_waiting : SUBSET Nat, buffered : Nat,
     nblk : Chain, hqc : Chain, decided : Chain,
     finished : SUBSET Blocks, rejected : SUBSET Blocks,
     qc : [Chain -> Chain], carries : [Blocks -> SUBSET Nat],
     callbacks : [Blocks -> Seq(Calls)]]

(* Who waits for a QC waits for one that may come, and is called for it.   *)
Waiting(s) ==
    /\ {s.last_proposed, s.pm_qc_finish, s.pm_qc_manual} \subseteq 0..s.nblk
    /\ s.finished \cup s.rejected \subseteq 1..s.nblk
    /\ \A b \in Blocks :
          b \in s.finished \cup s.rejected \/ b > s.nblk => s.callbacks[b] = <<>>

(* A list of callbacks has a beat only if pm_qc_finish is its promise, and *)
(* do_new_consensus only if pm_qc_manual is, and at most one of each.      *)
Owned(s, b) ==
    LET cbs == s.callbacks[b]
    IN  /\ \A i \in DOMAIN cbs : IF cbs[i] = beat THEN b = s.pm_qc_finish
                                 ELSE b = s.pm_qc_manual
        /\ \A i, j \in DOMAIN cbs : (cbs[i] = beat <=> cbs[j] = beat) => i = j

AllOwned(s) == \A b \in Blocks : Owned(s, b)

(* Outside rotations the replica is the proposer; unlocked, the promise of *)
(* last_proposed has not been given to anybody, nor been rejected.         *)
Settled(s) ==
    ~ s.rotating =>
        /\ s.proposer = me /\ s.pm_wait_propose
        /\ ~ s.locked => /\ s.last_proposed \notin s.rejected
                         /\ s.last_proposed # 0 => s.pm_qc_finish # s.last_proposed

Core(s) == s \in Recs /\ Waiting(s) /\ AllOwned(s)

Good(s) == Core(s) /\ Settled(s)

(* LockedWaits of a record.                                                *)
LockWaits(s) ==
    s.locked /\ ~ s.rotating =>
        /\ s.last_proposed \in Blocks \ s.finished
        /\ beat \in Range(s.callbacks[s.last_proposed])

(* In another's turn only beats wait, which do nothing then.               *)
OnlyBeats(s) ==
    \A b \in Blocks : \A i \in DOMAIN s.callbacks[b] : s.callbacks[b][i] = beat

(* What is true of the replica and the history between two handlers.       *)
Held(s, r) ==
    /\ r \in BOOLEAN
    /\ Good(s) /\ LockWaits(s)
    /\ s.rotating /\ s.proposer # me /\ s.timer = "none" => r
    /\ s.proposer # me /\ ~ r => OnlyBeats(s)

Inv == Held(pm, raced)

(* What decisions leave of a record: promises may be given up, nobody is   *)
(* added.                                                                  *)
Fewer(s, t) ==
    /\ t.nblk = s.nblk /\ t.finished = s.finished /\ t.proposer = s.proposer
    /\ t.pending = s.pending
    /\ t.pm_qc_finish = s.pm_qc_finish /\ t.pm_qc_manual = s.pm_qc_manual
    /\ t.last_proposed \in {0, s.last_proposed}
    /\ t.rejected \subseteq s.rejected \cup {s.pm_qc_finish, s.pm_qc_manual}
    /\ \A b \in Blocks : t.callbacks[b] \in {<<>>, s.callbacks[b]}

(* The same to all that Good is about.                                     *)
Alike(s, t) ==
    /\ t.nblk = s.nblk /\ t.finished = s.finished /\ t.rejected = s.rejected
    /\ t.callbacks = s.callbacks /\ t.proposer = s.proposer /\ t.rotating = s.rotating
    /\ t.pm_qc_finish = s.pm_qc_finish /\ t.pm_qc_manual = s.pm_qc_manual
    /\ t.last_proposed = s.last_proposed /\ t.locked = s.locked
    /\ t.pm_wait_propose = s.pm_wait_propose

(* The promises of the blocks in S are rejected, and nothing else.         *)
Rejects(s, t, S) ==
    /\ t = [s EXCEPT !.rejected = t.rejected, !.callbacks = t.callbacks]
    /\ t \in Recs
    /\ t.rejected \subseteq s.rejected \cup S /\ s.rejected \subseteq t.rejected
    /\ \A c \in Blocks : t.callbacks[c] = IF c \in S THEN <<>> ELSE s.callbacks[c]

(* Nobody of the kind of x (a beat, or do_new_consensus) waits for b.      *)
NoneLike(s, b, x) ==
    \A i \in DOMAIN s.callbacks[b] : ~ (s.callbacks[b][i] = beat <=> x = beat)

(* The promise of b may get a callback x.                                  *)
MayWait(s, b, x) ==
    /\ b \in 1..s.nblk /\ b \notin s.finished \cup s.rejected
    /\ x \in Calls /\ NoneLike(s, b, x)
    /\ b = IF x = beat THEN s.pm_qc_finish ELSE s.pm_qc_manual

-----------------------------------------------------------------------------
(* The pieces of the pacemaker, one by one.                                *)
LEMMA ChainFacts ==
    /\ MaxBlocks \in Nat /\ nreplicas \in Nat \ {0} /\ blk_size \in Nat \ {0}
    /\ 0 \in Chain /\ 0 \notin Blocks /\ Blocks \subseteq Chain
    /\ \A b \in Chain : b # 0 => b \in Blocks
BY RoundRobinAssumption DEF Chain, Blocks

(* Fewer callbacks, and more promises that are rejected.                   *)
LEMMA FewerCore ==
    ASSUME NEW s, Core(s), NEW t, t \in Recs, Fewer(s, t),
           s.rejected \subseteq t.rejected,
           \A b \in Blocks : b \in t.rejected \ s.rejected => t.callbacks[b] = <<>>
    PROVE  Core(t)
<1>1. Waiting(t)
  <2>1. s.nblk \in Nat
    BY DEF Core, Recs, Chain
  <2>2. t.rejected \subseteq 1..s.nblk
    <3>1. t.rejected \subseteq Blocks
      BY DEF Recs
    <3>2. \A b \in Blocks : b \in 0..s.nblk => b \in 1..s.nblk
      BY <2>1, ChainFacts DEF Blocks
    <3> QED BY <3>1, <3>2 DEF Core, Waiting, Fewer
  <2>3. {t.last_proposed, t.pm_qc_finish, t.pm_qc_manual} \subseteq 0..t.nblk
    BY <2>1 DEF Core, Waiting, Fewer
  <2>4. \A b \in Blocks :
           b \in t.finished \cup t.rejected \/ b > t.nblk => t.callbacks[b] = <<>>
    BY DEF Core, Waiting, Fewer
  <2> QED BY <2>2, <2>3, <2>4 DEF Core, Waiting, Fewer
<1>2. AllOwned(t)
  <2>1. SUFFICES ASSUME NEW b \in Blocks PROVE Owned(t, b)
    BY DEF AllOwned
  <2>2. Owned(s, b)
    BY DEF Core, AllOwned
  <2>3. CASE t.callbacks[b] = s.callbacks[b]
    BY <2>2, <2>3 DEF Owned, Fewer
  <2>4. CASE t.callbacks[b] = <<>>
    BY <2>4 DEF Owned
  <2> QED BY <2>3, <2>4 DEF Fewer
<1> QED BY <1>1, <1>2 DEF Core

(* Rejecting one of the pacemaker's promises clears its callbacks.         *)
LEMMA RejectOne ==
    ASSUME NEW s, Core(s), NEW b \in {s.pm_qc_finish, s.pm_qc_manual}
    PROVE  Rejects(s, Reject(s, b), {b}) /\ Core(Reject(s, b))
<1> DEFINE t == Reject(s, b)
<1>1. s \in Recs /\ b \in Chain
  BY DEF Core, Recs
<1>2. CASE b \in s.finished \cup {0}
  <2>1. t = s
    BY <1>2 DEF Reject
  <2>2. s = [s EXCEPT !.rejected = s.rejected, !.callbacks = s.callbacks]
    BY <1>1 DEF Recs
  <2>3. \A c \in Blocks : s.callbacks[c] = IF c \in {b} THEN <<>> ELSE s.callbacks[c]
    BY <1>2, ChainFacts DEF Core, Waiting
  <2> QED BY <1>1, <2>1, <2>2, <2>3 DEF Rejects
<1>3. CASE b \notin s.finished \cup {0}
  <2> DEFINE R == s.rejected \cup {b}
             C == [s.callbacks EXCEPT ![b] = <<>>]
  <2>1. t = [s EXCEPT !.rejected = R, !.callbacks = C]
    BY <1>3 DEF Reject
  <2>2. b \in Blocks
    BY <1>1, <1>3, ChainFacts
  <2>3. s.callbacks \in [Blocks -> Seq(Calls)] /\ R \subseteq Blocks
    BY <1>1, <2>2 DEF Recs
  <2>4. C \in [Blocks -> Seq(Calls)]
    BY <2>2, <2>3
  <2>5. \A c \in Blocks : C[c] = IF c \in {b} THEN <<>> ELSE s.callbacks[c]
    BY <2>3
  <2>6. R \subseteq s.rejected \cup {b} /\ s.rejected \subseteq R
    OBVIOUS
  <2> HIDE DEF C, R, t
  <2>7. /\ t \in Recs /\ t.rejected = R /\ t.callbacks = C
        /\ t.nblk = s.nblk /\ t.finished = s.finished /\ t.proposer = s.proposer
        /\ t.pending = s.pending
        /\ t.pm_qc_finish = s.pm_qc_finish /\ t.pm_qc_manual = s.pm_qc_manual
        /\ t.last_proposed = s.last_proposed
    BY <1>1, <2>1, <2>3, <2>4 DEF Recs
  <2>8. Rejects(s, t, {b})
    BY <2>1, <2>5, <2>6, <2>7 DEF Rejects
  <2>9. Fewer(s, t)
    BY <2>5, <2>6, <2>7 DEF Fewer
  <2>10. \A c \in Blocks : c \in t.rejected \ s.rejected => t.callbacks[c] = <<>>
    BY <2>5, <2>6, <2>7
  <2>11. Core(t)
    BY <2>6, <2>7, <2>9, <2>10, FewerCore
  <2> QED BY <2>8, <2>11 DEF t
<1> QED BY <1>2, <1>3

(* What stop_rotate and rotate do first.                                   *)
LEMMA RejectBoth ==
    ASSUME NEW s, Core(s)
    PROVE  LET t == Reject(Reject(s, s.pm_qc_finish), s.pm_qc_manual)
           IN  Rejects(s, t, {s.pm_qc_finish, s.pm_qc_manual}) /\ Core(t)
<1> DEFINE u == Reject(s, s.pm_qc_finish)
           t == Reject(u, s.pm_qc_manual)
<1>1. Rejects(s, u, {s.pm_qc_finish}) /\ Core(u)
  BY RejectOne
<1> HIDE DEF u
<1>2. u.pm_qc_manual = s.pm_qc_manual
  <2>1. s \in Recs
    BY DEF Core
  <2> QED BY <1>1, <2>1 DEF Rejects, Recs
<1>3. Rejects(u, t, {s.pm_qc_manual}) /\ Core(t)
  BY <1>1, <1>2, RejectOne
<1> HIDE DEF t
<1>4. t = [s EXCEPT !.rejected = t.rejected, !.callbacks = t.callbacks]
  <2>1. s \in Recs
    BY DEF Core
  <2> QED BY <1>1, <1>3, <2>1 DEF Rejects, Recs
<1>5. /\ t.rejected \subseteq s.rejected \cup {s.pm_qc_finish, s.pm_qc_manual}
      /\ s.rejected \subseteq t.rejected
      /\ \A c \in Blocks :
            t.callbacks[c] = IF c \in {s.pm_qc_finish, s.pm_qc_manual}
                             THEN <<>> ELSE s.callbacks[c]
  BY <1>1, <1>3 DEF Rejects
<1>6. Rejects(s, t, {s.pm_qc_finish, s.pm_qc_manual})
  BY <1>3, <1>4, <1>5 DEF Rejects
<1> QED BY <1>3, <1>6 DEF t, u

(* stop_rotate in the replica's own turn.                                  *)
LEMMA StopGood ==
    ASSUME NEW s, Core(s), s.proposer = me
    PROVE  LET t == StopRotate(s)
           IN  Good(t) /\ Fewer(s, t) /\ t.decided = s.decided
<1> DEFINE u == Reject(Reject(s, s.pm_qc_finish), s.pm_qc_manual)
           t == StopRotate(s)
<1>1. Rejects(s, u, {s.pm_qc_finish, s.pm_qc_manual}) /\ Core(u)
  BY RejectBoth
<1>2. t = [u EXCEPT !.timer = "none", !.rotating = FALSE, !.locked = FALSE,
                    !.last_proposed = 0, !.pm_wait_propose = TRUE,
                    !.deferred = u.deferred + 1]
  <2>1. t = [u EXCEPT !.timer = "none", !.rotating = FALSE, !.locked = FALSE,
                    !.last_proposed = 0, !.pm_wait_propose = TRUE,
                    !.deferred = IF s.proposer = me THEN u.deferred + 1
                                 ELSE u.deferred]
    BY Zenon DEF StopRotate
  <2> QED BY <2>1, Zenon
<1> HIDE DEF t, u
<1>3. /\ u \in Recs /\ u.decided = s.decided /\ u.pending = s.pending
      /\ u.nblk = s.nblk /\ u.finished = s.finished /\ u.proposer = s.proposer
      /\ u.pm_qc_finish = s.pm_qc_finish /\ u.pm_qc_manual = s.pm_qc_manual
  <2>1. s \in Recs
    BY DEF Core
  <2> QED BY <1>1, <2>1 DEF Rejects, Recs
<1>4. /\ t \in Recs /\ t.rejected = u.rejected /\ t.callbacks = u.callbacks
      /\ t.decided = s.decided /\ t.pending = s.pending
      /\ t.nblk = s.nblk /\ t.finished = s.finished /\ t.proposer = s.proposer
      /\ t.pm_qc_finish = s.pm_qc_finish /\ t.pm_qc_manual = s.pm_qc_manual
      /\ t.last_proposed = 0 /\ t.rotating = FALSE /\ t.locked = FALSE
      /\ t.pm_wait_propose = TRUE
  <2> DEFINE d == u.deferred + 1
  <2>1. d \in Nat
    BY <1>3 DEF Recs
  <2>2. t = [u EXCEPT !.timer = "none", !.rotating = FALSE, !.locked = FALSE,
                    !.last_proposed = 0, !.pm_wait_propose = TRUE, !.deferred = d]
    BY <1>2
  <2> HIDE DEF d
  <2> QED BY <1>3, <2>1, <2>2, ChainFacts DEF Recs
<1>5. Fewer(s, t)
  BY <1>1, <1>4 DEF Fewer, Rejects
<1>6. Core(t)
  <2>1. \A c \in Blocks : c \in t.rejected \ s.rejected => t.callbacks[c] = <<>>
    BY <1>1, <1>4 DEF Rejects
  <2> QED BY <1>1, <1>4, <1>5, <2>1, FewerCore DEF Rejects
<1>7. Settled(t)
  BY <1>4, ChainFacts DEF Settled, Recs
<1> QED BY <1>4, <1>5, <1>6, <1>7 DEF Good, t

(* What depends on nothing that Alike lets change.                         *)
LEMMA AlikeGood ==
    ASSUME NEW s, NEW t, t \in Recs, Alike(s, t), Good(s)
    PROVE  Good(t) /\ (LockWaits(s) => LockWaits(t))
<1>1. Waiting(t)
  BY DEF Alike, Good, Core, Waiting
<1>2. AllOwned(t)
  BY DEF Alike, Good, Core, AllOwned, Owned
<1>3. Settled(t)
  BY DEF Alike, Good, Settled
<1>4. LockWaits(s) => LockWaits(t)
  BY DEF Alike, LockWaits
<1> QED BY <1>1, <1>2, <1>3, <1>4 DEF Good, Core

(* Fewer is reflexive and transitive, for the loop over decisions.         *)
LEMMA FewerOrder ==
    /\ \A s : Fewer(s, s)
    /\ \A s, t, u : Fewer(s, t) /\ Fewer(t, u) => Fewer(s, u)
BY DEF Fewer

(* A decision.                                                             *)
LEMMA DecideGood ==
    ASSUME NEW s, Good(s), NEW b \in Blocks
    PROVE  Good(Decide(s, b)) /\ Fewer(s, Decide(s, b))
<1> DEFINE u == [s EXCEPT !.timer = "none"]
           c == OnConsensus(s, b)
           w == c.decision_waiting \ s.carries[b]
           t == [c EXCEPT !.decided = b, !.decision_waiting = w]
<1>1. u \in Recs /\ Alike(s, u) /\ u.pending = s.pending
  BY DEF Good, Core, Recs, Alike
<1>2. Good(u) /\ Fewer(s, u)
  <2> HIDE DEF u
  <2> QED BY <1>1, AlikeGood DEF Alike, Fewer
<1>3. Good(c) /\ Fewer(s, c)
  <2>1. CASE s.proposer = me /\ s.prop_blk = b
    <3>1. c = StopRotate(u)
      BY <2>1 DEF OnConsensus
    <3>2. Core(u) /\ u.proposer = me
      BY <1>1, <1>2, <2>1 DEF Good, Alike
    <3> HIDE DEF u, c
    <3>3. Good(c) /\ Fewer(u, c)
      BY <3>1, <3>2, StopGood
    <3> QED BY <1>2, <3>3, FewerOrder
  <2>2. CASE ~ (s.proposer = me /\ s.prop_blk = b)
    <3>1. c = u
      BY <2>2 DEF OnConsensus
    <3> QED BY <1>2, <3>1
  <2> QED BY <2>1, <2>2
<1>4. Decide(s, b) = t
  BY Zenon DEF Decide
<1> HIDE DEF c
<1>5. w \subseteq Nat /\ b \in Chain
  BY <1>3, ChainFacts DEF Good, Core, Recs
<1> HIDE DEF w
<1>6. t \in Recs /\ Alike(c, t) /\ t.pending = c.pending
  BY <1>3, <1>5 DEF Good, Core, Recs, Alike
<1> HIDE DEF t
<1>7. Good(t)
  BY <1>3, <1>6, AlikeGood
<1>8. Fewer(c, t)
  BY <1>6 DEF Alike, Fewer
<1> QED BY <1>3, <1>4, <1>7, <1>8, FewerOrder

(* The loop of update over the blocks that become decided.                 *)
LEMMA CommitGood ==
    ASSUME NEW s, Good(s), NEW b \in Blocks
    PROVE  Good(Commit(s, b)) /\ Fewer(s, Commit(s, b))
<1> DEFINE Ok(t) == Good(t) /\ Fewer(s, t)
           B == [k \in Chain |-> {t \in Recs : Ok(t)}]
           Round(t, k) == IF k <= s.decided THEN s ELSE Decide(t, k)
           F == [k \in 1..MaxBlocks |-> [t \in Recs |-> Round(t, k)]]
           Loop(g) == [k \in 0..MaxBlocks |->
                         IF k <= s.decided THEN s ELSE Decide(g[k - 1], k)]
           go == CHOOSE g : g = Loop(g)
           blk2 == s.qc[b]
           blk1 == s.qc[blk2]
           blk == s.qc[blk1]
<1>1. MaxBlocks \in Nat /\ Chain = 0..MaxBlocks /\ Blocks = 1..MaxBlocks
  BY ChainFacts DEF Chain, Blocks
<1>2. s \in Recs /\ Ok(s) /\ s.decided \in Chain
  BY FewerOrder DEF Good, Core, Recs
<1>3. ASSUME NEW k \in 1..MaxBlocks, NEW t \in B[k - 1]
      PROVE  t \in Recs /\ Round(t, k) \in B[k]
  <2>1. k - 1 \in Chain /\ k \in Chain /\ k \in Blocks
    BY <1>1
  <2>2. t \in Recs /\ Ok(t)
    <3> HIDE DEF Ok
    <3> QED BY <2>1
  <2>3. Ok(Decide(t, k))
    BY <2>1, <2>2, DecideGood, FewerOrder
  <2>4. Decide(t, k) \in Recs
    BY <2>3 DEF Good, Core
  <2> HIDE DEF Ok
  <2> QED BY <1>2, <2>1, <2>2, <2>3, <2>4
<1>4. ASSUME NEW g, g[0] = s,
             \A k \in 1..MaxBlocks : g[k - 1] \in Recs => g[k] = Round(g[k - 1], k)
      PROVE  \A k \in 0..MaxBlocks : g[k] \in B[k]
  <2>1. g[0] \in B[0]
    <3> HIDE DEF Ok
    <3> QED BY <1>1, <1>2, <1>4
  <2>2. \A k \in 1..MaxBlocks : g[k - 1] \in B[k - 1] => g[k] \in B[k]
    <3> HIDE DEF B, Round
    <3> QED BY <1>3, <1>4
  <2> HIDE DEF B
  <2> QED BY <1>1, <2>1, <2>2, RunStays
<1>5. \E g : g = Loop(g)
  <2>1. PICK g : IsRun(g, MaxBlocks, s, F)
    BY <1>1, RunExists
  <2>2. \A k \in 1..MaxBlocks : g[k - 1] \in Recs => g[k] = Round(g[k - 1], k)
    <3> HIDE DEF Round
    <3> QED BY <2>1 DEF IsRun
  <2>3. \A k \in 0..MaxBlocks : g[k] \in B[k]
    <3> HIDE DEF B, Round
    <3> QED BY <1>4, <2>1, <2>2 DEF IsRun
  <2>4. \A k \in 1..MaxBlocks : g[k] = Round(g[k - 1], k)
    <3> HIDE DEF B, Round
    <3>1. ASSUME NEW k \in 1..MaxBlocks PROVE g[k - 1] \in B[k - 1]
      BY <1>1, <2>3
    <3> QED BY <1>3, <2>2, <3>1
  <2> HIDE DEF B
  <2>5. \A k \in 0..MaxBlocks : g[k] = Loop(g)[k]
    <3>1. g[0] = Loop(g)[0]
      BY <1>1, <1>2, <2>1 DEF IsRun
    <3>2. ASSUME NEW k \in 1..MaxBlocks PROVE g[k] = Loop(g)[k]
      BY <1>1, <2>4
    <3> HIDE DEF Loop
    <3> QED BY <1>1, <3>1, <3>2
  <2>6. g = [k \in 0..MaxBlocks |-> g[k]]
    BY <2>1 DEF IsRun
  <2>7. g = Loop(g)
    BY <2>5, <2>6
  <2> QED BY <2>7
<1>6. go = Loop(go)
  <2> HIDE DEF Loop
  <2> QED BY <1>5
<1>7. Commit(s, b) = IF blk > s.decided /\ blk1 = blk2 - 1 /\ blk = blk1 - 1
                     THEN go[blk] ELSE s
  BY DEF Commit
<1> HIDE DEF go
<1>8. \A k \in 0..MaxBlocks : go[k] \in B[k]
  <2>1. go[0] = s
    BY <1>1, <1>2, <1>6
  <2>2. \A k \in 1..MaxBlocks : go[k] = Round(go[k - 1], k)
    BY <1>1, <1>6
  <2> HIDE DEF B, Round, Loop
  <2> QED BY <1>4, <2>1, <2>2
<1>9. blk \in Chain
  BY <1>2, ChainFacts DEF Recs
<1>10. Ok(go[blk])
  <2> HIDE DEF Ok, blk
  <2> QED BY <1>1, <1>8, <1>9
<1> HIDE DEF blk, blk1, blk2
<1> QED BY <1>2, <1>7, <1>10

-----------------------------------------------------------------------------
(* A callback is attached.                                                 *)
LEMMA WaitCore ==
    ASSUME NEW s, Core(s), NEW b, NEW x, MayWait(s, b, x)
    PROVE  LET t == WaitQc(s, b, x)
           IN  /\ Core(t) /\ t = [s EXCEPT !.callbacks = t.callbacks]
               /\ \A c \in Blocks : c # b => t.callbacks[c] = s.callbacks[c]
               /\ x \in Range(t.callbacks[b])
               /\ Range(s.callbacks[b]) \subseteq Range(t.callbacks[b])
<1> DEFINE l == s.callbacks[b]
           m == Append(l, x)
           C == [s.callbacks EXCEPT ![b] = m]
           t == WaitQc(s, b, x)
<1>1. s \in Recs /\ s.nblk \in Chain /\ s.callbacks \in [Blocks -> Seq(Calls)]
  BY DEF Core, Recs
<1>2. b \in Blocks /\ b \in 1..s.nblk /\ b \notin s.finished \cup s.rejected /\ x \in Calls
  BY <1>1, ChainFacts DEF MayWait, Chain, Blocks
<1>3. l \in Seq(Calls) /\ m \in Seq(Calls)
  BY <1>1, <1>2
<1>4. /\ Len(m) = Len(l) + 1 /\ m[Len(l) + 1] = x /\ Len(l) \in Nat
      /\ DOMAIN l = 1..Len(l) /\ DOMAIN m = 1..(Len(l) + 1)
      /\ \A i \in 1..Len(l) : m[i] = l[i]
  BY <1>2, <1>3
<1>5. t = [s EXCEPT !.callbacks = C]
  BY <1>2, Zenon DEF WaitQc
<1> HIDE DEF t, m, l
<1>6. C \in [Blocks -> Seq(Calls)] /\ \A c \in Blocks : C[c] = IF c = b THEN m ELSE s.callbacks[c]
  BY <1>1, <1>2, <1>3 DEF l
<1> HIDE DEF C
<1>7. /\ t \in Recs /\ t.callbacks = C /\ t.rejected = s.rejected
      /\ t.nblk = s.nblk /\ t.finished = s.finished
      /\ t.pm_qc_finish = s.pm_qc_finish /\ t.pm_qc_manual = s.pm_qc_manual
      /\ t.last_proposed = s.last_proposed
  BY <1>1, <1>5, <1>6 DEF Recs
<1>8. Waiting(t)
  <2>1. ~ (b > s.nblk)
    BY <1>1, <1>2 DEF Chain
  <2> QED BY <1>2, <1>6, <1>7, <2>1 DEF Core, Waiting
<1>9. AllOwned(t)
  <2>1. SUFFICES ASSUME NEW c \in Blocks PROVE Owned(t, c)
    BY DEF AllOwned
  <2>2. Owned(s, c)
    BY DEF Core, AllOwned
  <2>3. CASE c # b
    BY <1>6, <1>7, <2>2, <2>3 DEF Owned
  <2>4. CASE c = b
    <3>1. t.callbacks[c] = m
      BY <1>6, <1>7, <2>4
    <3>2. \A i \in DOMAIN l : ~ (l[i] = beat <=> x = beat)
      BY DEF MayWait, NoneLike, l
    <3>3. \A i \in DOMAIN m : IF m[i] = beat THEN b = s.pm_qc_finish
                             ELSE b = s.pm_qc_manual
      BY <1>4, <2>2, <2>4 DEF Owned, MayWait, l
    <3>4. ASSUME NEW i \in DOMAIN m, NEW j \in DOMAIN m, m[i] = beat <=> m[j] = beat
          PROVE  i = j
      <4>1. CASE i \in 1..Len(l) /\ j \in 1..Len(l)
        BY <1>4, <2>2, <2>4, <3>4, <4>1 DEF Owned, l
      <4>2. CASE i = Len(l) + 1 /\ j \in 1..Len(l)
        BY <1>4, <3>2, <3>4, <4>2
      <4>3. CASE i \in 1..Len(l) /\ j = Len(l) + 1
        BY <1>4, <3>2, <3>4, <4>3
      <4> QED BY <1>4, <4>1, <4>2, <4>3
    <3> QED BY <1>7, <2>4, <3>1, <3>3, <3>4 DEF Owned
  <2> QED BY <2>3, <2>4
<1>10. x \in Range(m) /\ Range(l) \subseteq Range(m)
  BY <1>4 DEF Range
<1>11. t.callbacks[b] = m /\ \A c \in Blocks : c # b => t.callbacks[c] = s.callbacks[c]
  BY <1>2, <1>6, <1>7
<1>12. t = [s EXCEPT !.callbacks = t.callbacks]
  BY <1>5, <1>7
<1> QED BY <1>7, <1>8, <1>9, <1>10, <1>11, <1>12 DEF Core, t, l

(* After a beat's promise was given up no beat waits any more.             *)
LEMMA NoneAfterReject ==
    ASSUME NEW s, Core(s), NEW t, NEW x \in Calls, NEW b \in Blocks,
           Rejects(s, t, {IF x = beat THEN s.pm_qc_finish ELSE s.pm_qc_manual})
    PROVE  NoneLike(t, b, x)
<1> DEFINE q == IF x = beat THEN s.pm_qc_finish ELSE s.pm_qc_manual
<1>1. Owned(s, b)
  BY DEF Core, AllOwned
<1>2. CASE b = q
  BY <1>2 DEF Rejects, NoneLike
<1>3. CASE b # q
  <2>1. t.callbacks[b] = s.callbacks[b]
    BY <1>3 DEF Rejects
  <2> QED BY <1>1, <1>3, <2>1 DEF Owned, NoneLike
<1> QED BY <1>2, <1>3

(* A promise of its own for the next one of its kind: nobody waited, or    *)
(* nobody waits any more, so the new promise has no other callback like it.*)
LEMMA RenewCore ==
    ASSUME NEW y, Core(y), NEW z, z \in Recs, NEW x \in Calls,
           \A b \in Blocks : NoneLike(y, b, x),
           z.nblk = y.nblk, z.finished = y.finished, z.rejected = y.rejected,
           z.callbacks = y.callbacks, z.last_proposed = y.last_proposed,
           {z.pm_qc_finish, z.pm_qc_manual} \subseteq 0..z.nblk,
           IF x = beat THEN z.pm_qc_manual = y.pm_qc_manual
                       ELSE z.pm_qc_finish = y.pm_qc_finish
    PROVE  Core(z)
<1>1. Waiting(z)
  BY DEF Core, Waiting
<1>2. ASSUME NEW b \in Blocks PROVE Owned(z, b)
  <2>1. Owned(y, b) /\ NoneLike(y, b, x)
    BY DEF Core, AllOwned
  <2> QED BY <2>1 DEF Owned, NoneLike
<1> QED BY <1>1, <1>2 DEF Core, AllOwned

(* A beat is taken from pending_beats and waits for the QC of              *)
(* last_proposed.                                                          *)
LEMMA ScheduleGood ==
    ASSUME NEW s, Good(s), LockWaits(s),
           ~ s.locked => /\ s.last_proposed \in 1..s.nblk
                         /\ s.last_proposed \notin s.finished \cup s.rejected
                         /\ s.pm_qc_finish # s.last_proposed
    PROVE  LET t == ScheduleNext(s)
           IN  /\ Good(t) /\ LockWaits(t)
               /\ t.nblk = s.nblk /\ t.finished = s.finished
               /\ t.proposer = s.proposer /\ t.rotating = s.rotating
               /\ t.last_proposed = s.last_proposed
               /\ t.pm_qc_manual = s.pm_qc_manual
               /\ t.rejected \subseteq s.rejected \cup {s.pm_qc_finish}
               /\ s.pending > 0 => t.locked
<1>1. s \in Recs /\ s.pending \in Nat /\ Core(s)
  BY DEF Good, Core, Recs
<1>2. CASE s.pending = 0 \/ s.locked
  BY <1>1, <1>2 DEF ScheduleNext
<1>3. CASE ~ (s.pending = 0 \/ s.locked)
  <2> DEFINE L == s.last_proposed
             y == Reject(s, s.pm_qc_finish)
             z == [y EXCEPT !.pending = @ - 1, !.locked = TRUE, !.pm_qc_finish = L]
             t == WaitQc(z, L, beat)
  <2>1. ScheduleNext(s) = t
    BY <1>3 DEF ScheduleNext
  <2>2. Rejects(s, y, {s.pm_qc_finish}) /\ Core(y)
    BY <1>1, RejectOne
  <2> HIDE DEF y
  <2>3. /\ y \in Recs /\ y.pending = s.pending
        /\ y.nblk = s.nblk /\ y.finished = s.finished /\ y.proposer = s.proposer
        /\ y.rotating = s.rotating /\ y.pm_wait_propose = s.pm_wait_propose
        /\ y.last_proposed = L /\ y.pm_qc_manual = s.pm_qc_manual
    BY <1>1, <2>2 DEF Rejects, Recs
  <2>4. s.pending - 1 \in Nat /\ L \in Chain
    BY <1>1, <1>3 DEF Recs
  <2>5. /\ z \in Recs /\ z.locked = TRUE /\ z.pm_qc_finish = L
        /\ z.nblk = s.nblk /\ z.finished = s.finished /\ z.proposer = s.proposer
        /\ z.rotating = s.rotating /\ z.pm_wait_propose = s.pm_wait_propose
        /\ z.last_proposed = L /\ z.pm_qc_manual = s.pm_qc_manual
        /\ z.rejected = y.rejected /\ z.callbacks = y.callbacks
    BY <2>3, <2>4 DEF Recs
  <2> HIDE DEF z
  <2>6. beat \in Calls /\ \A b \in Blocks : NoneLike(y, b, beat)
    <3>1. beat \in Calls
      BY DEF beat, Calls
    <3>2. Rejects(s, y, {IF beat = beat THEN s.pm_qc_finish ELSE s.pm_qc_manual})
      BY <2>2
    <3> QED BY <1>1, <3>1, <3>2, NoneAfterReject
  <2>7. Core(z)
    <3>1. {z.pm_qc_finish, z.pm_qc_manual} \subseteq 0..z.nblk
      BY <1>1, <2>5 DEF Core, Waiting
    <3> QED BY <2>2, <2>3, <2>5, <2>6, <3>1, RenewCore
  <2>8. L \in 1..z.nblk /\ L \in Blocks /\ L \notin z.finished \cup z.rejected
    <3>1. L \in Blocks
      BY <1>3, <2>4, ChainFacts DEF Chain, Blocks
    <3> QED BY <1>3, <2>2, <2>5, <3>1 DEF Rejects
  <2>9. MayWait(z, L, beat)
    BY <2>5, <2>6, <2>8 DEF MayWait, NoneLike
  <2>10. Core(t) /\ t = [z EXCEPT !.callbacks = t.callbacks] /\ beat \in Range(t.callbacks[L])
    BY <2>7, <2>9, WaitCore
  <2> HIDE DEF t
  <2>11. /\ t.locked = TRUE /\ t.nblk = s.nblk /\ t.finished = s.finished
         /\ t.proposer = s.proposer /\ t.rotating = s.rotating
         /\ t.pm_wait_propose = s.pm_wait_propose
         /\ t.last_proposed = L /\ t.pm_qc_manual = s.pm_qc_manual
         /\ t.rejected = y.rejected
    BY <2>5, <2>10 DEF Recs
  <2>12. Settled(t)
    BY <2>11 DEF Good, Settled
  <2>13. LockWaits(t)
    BY <2>5, <2>8, <2>10, <2>11 DEF LockWaits
  <2>14. t.rejected \subseteq s.rejected \cup {s.pm_qc_finish}
    BY <2>2, <2>11 DEF Rejects
  <2> QED BY <2>1, <2>10, <2>11, <2>12, <2>13, <2>14 DEF Good
<1> QED BY <1>2, <1>3

(* A proposal.                                                             *)
LEMMA ProposeGood ==
    ASSUME NEW s, Good(s), s.nblk < MaxBlocks, NEW cmds \in SUBSET Nat
    PROVE  LET t == OnPropose(s, cmds)
           IN  /\ Good(t) /\ LockWaits(t)
               /\ t.nblk = s.nblk + 1 /\ t.proposer = s.proposer
               /\ t.nblk \notin t.finished \cup t.rejected
               /\ t.pm_qc_manual < t.nblk
               /\ ~ t.rotating => t.last_proposed = t.nblk
               /\ ~ t.rotating /\ s.pending > 0 => t.locked
<1> DEFINE b == s.nblk + 1
           u == Extend(s, b, cmds)
           t == Commit(u, b)
           r == IF t.reg_proposal
                THEN [t EXCEPT !.prop_blk = IF t.prop_blk = 0 THEN b ELSE t.prop_blk,
                               !.reg_proposal = t.rotating] ELSE t
           w == [r EXCEPT !.last_proposed = b, !.locked = FALSE]
           x == ScheduleNext(w)
<1>1. OnPropose(s, cmds) = IF ~ r.pm_wait_propose THEN r ELSE x
  BY Zenon DEF OnPropose
<1>2. /\ s \in Recs /\ s.nblk \in Nat /\ b \in Blocks /\ b \in Chain /\ b \in Int
      /\ s.hqc \in Chain
  <2>1. s \in Recs /\ s.nblk \in Chain /\ s.hqc \in Chain
    BY DEF Good, Core, Recs
  <2> QED BY <2>1, ChainFacts DEF Chain, Blocks
<1>3. /\ s.finished \cup s.rejected \subseteq 1..s.nblk
      /\ {s.last_proposed, s.pm_qc_finish, s.pm_qc_manual} \subseteq 0..s.nblk
      /\ s.callbacks[b] = <<>>
  <2>1. b > s.nblk
    BY <1>2
  <2> QED BY <1>2, <2>1 DEF Good, Core, Waiting
<1> HIDE DEF b
<1>4. /\ u \in Recs /\ u.nblk = b /\ u.finished = s.finished /\ u.rejected = s.rejected
      /\ u.callbacks = s.callbacks /\ u.proposer = s.proposer /\ u.rotating = s.rotating
      /\ u.pm_qc_finish = s.pm_qc_finish /\ u.pm_qc_manual = s.pm_qc_manual
      /\ u.last_proposed = s.last_proposed /\ u.locked = s.locked
      /\ u.pm_wait_propose = s.pm_wait_propose /\ u.pending = s.pending
  <2> DEFINE Q == [s.qc EXCEPT ![b] = s.hqc]
             K == [s.carries EXCEPT ![b] = cmds]
  <2>1. Q \in [Chain -> Chain] /\ K \in [Blocks -> SUBSET Nat]
    BY <1>2 DEF Recs
  <2>2. u = [s EXCEPT !.nblk = b, !.qc = Q, !.carries = K]
    BY Zenon DEF Extend
  <2> HIDE DEF Q, K, u
  <2> QED BY <1>2, <2>1, <2>2 DEF Recs
<1> HIDE DEF u
<1>5. Good(u)
  <2>1. 1..s.nblk \subseteq 1..b /\ 0..s.nblk \subseteq 0..b
    BY <1>2 DEF b
  <2>2. \A c \in Blocks : c > b => c > s.nblk
    BY <1>2 DEF b, Blocks
  <2>3. Waiting(u)
    BY <1>3, <1>4, <2>1, <2>2 DEF Good, Core, Waiting
  <2>4. AllOwned(u)
    BY <1>4 DEF Good, Core, AllOwned, Owned
  <2>5. Settled(u)
    BY <1>4 DEF Good, Settled
  <2> QED BY <1>4, <2>3, <2>4, <2>5 DEF Good, Core
<1>6. Good(t) /\ Fewer(u, t)
  BY <1>2, <1>5, CommitGood
<1> HIDE DEF t
<1>7. r \in Recs /\ Alike(t, r) /\ r.pending = t.pending
  <2>1. t \in Recs /\ t.rotating \in BOOLEAN /\ t.prop_blk \in Chain
    BY <1>6 DEF Good, Core, Recs
  <2> DEFINE pb == IF t.prop_blk = 0 THEN b ELSE t.prop_blk
  <2>2. pb \in Chain
    BY <1>2, <2>1
  <2> HIDE DEF pb
  <2>3. CASE t.reg_proposal
    <3>1. r = [t EXCEPT !.prop_blk = pb, !.reg_proposal = t.rotating]
      BY <2>3, Zenon DEF pb
    <3> HIDE DEF r
    <3> QED BY <2>1, <2>2, <3>1 DEF Recs, Alike
  <2>4. CASE ~ t.reg_proposal
    BY <2>1, <2>4 DEF Alike
  <2> QED BY <2>3, <2>4
<1> HIDE DEF r
<1>8. Good(r)
  BY <1>6, <1>7, AlikeGood
<1>9. /\ r.nblk = b /\ r.proposer = s.proposer /\ r.pending = s.pending
      /\ r.pm_qc_finish = s.pm_qc_finish /\ r.pm_qc_manual = s.pm_qc_manual
      /\ r.finished = s.finished
      /\ r.rejected \subseteq s.rejected \cup {s.pm_qc_finish, s.pm_qc_manual}
  BY <1>4, <1>6, <1>7 DEF Alike, Fewer
<1>10. /\ \A c \in 0..s.nblk : c # b /\ c < b
       /\ b \notin r.finished \cup r.rejected
       /\ r.pm_qc_manual < b /\ r.pm_qc_finish # b
  <2>1. \A c \in 0..s.nblk : c # b /\ c < b
    BY <1>2 DEF b
  <2>2. b \notin 1..s.nblk
    BY <1>2 DEF b
  <2> QED BY <1>3, <1>9, <2>1, <2>2
<1>11. CASE ~ r.pm_wait_propose
  <2>1. r.rotating
    BY <1>8, <1>11 DEF Good, Settled
  <2>2. LockWaits(r)
    BY <2>1 DEF LockWaits
  <2> QED BY <1>1, <1>8, <1>9, <1>10, <1>11, <2>1, <2>2 DEF b
<1>12. CASE r.pm_wait_propose
  <2>1. OnPropose(s, cmds) = x
    BY <1>1, <1>12
  <2>2. /\ w \in Recs /\ w.last_proposed = b /\ w.locked = FALSE /\ w.nblk = b
        /\ w.finished = r.finished /\ w.rejected = r.rejected
        /\ w.callbacks = r.callbacks /\ w.proposer = r.proposer
        /\ w.rotating = r.rotating /\ w.pm_wait_propose = r.pm_wait_propose
        /\ w.pm_qc_finish = r.pm_qc_finish /\ w.pm_qc_manual = r.pm_qc_manual
        /\ w.pending = r.pending
    BY <1>2, <1>7, <1>9 DEF Recs
  <2> HIDE DEF w
  <2>3. b \in 1..b /\ b \in 0..b /\ b # 0
    BY <1>2 DEF b
  <2>4. Waiting(w)
    BY <1>8, <1>9, <2>2, <2>3 DEF Good, Core, Waiting
  <2>5. AllOwned(w)
    BY <1>8, <2>2 DEF Good, Core, AllOwned, Owned
  <2>6. Settled(w)
    BY <1>8, <1>10, <1>12, <2>2 DEF Good, Settled
  <2>7. Good(w) /\ LockWaits(w)
    BY <2>2, <2>4, <2>5, <2>6 DEF Good, Core, LockWaits
  <2>8. /\ w.last_proposed \in 1..w.nblk
        /\ w.last_proposed \notin w.finished \cup w.rejected
        /\ w.pm_qc_finish # w.last_proposed
    BY <1>10, <2>2, <2>3
  <2>9. /\ Good(x) /\ LockWaits(x)
        /\ x.nblk = w.nblk /\ x.finished = w.finished
        /\ x.proposer = w.proposer /\ x.rotating = w.rotating
        /\ x.last_proposed = w.last_proposed /\ x.pm_qc_manual = w.pm_qc_manual
        /\ x.rejected \subseteq w.rejected \cup {w.pm_qc_finish}
        /\ w.pending > 0 => x.locked
    BY <2>7, <2>8, ScheduleGood
  <2> HIDE DEF x
  <2>10. x.nblk \notin x.finished \cup x.rejected
    BY <1>10, <2>2, <2>9
  <2>11. x.nblk = s.nblk + 1 /\ x.pm_qc_manual < x.nblk /\ x.proposer = s.proposer
    BY <1>9, <1>10, <2>2, <2>9 DEF b
  <2>12. x.last_proposed = x.nblk /\ (s.pending > 0 => x.locked)
    BY <1>9, <2>2, <2>9
  <2> QED BY <2>1, <2>9, <2>10, <2>11, <2>12
<1> QED BY <1>11, <1>12

(* do_new_consensus: the chain before is given up, the new block's QC is   *)
(* waited for.                                                             *)
LEMMA NewConsensusGood ==
    ASSUME NEW s, Good(s), s.nblk < MaxBlocks, NEW cmds \in SUBSET Nat,
           NEW x \in Nat
    PROVE  LET t == DoNewConsensus(s, x, cmds)
           IN  /\ Good(t) /\ LockWaits(t)
               /\ t.nblk = s.nblk + 1 /\ t.proposer = s.proposer
<1> DEFINE o == OnPropose(s, cmds)
           b == o.nblk
           y == Reject(o, o.pm_qc_manual)
           z == [y EXCEPT !.pm_qc_manual = b]
           t == WaitQc(z, b, x)
<1>1. /\ Good(o) /\ LockWaits(o)
      /\ o.nblk = s.nblk + 1 /\ o.proposer = s.proposer
      /\ o.nblk \notin o.finished \cup o.rejected
      /\ o.pm_qc_manual < o.nblk
      /\ ~ o.rotating => o.last_proposed = o.nblk
  BY ProposeGood
<1>2. DoNewConsensus(s, x, cmds) = t
  BY Zenon DEF DoNewConsensus
<1> HIDE DEF o
<1>3. o \in Recs /\ Core(o) /\ s.nblk \in Nat /\ b \in Chain /\ b \in Blocks /\ b \in 1..b
  <2>1. o \in Recs /\ Core(o) /\ s.nblk \in Chain /\ b \in Chain
    BY <1>1 DEF Good, Core, Recs
  <2>2. s.nblk \in Nat /\ b = s.nblk + 1
    BY <1>1, <2>1 DEF Chain
  <2> HIDE DEF b
  <2> QED BY <2>1, <2>2, ChainFacts DEF Blocks
<1>4. Rejects(o, y, {o.pm_qc_manual}) /\ Core(y)
  BY <1>3, RejectOne
<1> HIDE DEF y
<1>5. /\ y \in Recs /\ y.nblk = b /\ y.finished = o.finished /\ y.proposer = o.proposer
      /\ y.rotating = o.rotating /\ y.pm_wait_propose = o.pm_wait_propose
      /\ y.last_proposed = o.last_proposed /\ y.pm_qc_finish = o.pm_qc_finish
      /\ y.locked = o.locked
  BY <1>3, <1>4 DEF Rejects, Recs
<1>6. /\ z \in Recs /\ z.nblk = b /\ z.finished = o.finished /\ z.proposer = o.proposer
      /\ z.rotating = o.rotating /\ z.pm_wait_propose = o.pm_wait_propose
      /\ z.last_proposed = o.last_proposed /\ z.pm_qc_finish = o.pm_qc_finish
      /\ z.locked = o.locked /\ z.pm_qc_manual = b
      /\ z.rejected = y.rejected /\ z.callbacks = y.callbacks
  BY <1>3, <1>5 DEF Recs
<1> HIDE DEF z
<1>7. x \in Calls /\ x # beat
  BY DEF beat, Calls
<1>8. \A c \in Blocks : NoneLike(y, c, x)
  <2>1. Rejects(o, y, {IF x = beat THEN o.pm_qc_finish ELSE o.pm_qc_manual})
    BY <1>4, <1>7
  <2> QED BY <1>3, <1>7, <2>1, NoneAfterReject
<1>9. Core(z)
  <2>1. {z.pm_qc_finish, z.pm_qc_manual} \subseteq 0..z.nblk
    <3>1. o.pm_qc_finish \in 0..b /\ b \in 0..b
      BY <1>3 DEF Core, Waiting
    <3> QED BY <1>6, <3>1
  <2> HIDE DEF b
  <2> QED BY <1>4, <1>5, <1>6, <1>7, <1>8, <2>1, RenewCore
<1>10. o.pm_qc_manual # b /\ b \notin z.finished \cup z.rejected
  <2>1. o.pm_qc_manual \in Chain
    BY <1>3 DEF Recs
  <2>2. o.pm_qc_manual # b
    BY <1>1, <1>3, <2>1 DEF Chain
  <2> QED BY <1>1, <1>4, <1>6, <2>2 DEF Rejects
<1>11. MayWait(z, b, x)
  BY <1>3, <1>6, <1>7, <1>8, <1>10 DEF MayWait, NoneLike
<1>12. /\ Core(t) /\ t = [z EXCEPT !.callbacks = t.callbacks]
       /\ Range(z.callbacks[b]) \subseteq Range(t.callbacks[b])
  BY <1>9, <1>11, WaitCore
<1> HIDE DEF t
<1>13. /\ t.nblk = b /\ t.finished = o.finished /\ t.proposer = o.proposer
       /\ t.rotating = o.rotating /\ t.pm_wait_propose = o.pm_wait_propose
       /\ t.last_proposed = o.last_proposed /\ t.pm_qc_finish = o.pm_qc_finish
       /\ t.locked = o.locked /\ t.rejected = y.rejected
  BY <1>6, <1>12 DEF Recs
<1>14. Settled(t)
  <2>1. ~ o.rotating => o.last_proposed \notin y.rejected
    BY <1>1, <1>6, <1>10
  <2> QED BY <1>1, <1>13, <2>1 DEF Good, Settled
<1>15. LockWaits(t)
  <2>1. z.callbacks[b] = o.callbacks[b]
    BY <1>3, <1>4, <1>6, <1>10 DEF Rejects
  <2> QED BY <1>1, <1>12, <1>13, <2>1 DEF LockWaits
<1> QED BY <1>1, <1>2, <1>12, <1>13, <1>14, <1>15 DEF Good

(* The callback of a beat.                                                 *)
LEMMA BeatBodyGood ==
    ASSUME NEW s, Good(s), s.nblk < MaxBlocks
    PROVE  LET t == BeatBody(s)
           IN  /\ Good(t) /\ t.proposer = s.proposer
               /\ s.proposer # me => t = s
               /\ s.proposer = me => /\ LockWaits(t) /\ t.nblk = s.nblk + 1
                                     /\ ~ t.rotating /\ s.pending > 0 => t.locked
<1> DEFINE cmds == 1..blk_size
<1>1. cmds \in SUBSET Nat
  BY ChainFacts
<1>2. CASE s.proposer = me
  <2>1. BeatBody(s) = OnPropose(s, cmds)
    BY <1>2 DEF BeatBody
  <2> HIDE DEF cmds
  <2>2. LET t == OnPropose(s, cmds)
        IN  /\ Good(t) /\ LockWaits(t)
            /\ t.nblk = s.nblk + 1 /\ t.proposer = s.proposer
            /\ ~ t.rotating /\ s.pending > 0 => t.locked
    BY <1>1, ProposeGood
  <2> QED BY <1>2, <2>1, <2>2
<1>3. CASE s.proposer # me
  BY <1>3 DEF BeatBody
<1> QED BY <1>2, <1>3

(* beat() outside rotations.                                               *)
LEMMA BeatGood ==
    ASSUME NEW s, Good(s), LockWaits(s), s.nblk < MaxBlocks, ~ s.rotating
    PROVE  Good(Beat(s)) /\ LockWaits(Beat(s)) /\ Beat(s).proposer = me
<1> DEFINE y == Reject(s, s.pm_qc_finish)
           t == [y EXCEPT !.pm_qc_finish = 0]
<1>1. s \in Recs /\ Core(s) /\ s.proposer = me /\ s.pending \in Nat /\ s.nblk \in Nat
  <2>1. s.nblk \in Chain /\ s.pending \in Nat
    BY DEF Good, Core, Recs
  <2> QED BY <2>1, ChainFacts DEF Good, Core, Settled, Chain
<1>2. CASE s.locked \/ s.last_proposed \notin s.finished \cup {0}
  <2> DEFINE u == [s EXCEPT !.pending = @ + 1]
  <2>1. Beat(s) = ScheduleNext(u)
    <3>1. Beat(s) = IF s.locked \/ s.last_proposed \notin s.finished \cup {0}
                    THEN ScheduleNext(u)
                    ELSE IF s.pending = 0 THEN BeatBody([t EXCEPT !.locked = TRUE])
                    ELSE [BeatBody(t) EXCEPT !.locked = TRUE]
      BY DEF Beat
    <3> HIDE DEF u, t
    <3> QED BY <1>2, <3>1
  <2>2. u \in Recs /\ Alike(s, u)
    <3> DEFINE n == s.pending + 1
    <3>1. n \in Nat /\ u = [s EXCEPT !.pending = n]
      BY <1>1
    <3> HIDE DEF n, u
    <3> QED BY <1>1, <3>1 DEF Recs, Alike
  <2> HIDE DEF u
  <2>3. Good(u) /\ LockWaits(u)
    BY <2>2, AlikeGood
  <2>4. ASSUME ~ u.locked
        PROVE  /\ u.last_proposed \in 1..u.nblk
               /\ u.last_proposed \notin u.finished \cup u.rejected
               /\ u.pm_qc_finish # u.last_proposed
    <3>1. /\ ~ s.locked /\ s.last_proposed \notin s.finished \cup {0}
          /\ s.last_proposed \in 0..s.nblk
      BY <1>1, <1>2, <2>2, <2>4 DEF Alike, Core, Waiting
    <3>2. s.last_proposed \in 1..s.nblk
      BY <1>1, <3>1
    <3> QED BY <2>2, <3>1, <3>2 DEF Alike, Good, Settled
  <2>5. /\ Good(ScheduleNext(u)) /\ LockWaits(ScheduleNext(u))
        /\ ScheduleNext(u).proposer = u.proposer
    BY <2>3, <2>4, ScheduleGood
  <2> QED BY <1>1, <2>1, <2>2, <2>5 DEF Alike
<1>3. CASE ~ (s.locked \/ s.last_proposed \notin s.finished \cup {0})
  <2>1. Rejects(s, y, {s.pm_qc_finish}) /\ Core(y)
    BY <1>1, RejectOne
  <2>2. Beat(s) = IF s.pending = 0 THEN BeatBody([t EXCEPT !.locked = TRUE])
                  ELSE [BeatBody(t) EXCEPT !.locked = TRUE]
    BY <1>3 DEF Beat
  <2> HIDE DEF y
  <2>3. /\ y \in Recs /\ y.nblk = s.nblk /\ y.finished = s.finished
        /\ y.proposer = s.proposer /\ y.rotating = s.rotating
        /\ y.pm_wait_propose = s.pm_wait_propose /\ y.locked = s.locked
        /\ y.last_proposed = s.last_proposed /\ y.pm_qc_manual = s.pm_qc_manual
        /\ y.pending = s.pending
    BY <1>1, <2>1 DEF Rejects, Recs
  <2>4. /\ t \in Recs /\ t.nblk = s.nblk /\ t.finished = s.finished
        /\ t.proposer = s.proposer /\ t.rotating = s.rotating
        /\ t.pm_wait_propose = s.pm_wait_propose /\ t.locked = s.locked
        /\ t.last_proposed = s.last_proposed /\ t.pm_qc_manual = s.pm_qc_manual
        /\ t.pm_qc_finish = 0 /\ t.rejected = y.rejected /\ t.callbacks = y.callbacks
        /\ t.pending = s.pending
    BY <2>3, ChainFacts DEF Recs
  <2> HIDE DEF t
  <2>5. Core(t)
    <3>1. beat \in Calls
      BY DEF beat, Calls
    <3>2. \A b \in Blocks : NoneLike(y, b, beat)
      <4>1. Rejects(s, y, {IF beat = beat THEN s.pm_qc_finish ELSE s.pm_qc_manual})
        BY <2>1
      <4> QED BY <1>1, <3>1, <4>1, NoneAfterReject
    <3>3. {t.pm_qc_finish, t.pm_qc_manual} \subseteq 0..t.nblk
      BY <1>1, <2>4 DEF Core, Waiting
    <3> QED BY <2>1, <2>3, <2>4, <3>1, <3>2, <3>3, RenewCore
  <2>6. Settled(t)
    <3>1. s.last_proposed \notin y.rejected
      BY <1>1, <1>3, <2>1, ChainFacts DEF Good, Settled, Rejects, Recs
    <3> QED BY <1>1, <2>4, <3>1 DEF Good, Settled
  <2>7. CASE s.pending = 0
    <3> DEFINE u == [t EXCEPT !.locked = TRUE]
    <3>1. /\ u \in Recs /\ u.nblk = t.nblk /\ u.finished = t.finished
          /\ u.proposer = t.proposer /\ u.rotating = t.rotating
          /\ u.pm_wait_propose = t.pm_wait_propose /\ u.locked = TRUE
          /\ u.last_proposed = t.last_proposed /\ u.pm_qc_manual = t.pm_qc_manual
          /\ u.pm_qc_finish = t.pm_qc_finish /\ u.rejected = t.rejected
          /\ u.callbacks = t.callbacks
      BY <2>4 DEF Recs
    <3> HIDE DEF u
    <3>2. Waiting(u) /\ AllOwned(u)
      BY <2>5, <3>1 DEF Core, Waiting, AllOwned, Owned
    <3>3. Settled(u)
      BY <2>6, <3>1 DEF Settled
    <3>4. Good(u) /\ u.nblk < MaxBlocks /\ u.proposer = me
      BY <1>1, <2>4, <3>1, <3>2, <3>3 DEF Good, Core
    <3>5. /\ Good(BeatBody(u)) /\ LockWaits(BeatBody(u))
          /\ BeatBody(u).proposer = u.proposer
      BY <3>4, BeatBodyGood
    <3> QED BY <2>2, <2>7, <3>4, <3>5 DEF u
  <2>8. CASE s.pending # 0
    <3> DEFINE o == BeatBody(t)
               u == [o EXCEPT !.locked = TRUE]
    <3>1. Good(t) /\ t.nblk < MaxBlocks /\ t.proposer = me /\ t.pending > 0
      BY <1>1, <2>4, <2>5, <2>6, <2>8 DEF Good
    <3>2. /\ Good(o) /\ o.proposer = me /\ LockWaits(o)
          /\ ~ o.rotating => o.locked
      BY <3>1, BeatBodyGood
    <3> HIDE DEF o
    <3>3. o \in Recs
      BY <3>2 DEF Good, Core
    <3>4. /\ u \in Recs /\ u.nblk = o.nblk /\ u.finished = o.finished
          /\ u.proposer = o.proposer /\ u.rotating = o.rotating
          /\ u.pm_wait_propose = o.pm_wait_propose /\ u.locked = TRUE
          /\ u.last_proposed = o.last_proposed /\ u.pm_qc_manual = o.pm_qc_manual
          /\ u.pm_qc_finish = o.pm_qc_finish /\ u.rejected = o.rejected
          /\ u.callbacks = o.callbacks
      BY <3>3 DEF Recs
    <3> HIDE DEF u
    <3>5. Waiting(u) /\ AllOwned(u)
      BY <3>2, <3>4 DEF Good, Core, Waiting, AllOwned, Owned
    <3>6. Settled(u) /\ LockWaits(u)
      BY <3>2, <3>4 DEF Good, Settled, LockWaits
    <3> QED BY <2>2, <2>8, <3>2, <3>4, <3>5, <3>6 DEF Good, Core, u, o
  <2> QED BY <2>7, <2>8
<1> QED BY <1>2, <1>3

(* rotate(): nobody of the role before is called any more, except a beat   *)
(* that the promise of an earlier rotation may have.                       *)
LEMMA RotateGood ==
    ASSUME NEW s, Good(s)
    PROVE  LET t == Rotate(s)
           IN  /\ Good(t) /\ LockWaits(t) /\ OnlyBeats(t)
               /\ t.timer = "exp" /\ t.nblk = s.nblk
<1> DEFINE u == Reject(Reject(s, s.pm_qc_finish), s.pm_qc_manual)
           p == (u.proposer + 1) % nreplicas
           t == [u EXCEPT !.reg_proposal = TRUE, !.prop_blk = 0, !.rotating = TRUE,
                          !.proposer = p, !.pm_wait_propose = FALSE, !.timer = "exp"]
<1>1. Rejects(s, u, {s.pm_qc_finish, s.pm_qc_manual}) /\ Core(u) /\ s \in Recs /\ Core(s)
  BY RejectBoth DEF Good, Core
<1>2. Rotate(s) = t
  BY Zenon DEF Rotate
<1> HIDE DEF u
<1>3. p \in 0..(nreplicas - 1)
  <2>1. u.proposer \in 0..(nreplicas - 1)
    BY <1>1 DEF Core, Recs
  <2> QED BY <2>1, ChainFacts
<1> HIDE DEF p
<1>4. /\ u \in Recs /\ u.nblk = s.nblk
  BY <1>1 DEF Rejects, Recs
<1>5. /\ t \in Recs /\ t.nblk = u.nblk /\ t.finished = u.finished
      /\ t.rejected = u.rejected /\ t.callbacks = u.callbacks
      /\ t.last_proposed = u.last_proposed /\ t.pm_qc_finish = u.pm_qc_finish
      /\ t.pm_qc_manual = u.pm_qc_manual /\ t.rotating = TRUE /\ t.timer = "exp"
  BY <1>3, <1>4, ChainFacts DEF Recs
<1> HIDE DEF t
<1>6. Waiting(t)
  BY <1>1, <1>5 DEF Core, Waiting
<1>7. AllOwned(t)
  BY <1>1, <1>5 DEF Core, AllOwned, Owned
<1>8. Settled(t) /\ LockWaits(t)
  BY <1>5 DEF Settled, LockWaits
<1>9. ASSUME NEW b \in Blocks, NEW i \in DOMAIN t.callbacks[b]
      PROVE  t.callbacks[b][i] = beat
  <2>1. t.callbacks[b] # <<>>
    BY <1>9
  <2>2. t.callbacks[b] = s.callbacks[b] /\ b # s.pm_qc_manual
    BY <1>1, <1>5, <2>1 DEF Rejects
  <2>3. Owned(s, b)
    BY <1>1 DEF Core, AllOwned
  <2> QED BY <2>2, <2>3 DEF Owned
<1> QED BY <1>2, <1>4, <1>5, <1>6, <1>7, <1>8, <1>9 DEF Good, Core, OnlyBeats

(* What waits for a QC is called.                                          *)
LEMMA CallbackGood ==
    ASSUME NEW s, Good(s), s.nblk < MaxBlocks, NEW x \in Calls
    PROVE  LET t == Callback(s, x)
           IN  /\ Good(t) /\ t.proposer = s.proposer /\ t.nblk \in {s.nblk, s.nblk + 1}
               /\ LockWaits(s) \/ x = beat => LockWaits(t)
               /\ x = beat /\ s.proposer # me => t = s
<1>1. CASE x = beat
  <2> DEFINE t == BeatBody(s)
  <2>1. Callback(s, x) = t
    BY <1>1 DEF Callback
  <2>2. /\ Good(t) /\ t.proposer = s.proposer
        /\ s.proposer # me => t = s
        /\ s.proposer = me => LockWaits(t) /\ t.nblk = s.nblk + 1
    BY BeatBodyGood
  <2> HIDE DEF t
  <2>3. LockWaits(t)
    BY <2>2 DEF Good, Settled, LockWaits
  <2> QED BY <1>1, <2>1, <2>2, <2>3
<1>2. CASE x # beat /\ x >= 3
  BY <1>2 DEF Callback
<1>3. CASE x # beat /\ ~ x >= 3
  <2> DEFINE n == x + 1
  <2>1. n \in Nat /\ {} \in SUBSET Nat
    BY <1>3 DEF Calls
  <2>2. Callback(s, x) = DoNewConsensus(s, n, {})
    BY <1>3 DEF Callback
  <2> HIDE DEF n
  <2>3. LET t == DoNewConsensus(s, n, {})
        IN  /\ Good(t) /\ LockWaits(t)
            /\ t.nblk = s.nblk + 1 /\ t.proposer = s.proposer
    BY <2>1, NewConsensusGood
  <2> QED BY <1>3, <2>2, <2>3
<1> QED BY <1>1, <1>2, <1>3

(* Two callbacks at most, one after the other.                             *)
LEMMA CallbacksAre ==
    ASSUME NEW s, NEW cbs \in Seq(Calls), Len(cbs) \in 0..2
    PROVE  Callbacks(s, cbs) =
             IF Len(cbs) = 0 THEN s
             ELSE IF Len(cbs) = 1 THEN Callback(s, cbs[1])
             ELSE Callback(Callback(s, cbs[1]), cbs[2])
<1> DEFINE N == Len(cbs)
           one == Callback(s, cbs[1])
           two == Callback(one, cbs[2])
           Loop(g) == [k \in 0..N |-> IF k = 0 THEN s ELSE Callback(g[k - 1], cbs[k])]
           go == CHOOSE g : g = Loop(g)
           h == [k \in 0..N |-> IF k = 0 THEN s ELSE IF k = 1 THEN one ELSE two]
<1>2. Callbacks(s, cbs) = go[N]
  BY DEF Callbacks
<1>8. N \in 0..2
  OBVIOUS
<1> HIDE DEF N
<1>3. h = Loop(h)
  <2>1. ASSUME NEW k \in 0..N PROVE h[k] = Loop(h)[k]
    <3>1. CASE k = 0
      BY <1>8, <3>1
    <3>2. CASE k = 1
      <4>1. h[0] = s /\ h[k] = one /\ k - 1 = 0
        BY <1>8, <3>2
      <4>2. Loop(h)[k] = Callback(h[k - 1], cbs[k])
        BY <3>2
      <4> HIDE DEF h
      <4> QED BY <3>2, <4>1, <4>2
    <3>3. CASE k = 2
      <4>1. h[1] = one /\ h[k] = two /\ k - 1 = 1
        BY <1>8, <3>3
      <4>2. Loop(h)[k] = Callback(h[k - 1], cbs[k])
        BY <3>3
      <4> HIDE DEF h
      <4> QED BY <3>3, <4>1, <4>2
    <3> QED BY <1>8, <3>1, <3>2, <3>3
  <2>2. h = [k \in 0..N |-> h[k]] /\ Loop(h) = [k \in 0..N |-> Loop(h)[k]]
    OBVIOUS
  <2> HIDE DEF h, Loop
  <2> QED BY <2>1, <2>2
<1>4. go = Loop(go)
  <2>1. \E g : g = Loop(g)
    <3> HIDE DEF h, Loop
    <3> QED BY <1>3
  <2> HIDE DEF Loop
  <2> QED BY <2>1
<1> HIDE DEF go
<1>5. go[0] = s
  BY <1>8, <1>4
<1>6. N >= 1 => go[1] = one
  <2>1. N >= 1 => go[1] = Callback(go[1 - 1], cbs[1])
    BY <1>8, <1>4
  <2> QED BY <1>5, <2>1
<1>7. N = 2 => go[2] = two
  <2>1. N = 2 => go[2] = Callback(go[2 - 1], cbs[2])
    BY <1>8, <1>4
  <2> QED BY <1>6, <2>1
<1>9. go[N] = IF N = 0 THEN s ELSE IF N = 1 THEN one ELSE two
  <2> HIDE DEF one, two
  <2>1. N = 0 \/ N = 1 \/ N = 2
    BY <1>8
  <2> QED BY <1>5, <1>6, <1>7, <2>1
<1> QED BY <1>2, <1>9, Zenon DEF N

(* What waits for a QC is called: a pacemaker that is locked either waits  *)
(* already for another QC or is among those called.                        *)
LEMMA CallbacksGood ==
    ASSUME NEW s, Good(s), s.nblk + 2 <= MaxBlocks,
           NEW cbs \in Seq(Calls), Len(cbs) \in 0..2
    PROVE  LET t == Callbacks(s, cbs)
           IN  /\ Good(t) /\ t.proposer = s.proposer
               /\ LockWaits(s) \/ (\E i \in DOMAIN cbs : cbs[i] = beat) => LockWaits(t)
               /\ s.proposer # me /\ (\A i \in DOMAIN cbs : cbs[i] = beat) => t = s
<1> DEFINE one == Callback(s, cbs[1])
           two == Callback(one, cbs[2])
<1>1. s.nblk \in Nat /\ s.nblk < MaxBlocks /\ s.nblk + 1 < MaxBlocks
  <2>1. s.nblk \in Chain
    BY DEF Good, Core, Recs
  <2> QED BY <2>1, ChainFacts DEF Chain
<1>2. Len(cbs) \in 0..2 /\ DOMAIN cbs = 1..Len(cbs)
  BY LenProperties
<1> HIDE DEF one, two
<1>7. Callbacks(s, cbs) = IF Len(cbs) = 0 THEN s ELSE IF Len(cbs) = 1 THEN one ELSE two
  BY CallbacksAre, Zenon DEF one, two
<1>3. CASE Len(cbs) = 0
  <2>1. Callbacks(s, cbs) = s
    BY <1>3, <1>7
  <2> QED BY <1>2, <1>3, <2>1
<1>4. ASSUME Len(cbs) >= 1
      PROVE  /\ Good(one) /\ one.proposer = s.proposer /\ one.nblk \in {s.nblk, s.nblk + 1}
             /\ LockWaits(s) \/ cbs[1] = beat => LockWaits(one)
             /\ cbs[1] = beat /\ s.proposer # me => one = s
  <2>1. cbs[1] \in Calls
    BY <1>2, <1>4
  <2> QED BY <1>1, <2>1, CallbackGood DEF one
<1>5. CASE Len(cbs) = 1
  <2>1. Callbacks(s, cbs) = one
    BY <1>5, <1>7
  <2>2. DOMAIN cbs = {1}
    BY <1>2, <1>5
  <2> QED BY <1>4, <1>5, <2>1, <2>2
<1>6. CASE Len(cbs) = 2
  <2>1. Callbacks(s, cbs) = two
    BY <1>6, <1>7
  <2>2. DOMAIN cbs = {1, 2} /\ cbs[2] \in Calls
    BY <1>2, <1>6
  <2>3. /\ Good(one) /\ one.proposer = s.proposer /\ one.nblk < MaxBlocks
        /\ LockWaits(s) \/ cbs[1] = beat => LockWaits(one)
        /\ cbs[1] = beat /\ s.proposer # me => one = s
    BY <1>1, <1>4, <1>6
  <2>4. /\ Good(two) /\ two.proposer = one.proposer
        /\ LockWaits(one) \/ cbs[2] = beat => LockWaits(two)
        /\ cbs[2] = beat /\ one.proposer # me => two = one
    BY <2>2, <2>3, CallbackGood DEF two
  <2> QED BY <2>1, <2>2, <2>3, <2>4
<1> QED BY <1>2, <1>3, <1>5, <1>6

-----------------------------------------------------------------------------
(* The handlers.                                                           *)
LEMMA InitInv ==
    ASSUME Init
    PROVE  Inv
<1>1. pm \in Recs
  <2>1. /\ 0 \in 0..(nreplicas - 1)
        /\ [b \in 0..MaxBlocks |-> 0] \in [Chain -> Chain]
        /\ [b \in Blocks |-> {}] \in [Blocks -> SUBSET Nat]
        /\ [b \in Blocks |-> <<>>] \in [Blocks -> Seq(Calls)]
    BY ChainFacts DEF Chain
  <2> QED BY <2>1, ChainFacts DEF Init, Recs
<1>2. /\ \A b \in Blocks : pm.callbacks[b] = <<>>
      /\ pm.finished = {} /\ pm.rejected = {} /\ pm.nblk = 0
      /\ pm.last_proposed = 0 /\ pm.pm_qc_finish = 0 /\ pm.pm_qc_manual = 0
      /\ pm.rotating = FALSE /\ pm.proposer = me /\ pm.pm_wait_propose = TRUE
      /\ pm.locked = FALSE /\ raced = FALSE
  BY DEF Init, me
<1>3. Waiting(pm)
  BY <1>2 DEF Waiting
<1>4. AllOwned(pm)
  BY <1>2 DEF AllOwned, Owned
<1>5. Settled(pm) /\ LockWaits(pm)
  BY <1>2 DEF Settled, LockWaits
<1> QED BY <1>1, <1>2, <1>3, <1>4, <1>5 DEF Inv, Held, Good, Core

(* A client's command keeps the invariant.                                 *)
LEMMA CommandInv ==
    ASSUME Inv, Command
    PROVE  Inv'
<1> DEFINE n == pm.buffered + 1
           w == pm.decision_waiting \cup {n}
           s == IF n > blk_size THEN pm
                ELSE [pm EXCEPT !.buffered = n, !.decision_waiting = w]
           t == IF s.buffered < blk_size THEN s
                ELSE IF pm.rotating THEN BeatBody(s) ELSE Beat(s)
<1>1. pm' = t /\ pm.proposer = me /\ Room /\ raced' = raced
  BY Zenon DEF Command, Update
<1>2. Good(pm) /\ LockWaits(pm) /\ pm \in Recs /\ raced \in BOOLEAN
  BY DEF Inv, Held, Good, Core
<1>3. n \in Nat /\ w \in SUBSET Nat
  BY <1>2 DEF Recs
<1> HIDE DEF n, w
<1>4. s \in Recs /\ Alike(pm, s)
  <2>1. CASE n > blk_size
    <3>1. s = pm
      BY <2>1
    <3> QED BY <1>2, <3>1 DEF Alike
  <2>2. CASE ~ (n > blk_size)
    <3>1. s = [pm EXCEPT !.buffered = n, !.decision_waiting = w]
      BY <2>2, Zenon
    <3> HIDE DEF s
    <3> QED BY <1>2, <1>3, <3>1 DEF Recs, Alike
  <2> QED BY <2>1, <2>2
<1> HIDE DEF s
<1>5. Good(s) /\ LockWaits(s) /\ s.proposer = me /\ s.rotating = pm.rotating
  BY <1>1, <1>2, <1>4, AlikeGood DEF Alike
<1>6. s.nblk < MaxBlocks
  <2>1. s.nblk \in Chain /\ s.nblk + 2 <= MaxBlocks
    BY <1>1, <1>4 DEF Recs, Alike, Room
  <2> QED BY <2>1, ChainFacts DEF Chain
<1>7. Good(t) /\ LockWaits(t) /\ t.proposer = me
  <2>1. CASE s.buffered < blk_size
    BY <1>5, <2>1
  <2>2. CASE ~ (s.buffered < blk_size) /\ pm.rotating
    <3>1. t = BeatBody(s)
      BY <2>2
    <3> HIDE DEF t
    <3> QED BY <1>5, <1>6, <3>1, BeatBodyGood
  <2>3. CASE ~ (s.buffered < blk_size) /\ ~ pm.rotating
    <3>1. t = Beat(s)
      BY <2>3
    <3> HIDE DEF t
    <3> QED BY <1>5, <1>6, <2>3, <3>1, BeatGood
  <2> QED BY <2>1, <2>2, <2>3
<1> HIDE DEF t
<1>8. Held(t, raced)
  BY <1>2, <1>7 DEF Held
<1> QED BY <1>1, <1>8 DEF Inv

(* A rotation that impeach starts keeps the invariant.                     *)
LEMMA ImpeachInv ==
    ASSUME Inv, pm' = Rotate(pm), raced' = raced
    PROVE  Inv'
<1> DEFINE t == Rotate(pm)
<1>1. Good(pm) /\ raced \in BOOLEAN
  BY DEF Inv, Held
<1>2. Good(t) /\ LockWaits(t) /\ OnlyBeats(t) /\ t.timer = "exp"
  BY <1>1, RotateGood
<1> HIDE DEF t
<1>3. Held(t, raced)
  BY <1>1, <1>2 DEF Held
<1> QED BY <1>3 DEF Inv, t

(* on_exp_timeout keeps the invariant.                                     *)
LEMMA ExpTimeoutInv ==
    ASSUME Inv, OnExpTimeout
    PROVE  Inv'
<1> DEFINE s == IF pm.proposer = me THEN DoNewConsensus(pm, 0, {}) ELSE pm
           t == [s EXCEPT !.timer = "rotate"]
<1>1. pm' = t /\ (Room \/ pm.proposer # me) /\ raced' = raced
  BY Zenon DEF OnExpTimeout, Update
<1>2. Good(pm) /\ LockWaits(pm) /\ pm \in Recs /\ raced \in BOOLEAN
  BY DEF Inv, Held, Good, Core
<1>3. /\ Good(s) /\ LockWaits(s) /\ s.proposer = pm.proposer
      /\ pm.proposer # me /\ ~ raced => OnlyBeats(s)
  <2>1. CASE pm.proposer = me
    <3> DEFINE none == {}
    <3>1. s = DoNewConsensus(pm, 0, none)
      BY <2>1
    <3>2. pm.nblk < MaxBlocks
      <4>1. pm.nblk \in Chain /\ pm.nblk + 2 <= MaxBlocks
        BY <1>1, <1>2, <2>1 DEF Recs, Room
      <4> QED BY <4>1, ChainFacts DEF Chain
    <3>3. none \in SUBSET Nat /\ 0 \in Nat
      OBVIOUS
    <3> HIDE DEF s, none
    <3> QED BY <1>2, <2>1, <3>1, <3>2, <3>3, NewConsensusGood
  <2>2. CASE pm.proposer # me
    <3>1. s = pm
      BY <2>2
    <3> HIDE DEF s
    <3> QED BY <1>2, <2>2, <3>1 DEF Inv, Held
  <2> QED BY <2>1, <2>2
<1> HIDE DEF s
<1>4. s \in Recs
  BY <1>3 DEF Good, Core
<1>5. t \in Recs /\ Alike(s, t) /\ t.timer = "rotate"
  BY <1>4 DEF Recs, Alike
<1> HIDE DEF t
<1>6. Good(t) /\ LockWaits(t)
  BY <1>3, <1>5, AlikeGood
<1>7. Held(t, raced)
  BY <1>2, <1>3, <1>5, <1>6 DEF Held, Alike, OnlyBeats
<1> QED BY <1>1, <1>7 DEF Inv

(* The call that stop_rotate deferred keeps the invariant.                 *)
LEMMA DeferredInv ==
    ASSUME Inv, DeferredCall
    PROVE  Inv'
<1> DEFINE s == [pm EXCEPT !.deferred = @ - 1]
           w == s.decision_waiting
           t == IF Reproposes THEN DoNewConsensus(s, 0, w) ELSE s
<1>1. pm' = t /\ Room /\ raced' = (raced \/ (Reproposes /\ pm.rotating))
  BY Zenon DEF DeferredCall, Update
<1>2. Good(pm) /\ LockWaits(pm) /\ pm \in Recs /\ raced \in BOOLEAN
  BY DEF Inv, Held, Good, Core
<1>3. s \in Recs /\ Alike(pm, s) /\ s.timer = pm.timer
  <2> DEFINE d == pm.deferred - 1
  <2>1. d \in Nat
    BY <1>2 DEF DeferredCall, Recs
  <2>2. s = [pm EXCEPT !.deferred = d]
    OBVIOUS
  <2> HIDE DEF d, s
  <2> QED BY <1>2, <2>1, <2>2 DEF Recs, Alike
<1> HIDE DEF s
<1>4. Good(s) /\ LockWaits(s) /\ w \in SUBSET Nat
  BY <1>2, <1>3, AlikeGood DEF Recs
<1>5. s.nblk < MaxBlocks
  <2>1. s.nblk \in Chain /\ s.nblk + 2 <= MaxBlocks
    BY <1>1, <1>3 DEF Recs, Alike, Room
  <2> QED BY <2>1, ChainFacts DEF Chain
<1>6. CASE Reproposes
  <2>1. t = DoNewConsensus(s, 0, w)
    BY <1>6
  <2>2. Good(t) /\ LockWaits(t) /\ t.proposer = s.proposer
    <3> HIDE DEF t, w
    <3> QED BY <1>4, <1>5, <2>1, NewConsensusGood
  <2> HIDE DEF t
  <2>3. t.proposer # me => raced'
    BY <1>1, <1>2, <1>3, <1>6, <2>2 DEF Alike, Good, Settled
  <2>4. raced' \in BOOLEAN
    BY <1>1
  <2>5. Held(t, raced')
    BY <2>2, <2>3, <2>4 DEF Held
  <2> QED BY <1>1, <2>5 DEF Inv
<1>7. CASE ~ Reproposes
  <2>1. t = s /\ raced' = raced
    BY <1>1, <1>2, <1>7
  <2> HIDE DEF t
  <2>2. Held(s, raced)
    BY <1>2, <1>3, <1>4 DEF Inv, Held, Alike, OnlyBeats
  <2> QED BY <1>1, <2>1, <2>2 DEF Inv
<1> QED BY <1>6, <1>7

(* At most a beat and a do_new_consensus wait for the same QC.             *)
LEMMA TwoAtMost ==
    ASSUME NEW s, Core(s), NEW b \in Blocks
    PROVE  s.callbacks[b] \in Seq(Calls) /\ Len(s.callbacks[b]) \in 0..2
<1> DEFINE cbs == s.callbacks[b]
<1>1. cbs \in Seq(Calls) /\ Owned(s, b)
  BY DEF Core, Recs, AllOwned
<1>2. \A i, j \in DOMAIN cbs : (cbs[i] = beat <=> cbs[j] = beat) => i = j
  BY <1>1 DEF Owned
<1> HIDE DEF cbs
<1>3. Len(cbs) \in Nat /\ DOMAIN cbs = 1..Len(cbs)
  BY <1>1, LenProperties
<1>4. ASSUME Len(cbs) >= 3 PROVE FALSE
  <2>1. 1 \in DOMAIN cbs /\ 2 \in DOMAIN cbs /\ 3 \in DOMAIN cbs
    BY <1>3, <1>4
  <2> QED BY <1>2, <2>1
<1>5. Len(cbs) \in 0..2
  BY <1>3, <1>4
<1> QED BY <1>1, <1>5 DEF cbs

(* A completed QC keeps the invariant, and in another's turn, without the  *)
(* race, makes no block.                                                   *)
LEMMA QcFinishInv ==
    ASSUME Inv, NEW b \in Blocks, QcFinish(b)
    PROVE  Inv' /\ (pm.proposer # me /\ ~ raced => pm'.nblk = pm.nblk)
<1> DEFINE F == pm.finished \cup {b}
           q == IF b > pm.hqc THEN b ELSE pm.hqc
           C == [pm.callbacks EXCEPT ![b] = <<>>]
           s == [pm EXCEPT !.finished = F, !.hqc = q, !.callbacks = C]
           cbs == pm.callbacks[b]
           t == Callbacks(s, cbs)
<1>1. pm' = t /\ Room /\ b \in 1..pm.nblk \ pm.finished /\ raced' = raced
  BY Zenon DEF QcFinish, Update
<1>2. Good(pm) /\ Core(pm) /\ LockWaits(pm) /\ pm \in Recs /\ raced \in BOOLEAN
  BY DEF Inv, Held, Good, Core
<1>3. /\ F \subseteq Blocks /\ q \in Chain /\ C \in [Blocks -> Seq(Calls)]
      /\ \A c \in Blocks : C[c] = IF c = b THEN <<>> ELSE pm.callbacks[c]
  <2>1. /\ pm.finished \subseteq Blocks /\ pm.hqc \in Chain /\ b \in Chain
        /\ pm.callbacks \in [Blocks -> Seq(Calls)]
    BY <1>2, ChainFacts DEF Recs
  <2>2. C \in [Blocks -> Seq(Calls)]
    BY <2>1
  <2> QED BY <2>1, <2>2
<1>4. F = pm.finished \cup {b} /\ cbs = pm.callbacks[b]
  OBVIOUS
<1>5. cbs \in Seq(Calls) /\ Len(cbs) \in 0..2
  BY <1>2, TwoAtMost
<1> HIDE DEF F, q, C, cbs
<1>6. /\ s \in Recs /\ s.nblk = pm.nblk /\ s.finished = F /\ s.rejected = pm.rejected
      /\ s.callbacks = C /\ s.proposer = pm.proposer /\ s.rotating = pm.rotating
      /\ s.pm_qc_finish = pm.pm_qc_finish /\ s.pm_qc_manual = pm.pm_qc_manual
      /\ s.last_proposed = pm.last_proposed /\ s.locked = pm.locked
      /\ s.pm_wait_propose = pm.pm_wait_propose /\ s.timer = pm.timer
  BY <1>2, <1>3 DEF Recs
<1> HIDE DEF s
<1>7. Waiting(s)
  BY <1>1, <1>2, <1>3, <1>4, <1>6 DEF Core, Waiting
<1>8. AllOwned(s)
  <2>1. SUFFICES ASSUME NEW c \in Blocks PROVE Owned(s, c)
    BY DEF AllOwned
  <2>2. Owned(pm, c)
    BY <1>2 DEF Core, AllOwned
  <2>3. CASE c = b
    BY <1>3, <1>6, <2>3 DEF Owned
  <2>4. CASE c # b
    BY <1>3, <1>6, <2>2, <2>4 DEF Owned
  <2> QED BY <2>3, <2>4
<1>9. Good(s)
  <2>1. Settled(s)
    BY <1>2, <1>6 DEF Good, Settled
  <2> QED BY <1>6, <1>7, <1>8, <2>1 DEF Good, Core
<1>10. LockWaits(s) \/ \E i \in DOMAIN cbs : cbs[i] = beat
  <2>1. CASE pm.last_proposed = b /\ pm.locked /\ ~ pm.rotating
    BY <1>2, <1>4, <2>1 DEF LockWaits, Range
  <2>2. CASE ~ (pm.last_proposed = b /\ pm.locked /\ ~ pm.rotating)
    BY <1>2, <1>3, <1>4, <1>6, <2>2 DEF LockWaits
  <2> QED BY <2>1, <2>2
<1>11. s.nblk + 2 <= MaxBlocks
  BY <1>1, <1>6 DEF Room
<1>12. /\ Good(t) /\ t.proposer = s.proposer /\ LockWaits(t)
       /\ s.proposer # me /\ (\A i \in DOMAIN cbs : cbs[i] = beat) => t = s
  BY <1>5, <1>9, <1>10, <1>11, CallbacksGood
<1> HIDE DEF t
<1>13. ASSUME pm.proposer # me, ~ raced
       PROVE  t = s /\ OnlyBeats(s)
  <2>1. OnlyBeats(pm)
    BY <1>13 DEF Inv, Held
  <2>2. \A i \in DOMAIN cbs : cbs[i] = beat
    BY <1>4, <2>1 DEF OnlyBeats
  <2>3. OnlyBeats(s)
    BY <1>3, <1>6, <2>1 DEF OnlyBeats
  <2> QED BY <1>6, <1>12, <1>13, <2>2, <2>3
<1>14. Held(t, raced)
  <2>1. t.proposer = pm.proposer
    BY <1>6, <1>12
  <2>2. ASSUME t.proposer # me, ~ raced
        PROVE  OnlyBeats(t) /\ ~ (t.rotating /\ t.timer = "none")
    BY <1>6, <1>13, <2>1, <2>2 DEF Inv, Held
  <2> QED BY <1>2, <1>12, <2>2 DEF Held
<1>15. pm.proposer # me /\ ~ raced => pm'.nblk = pm.nblk
  BY <1>1, <1>6, <1>13
<1> QED BY <1>1, <1>14, <1>15 DEF Inv

(* Every handler and timer keeps the invariant.                            *)
LEMMA NextInv ==
    ASSUME Inv, [Next]_vars
    PROVE  Inv'
<1>1. CASE Command
  BY <1>1, CommandInv
<1>2. CASE Impeach
  BY <1>2, ImpeachInv DEF Impeach, Update
<1>3. CASE OnExpTimeout
  BY <1>3, ExpTimeoutInv
<1>4. CASE RotateTimeout
  BY <1>4, ImpeachInv DEF RotateTimeout, Update
<1>5. CASE DeferredCall
  BY <1>5, DeferredInv
<1>6. ASSUME NEW b \in Blocks, QcFinish(b) PROVE Inv'
  BY <1>6, QcFinishInv
<1>7. CASE UNCHANGED vars
  BY <1>7 DEF vars, Inv
<1> QED BY <1>1, <1>2, <1>3, <1>4, <1>5, <1>6, <1>7 DEF Next

(* The invariant of the pacemaker holds throughout.                        *)
LEMMA AlwaysInv == Spec => []Inv
BY InitInv, NextInv, PTL DEF Spec

-----------------------------------------------------------------------------
(* A rotation in another replica's turn is never left without a timer,     *)
(* except after a deferred call of stop_rotate proposed in it.             *)
THEOREM DeadOnlyAfterRace == Spec => []DeadOnlyByRace
<1>1. Inv => DeadOnlyByRace
  BY DEF Inv, Held, DeadOnlyByRace
<1> QED BY <1>1, AlwaysInv, PTL

(* do_new_consensus never has two chains waiting: the promise of the one   *)
(* before, pm_qc_manual, is rejected before the next one waits.            *)
THEOREM OneChainWaits == Spec => []OneManualChain
<1>1. Inv => OneManualChain
  <2>1. SUFFICES ASSUME Inv,
                        NEW b \in Blocks, NEW c \in Blocks,
                        NEW i \in DOMAIN pm.callbacks[b],
                        NEW j \in DOMAIN pm.callbacks[c],
                        pm.callbacks[b][i] # beat, pm.callbacks[c][j] # beat
                 PROVE  b = c /\ i = j
    BY DEF OneManualChain
  <2>2. Owned(pm, b) /\ Owned(pm, c)
    BY <2>1 DEF Inv, Held, Good, Core, AllOwned
  <2>3. b = c
    BY <2>1, <2>2 DEF Owned
  <2> QED BY <2>1, <2>2, <2>3 DEF Owned
<1> QED BY <1>1, AlwaysInv, PTL

(* Outside rotations a locked pacemaker waits for a QC that may still      *)
(* come, on a promise that will call it: no handler leaves it locked with  *)
(* nobody to unlock it.                                                    *)
THEOREM LockIsReleased == Spec => []LockedWaits
<1>1. Inv => LockedWaits
  BY DEF Inv, Held, LockWaits, LockedWaits
<1> QED BY <1>1, AlwaysInv, PTL

(* The replica makes a block in its own turn only, except after that race. *)
THEOREM BlocksInOwnTurn == Spec => OwnTurn
<1>1. ASSUME Inv, [Next]_vars
      PROVE  [pm'.nblk > pm.nblk => pm.proposer = me \/ raced']_vars
  <2>1. SUFFICES ASSUME Next, pm.proposer # me, ~ raced'
                 PROVE  ~ (pm'.nblk > pm.nblk)
    BY <1>1
  <2>2. pm \in Recs /\ Good(pm) /\ raced \in BOOLEAN
    BY <1>1 DEF Inv, Held, Good, Core
  <2>3. pm.nblk \in Nat
    BY <2>2, ChainFacts DEF Recs, Chain
  <2>4. SUFFICES pm'.nblk = pm.nblk
    BY <2>3
  <2>5. CASE Command
    BY <2>1, <2>5 DEF Command
  <2>6. CASE Impeach
    BY <2>2, <2>6, RotateGood DEF Impeach, Update
  <2>7. CASE OnExpTimeout
    <3>1. pm' = [pm EXCEPT !.timer = "rotate"]
      BY <2>1, <2>7 DEF OnExpTimeout, Update
    <3> QED BY <2>2, <3>1 DEF Recs
  <2>8. CASE RotateTimeout
    BY <2>2, <2>8, RotateGood DEF RotateTimeout, Update
  <2>9. CASE DeferredCall
    <3>1. pm.rotating
      BY <2>1, <2>2 DEF Good, Settled
    <3>2. pm' = [pm EXCEPT !.deferred = @ - 1]
      BY <2>1, <2>9, <3>1 DEF DeferredCall, Update
    <3> QED BY <2>2, <3>2 DEF Recs
  <2>10. ASSUME NEW b \in Blocks, QcFinish(b) PROVE pm'.nblk = pm.nblk
    <3>1. ~ raced
      BY <2>1, <2>10 DEF QcFinish
    <3> QED BY <1>1, <2>1, <2>10, <3>1, QcFinishInv
  <2> QED BY <2>1, <2>5, <2>6, <2>7, <2>8, <2>9, <2>10 DEF Next
<1> QED BY <1>1, AlwaysInv, PTL DEF Spec, OwnTurn

=============================================================================
