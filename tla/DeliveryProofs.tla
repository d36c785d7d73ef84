--------------------------- MODULE DeliveryProofs ---------------------------
(***************************************************************************)
(* Proofs about Delivery, for every tree of replicas, every graph of       *)
(* blocks and every choice of lost messages and bad certificates.          *)
(***************************************************************************)
EXTENDS Delivery, WellFoundedInduction, TLAPS

-----------------------------------------------------------------------------
(* Loops as recursive functions: the induction over the number of runs of  *)
(* the body is on sets, so that no lemma takes an operator.                *)

(* g[k] is what the loop has computed after k of its M runs, the k-th of   *)
(* which applies f[k].                                                     *)
IsRun(g, M, a, f) ==
    /\ DOMAIN g = 0..M /\ g = [k \in 0..M |-> g[k]]
    /\ g[0] = a
    /\ \A k \in 1..M : g[k] = f[k][g[k - 1]]

(* A set of numbers that is not empty has a least one.                     *)
LEMMA LeastNumber ==
    ASSUME NEW S \in SUBSET Nat, S # {}
    PROVE  \E m \in S : \A n \in S : m <= n
<1> DEFINE R == OpToRel(<, Nat)
<1>1. IsWellFoundedOn(R, Nat)
  BY NatLessThanWellFounded
<1>2. PICK m \in S : \A n \in S : ~ (<<n, m>> \in R)
  <2> HIDE DEF R
  <2> QED BY <1>1, WFMin
<1>3. \A n \in S : ~ (n < m)
  BY <1>2 DEF OpToRel
<1> QED
  BY <1>3

(* A loop invariant: B[k] holds what may be there after k runs.            *)
LEMMA RunStays ==
    ASSUME NEW M \in Nat, NEW g, NEW B, g[0] \in B[0],
           \A k \in 1..M : g[k - 1] \in B[k - 1] => g[k] \in B[k]
    PROVE  \A k \in 0..M : g[k] \in B[k]
<1> DEFINE S == {k \in 0..M : g[k] \notin B[k]}
<1> SUFFICES ASSUME S # {} PROVE FALSE
  OBVIOUS
<1>1. PICK m \in S : \A k \in S : m <= k
  <2>1. S \in SUBSET Nat
    OBVIOUS
  <2> HIDE DEF S
  <2> QED BY <2>1, LeastNumber
<1>2. m \in 1..M
  BY <1>1
<1>3. m - 1 \notin S
  BY <1>1, <1>2
<1>4. g[m - 1] \in B[m - 1]
  BY <1>2, <1>3
<1> QED BY <1>1, <1>2, <1>4

(* Every loop of M runs computes something.                                *)
LEMMA RunExists ==
    ASSUME NEW M \in Nat, NEW a, NEW f
    PROVE  \E g : IsRun(g, M, a, f)
<1> DEFINE S == {j \in 0..M : ~ \E g : IsRun(g, j, a, f)}
<1> SUFFICES ASSUME S # {} PROVE FALSE
  OBVIOUS
<1>1. PICK m \in S : \A k \in S : m <= k
  <2>1. S \in SUBSET Nat
    OBVIOUS
  <2> HIDE DEF S
  <2> QED BY <2>1, LeastNumber
<1>2. m \in 0..M /\ ~ \E g : IsRun(g, m, a, f)
  BY <1>1
<1>3. CASE m = 0
  <2> DEFINE h == [k \in 0..0 |-> a]
  <2>1. IsRun(h, 0, a, f)
    BY DEF IsRun
  <2> QED BY <1>2, <1>3, <2>1
<1>4. CASE m # 0
  <2>1. m - 1 \in 0..M /\ m - 1 \notin S
    BY <1>1, <1>2, <1>4
  <2>2. PICK g : IsRun(g, m - 1, a, f)
    BY <2>1
  <2> DEFINE h == [k \in 0..m |-> IF k = m THEN f[m][g[m - 1]] ELSE g[k]]
  <2>3. IsRun(h, m, a, f)
    <3>1. h[0] = a
      BY <1>2, <1>4, <2>2 DEF IsRun
    <3>2. ASSUME NEW k \in 1..m
          PROVE  h[k] = f[k][h[k - 1]]
      <4>1. CASE k = m
        BY <1>2, <1>4, <4>1
      <4>2. CASE k # m
        <5>1. k \in 1..(m - 1) /\ k - 1 \in 0..m /\ k - 1 # m
          BY <1>2, <4>2
        <5>2. g[k] = f[k][g[k - 1]]
          BY <2>2, <5>1 DEF IsRun
        <5>3. h[k] = g[k] /\ h[k - 1] = g[k - 1]
          BY <4>2, <5>1
        <5> QED BY <5>2, <5>3
      <4> QED BY <4>1, <4>2
    <3> QED BY <3>1, <3>2 DEF IsRun
  <2> QED BY <1>2, <2>3
<1> QED BY <1>3, <1>4

-----------------------------------------------------------------------------

AllBlocks == 0..MaxBlock

Msgs == [type : {"req", "resp"}, from : Nodes, to : Nodes, blk : AllBlocks]

(* The record of a replica.                                                *)
Recs ==
    [fetched : SUBSET AllBlocks, delivered : SUBSET AllBlocks,
     proposed : SUBSET Blocks, blk_fetch_waiting : SUBSET Blocks,
     blk_delivery_waiting : SUBSET Blocks,
     replicas : [AllBlocks -> SUBSET Nodes],
     started : SUBSET Blocks, verified : SUBSET Blocks, qc_pending : SUBSET Blocks,
     req_waiting : SUBSET (Nodes \X AllBlocks), out : SUBSET Msgs]

(* What is delivered is complete: DeliveredClosed at one replica.          *)
ClosedAt(n, s) ==
    \A b \in s.delivered \ {0} :
        /\ n = Root \/ b \notin bad
        /\ {b, QcRef[b]} \subseteq s.fetched
        /\ ParentOf[b] \subseteq s.delivered

(* A delivery starts when its block is fetched, and the block of its QC is *)
(* fetched or being fetched.                                               *)
StartedAt(s) ==
    /\ 0 \in s.fetched /\ 0 \in s.delivered
    /\ s.started \subseteq s.fetched
    /\ \A b \in s.started : QcRef[b] \in s.fetched \/ b \in s.qc_pending

(* Two conjuncts of WaitsForSomething, and the third but for the blocks in *)
(* due.                                                                    *)
FetchingAt(s) ==
    /\ \A b \in s.blk_delivery_waiting \ s.started :
          b \in s.blk_fetch_waiting /\ s.replicas[b] # {}
    /\ \A b \in s.qc_pending :
          QcRef[b] \in s.blk_fetch_waiting /\ s.replicas[QcRef[b]] # {}

(* FetchingAt, but for what a fetch context of b with replicas who gives.  *)
FetchingBut(s, b, who) ==
    /\ \A c \in s.blk_delivery_waiting \ s.started :
          \/ c = b /\ who # {}
          \/ c \in s.blk_fetch_waiting /\ s.replicas[c] # {}
    /\ \A c \in s.qc_pending :
          \/ QcRef[c] = b /\ who # {}
          \/ QcRef[c] \in s.blk_fetch_waiting /\ s.replicas[QcRef[c]] # {}

ParentsAt(s, due) ==
    \A b \in s.blk_delivery_waiting \cap s.started :
        ParentOf[b] \subseteq s.delivered \cup s.blk_delivery_waiting \cup due

(* Of the blocks in due, those above b have had their turn.                *)
ParentsBelow(s, due, b) == ParentsAt(s, {d \in due : d <= b})

Good(n, s) == s \in Recs /\ ClosedAt(n, s) /\ StartedAt(s) /\ FetchingAt(s)

(* The proposer has everything and waits for nothing.                      *)
RootIdle ==
    LET s == rep[Root]
    IN  /\ s.fetched = AllBlocks
        /\ s.blk_fetch_waiting = {} /\ s.blk_delivery_waiting = {}
        /\ s.started = {}

Inv ==
    /\ setting \in Settings /\ net \subseteq Msgs
    /\ DOMAIN rep = Nodes
    /\ \A n \in Nodes : Good(n, rep[n]) /\ ParentsAt(rep[n], {}) /\ rep[n].out = {}
    /\ RootIdle

-----------------------------------------------------------------------------
(* The pieces of the handlers, one by one.                                 *)
LEMMA BlockFacts ==
    /\ MaxBlock \in Nat /\ 0 \in AllBlocks /\ Blocks \subseteq AllBlocks
    /\ \A b \in Blocks : /\ b \in AllBlocks /\ b # 0
                         /\ QcRef[b] \in AllBlocks
                         /\ ParentOf[b] \subseteq 0..(b - 1)
                         /\ ParentOf[b] \subseteq AllBlocks
    /\ \A b \in AllBlocks : b # 0 => b \in Blocks
<1>1. MaxBlock \in Nat
  BY DeliveryAssumption
<1>2. ASSUME NEW b \in Blocks
      PROVE  /\ b \in AllBlocks /\ b # 0
             /\ QcRef[b] \in AllBlocks
             /\ ParentOf[b] \subseteq 0..(b - 1)
             /\ ParentOf[b] \subseteq AllBlocks
  BY <1>1, DeliveryAssumption DEF Blocks, AllBlocks
<1> QED BY <1>1, <1>2 DEF Blocks, AllBlocks

(* A fetch context with somebody to ask puts those in order that wait for  *)
(* the block; one that only has to answer disturbs nobody.                 *)
LEMMA FetchGood ==
    ASSUME NEW n \in Nodes, NEW s, s \in Recs, ClosedAt(n, s), StartedAt(s),
           NEW b \in Blocks, NEW who \in SUBSET Nodes, FetchingBut(s, b, who)
    PROVE  LET t == AsyncFetchBlk(s, n, b, who)
           IN  /\ Good(n, t)
               /\ t.blk_fetch_waiting = s.blk_fetch_waiting \cup {b}
               /\ t.replicas[b] = s.replicas[b] \cup who
               /\ t.fetched = s.fetched /\ t.delivered = s.delivered
               /\ t.blk_delivery_waiting = s.blk_delivery_waiting
               /\ t.started = s.started /\ t.qc_pending = s.qc_pending
<1> DEFINE reqs == {Req(n, p, b) : p \in who}
           o == IF s.replicas[b] = {} THEN s.out \cup reqs ELSE s.out
           t == AsyncFetchBlk(s, n, b, who)
<1>1. b \in AllBlocks /\ s \in Recs
  BY BlockFacts
<1>2. reqs \subseteq Msgs
  BY <1>1 DEF Req, Msgs
<1>3. o \subseteq Msgs
  BY <1>1, <1>2 DEF Recs
<1>4. t = [s EXCEPT !.blk_fetch_waiting = @ \cup {b},
                    !.replicas = [s.replicas EXCEPT ![b] = @ \cup who],
                    !.out = o]
  BY Zenon DEF AsyncFetchBlk
<1> HIDE DEF t, o
<1>5. /\ t \in Recs
      /\ t.blk_fetch_waiting = s.blk_fetch_waiting \cup {b}
      /\ t.replicas = [s.replicas EXCEPT ![b] = @ \cup who]
      /\ t.fetched = s.fetched /\ t.delivered = s.delivered
      /\ t.blk_delivery_waiting = s.blk_delivery_waiting
      /\ t.started = s.started /\ t.qc_pending = s.qc_pending
  BY <1>1, <1>3, <1>4 DEF Recs
<1>6. s.replicas \in [AllBlocks -> SUBSET Nodes]
  BY <1>1 DEF Recs
<1>7. /\ t.replicas[b] = s.replicas[b] \cup who
      /\ \A c \in AllBlocks : s.replicas[c] \subseteq t.replicas[c]
  BY <1>1, <1>5, <1>6
<1>8. ClosedAt(n, t) /\ StartedAt(t)
  BY <1>5 DEF ClosedAt, StartedAt
<1>9. FetchingAt(t)
  <2>1. \A c \in s.qc_pending : QcRef[c] \in AllBlocks
    BY <1>1, BlockFacts DEF Recs
  <2>2. s.blk_delivery_waiting \subseteq AllBlocks
    BY <1>1, BlockFacts DEF Recs
  <2>3. \A c \in t.blk_delivery_waiting \ t.started :
           c \in t.blk_fetch_waiting /\ t.replicas[c] # {}
    BY <1>5, <1>7, <2>2 DEF FetchingBut
  <2>4. \A c \in t.qc_pending :
           QcRef[c] \in t.blk_fetch_waiting /\ t.replicas[QcRef[c]] # {}
    BY <1>5, <1>7, <2>1 DEF FetchingBut
  <2> QED BY <2>3, <2>4 DEF FetchingAt
<1> QED BY <1>5, <1>7, <1>8, <1>9 DEF Good, t

(* The delivery of a fetched block starts. It need not be in order before. *)
LEMMA StartGood ==
    ASSUME NEW n \in Nodes, NEW s, s \in Recs, ClosedAt(n, s), StartedAt(s),
           NEW b \in Blocks, b \in s.fetched, NEW peer \in Nodes,
           \A c \in s.blk_delivery_waiting \ (s.started \cup {b}) :
              c \in s.blk_fetch_waiting /\ s.replicas[c] # {},
           \A c \in s.qc_pending :
              QcRef[c] \in s.blk_fetch_waiting /\ s.replicas[QcRef[c]] # {}
    PROVE  LET t == StartDelivery(s, n, b, peer)
           IN  /\ Good(n, t)
               /\ t.started = s.started \cup {b}
               /\ t.fetched = s.fetched /\ t.delivered = s.delivered
               /\ t.blk_delivery_waiting = s.blk_delivery_waiting
<1> DEFINE u == [s EXCEPT !.started = @ \cup {b}]
           v == [u EXCEPT !.qc_pending = @ \cup {b}]
           q == QcRef[b]
<1>1. q \in AllBlocks /\ b \in AllBlocks
  BY BlockFacts
<1>2. /\ u \in Recs /\ u.started = s.started \cup {b}
      /\ u.fetched = s.fetched /\ u.delivered = s.delivered
      /\ u.blk_delivery_waiting = s.blk_delivery_waiting
      /\ u.blk_fetch_waiting = s.blk_fetch_waiting /\ u.replicas = s.replicas
      /\ u.qc_pending = s.qc_pending
  BY DEF Recs
<1> HIDE DEF u
<1>3. CASE q \in s.fetched
  <2>1. StartDelivery(s, n, b, peer) = u
    BY <1>3 DEF StartDelivery, u
  <2>2. ClosedAt(n, u) /\ StartedAt(u) /\ FetchingAt(u)
    BY <1>2, <1>3 DEF ClosedAt, StartedAt, FetchingAt
  <2> QED BY <1>2, <2>1, <2>2 DEF Good
<1>4. CASE q \notin s.fetched
  <2> DEFINE who == {peer}
             t == AsyncFetchBlk(v, n, q, who)
  <2>1. q \in Blocks
    BY <1>1, <1>4, BlockFacts DEF StartedAt
  <2>2. /\ v \in Recs /\ v.started = s.started \cup {b}
        /\ v.fetched = s.fetched /\ v.delivered = s.delivered
        /\ v.blk_delivery_waiting = s.blk_delivery_waiting
        /\ v.blk_fetch_waiting = s.blk_fetch_waiting /\ v.replicas = s.replicas
        /\ v.qc_pending = s.qc_pending \cup {b}
    BY <1>2 DEF Recs
  <2>3. StartDelivery(s, n, b, peer) = t
    BY <1>4 DEF StartDelivery, u
  <2> HIDE DEF v, q
  <2>4. ClosedAt(n, v) /\ StartedAt(v)
    BY <2>2 DEF ClosedAt, StartedAt
  <2>5. FetchingBut(v, q, who)
    BY <2>2 DEF FetchingBut, q
  <2>6. /\ Good(n, t) /\ t.fetched = v.fetched /\ t.delivered = v.delivered
        /\ t.blk_delivery_waiting = v.blk_delivery_waiting
        /\ t.started = v.started
    <3>1. who \in SUBSET Nodes
      OBVIOUS
    <3> HIDE DEF t, who
    <3> QED BY <2>1, <2>2, <2>4, <2>5, <3>1, FetchGood DEF t
  <2> QED BY <2>2, <2>3, <2>6
<1> QED BY <1>3, <1>4

-----------------------------------------------------------------------------
(* One round of the loop of AsyncDeliverBlk.                               *)
LEMMA DueGood ==
    ASSUME NEW n \in Nodes, NEW peer \in Nodes, NEW b \in Blocks,
           NEW t, Good(n, t), NEW due \in SUBSET AllBlocks,
           ParentsBelow(t, due, b)
    PROVE  \E u, new :
              /\ DeliverDue(t, due, n, b, peer) = <<u, new>>
              /\ Good(n, u) /\ new \in SUBSET AllBlocks
              /\ ParentsBelow(u, new, b - 1)
              /\ u.fetched = t.fetched /\ u.delivered = t.delivered
<1> DEFINE w == [t EXCEPT !.blk_delivery_waiting = @ \cup {b}]
<1>1. /\ b \in Int /\ ParentOf[b] \subseteq 0..(b - 1) /\ ParentOf[b] \subseteq AllBlocks
      /\ \A d \in due : d \in Int
  BY BlockFacts DEF Blocks, AllBlocks
<1>2. /\ w \in Recs /\ w.blk_delivery_waiting = t.blk_delivery_waiting \cup {b}
      /\ w.fetched = t.fetched /\ w.delivered = t.delivered
      /\ w.started = t.started /\ w.qc_pending = t.qc_pending
      /\ w.blk_fetch_waiting = t.blk_fetch_waiting /\ w.replicas = t.replicas
  BY DEF Good, Recs
<1>3. ClosedAt(n, w) /\ StartedAt(w)
  <2> HIDE DEF w
  <2> QED BY <1>2 DEF Good, ClosedAt, StartedAt
<1>4. CASE b \notin due \/ b \in t.delivered \cup t.blk_delivery_waiting
  <2>1. DeliverDue(t, due, n, b, peer) = <<t, due>>
    BY <1>4 DEF DeliverDue
  <2>2. {d \in due : d <= b} \subseteq
           {d \in due : d <= b - 1} \cup t.delivered \cup t.blk_delivery_waiting
    BY <1>1, <1>4
  <2>3. ParentsBelow(t, due, b - 1)
    BY <2>2 DEF ParentsAt, ParentsBelow
  <2> QED BY <2>1, <2>3
<1>5. CASE /\ ~ (b \notin due \/ b \in t.delivered \cup t.blk_delivery_waiting)
           /\ b \in t.fetched
  <2> DEFINE u == StartDelivery(w, n, b, peer)
             new == due \cup ParentOf[b]
  <2>1. DeliverDue(t, due, n, b, peer) = <<u, new>>
    BY <1>5 DEF DeliverDue
  <2> HIDE DEF w
  <2>2. /\ \A c \in w.blk_delivery_waiting \ (w.started \cup {b}) :
              c \in w.blk_fetch_waiting /\ w.replicas[c] # {}
        /\ \A c \in w.qc_pending :
              QcRef[c] \in w.blk_fetch_waiting /\ w.replicas[QcRef[c]] # {}
    BY <1>2 DEF Good, FetchingAt
  <2>3. /\ Good(n, u) /\ u.started = t.started \cup {b}
        /\ u.fetched = t.fetched /\ u.delivered = t.delivered
        /\ u.blk_delivery_waiting = t.blk_delivery_waiting \cup {b}
    <3> HIDE DEF u
    <3>1. b \in w.fetched
      BY <1>2, <1>5
    <3> QED BY <1>2, <1>3, <2>2, <3>1, StartGood DEF u
  <2> HIDE DEF u
  <2>4. ParentsBelow(u, new, b - 1)
    <3>1. {d \in due : d <= b} \subseteq {d \in new : d <= b - 1} \cup {b}
      BY <1>1
    <3>2. ParentOf[b] \subseteq {d \in new : d <= b - 1}
      BY <1>1
    <3> HIDE DEF new
    <3> QED BY <2>3, <3>1, <3>2 DEF ParentsAt, ParentsBelow
  <2>5. new \in SUBSET AllBlocks
    BY <1>1
  <2> QED BY <2>1, <2>3, <2>4, <2>5
<1>6. CASE /\ ~ (b \notin due \/ b \in t.delivered \cup t.blk_delivery_waiting)
           /\ b \notin t.fetched
  <2> DEFINE who == {peer}
             u == AsyncFetchBlk(w, n, b, who)
  <2>1. DeliverDue(t, due, n, b, peer) = <<u, due>>
    BY <1>6 DEF DeliverDue
  <2> HIDE DEF w
  <2>2. FetchingBut(w, b, who)
    BY <1>2 DEF Good, FetchingAt, FetchingBut
  <2>3. /\ Good(n, u) /\ u.started = t.started
        /\ u.fetched = t.fetched /\ u.delivered = t.delivered
        /\ u.blk_delivery_waiting = t.blk_delivery_waiting \cup {b}
    <3>1. who \in SUBSET Nodes
      OBVIOUS
    <3> HIDE DEF u, who
    <3> QED BY <1>2, <1>3, <2>2, <3>1, FetchGood DEF u
  <2> HIDE DEF u
  <2>4. b \notin u.started
    BY <1>6, <2>3 DEF Good, StartedAt
  <2>5. ParentsBelow(u, due, b - 1)
    <3> DEFINE rest == {d \in due : d <= b - 1}
    <3>1. {d \in due : d <= b} \subseteq rest \cup {b}
      BY <1>1
    <3> HIDE DEF rest
    <3>2. SUFFICES ASSUME NEW c \in u.blk_delivery_waiting \cap u.started
                   PROVE  ParentOf[c] \subseteq u.delivered \cup u.blk_delivery_waiting \cup rest
      BY DEF ParentsAt, ParentsBelow, rest
    <3>3. c \in t.blk_delivery_waiting \cap t.started
      BY <2>3, <2>4
    <3> QED BY <2>3, <3>1, <3>3 DEF ParentsAt, ParentsBelow
  <2> QED BY <2>1, <2>3, <2>5
<1> QED BY <1>4, <1>5, <1>6

(* The loop: whatever is due is delivered or waits when it ends.           *)
LEMMA AsyncDeliverGood ==
    ASSUME NEW n \in Nodes, NEW peer \in Nodes, NEW s, Good(n, s),
           NEW todo \in SUBSET AllBlocks, ParentsAt(s, todo)
    PROVE  LET t == AsyncDeliverBlk(s, n, todo, peer)
           IN  /\ Good(n, t) /\ ParentsAt(t, {})
               /\ t.fetched = s.fetched /\ t.delivered = s.delivered
<1> DEFINE A == Recs \X SUBSET AllBlocks
           Ok(x, k) == /\ Good(n, x[1])
                       /\ ParentsBelow(x[1], x[2], MaxBlock - k)
                       /\ x[1].fetched = s.fetched /\ x[1].delivered = s.delivered
           B == [k \in 0..MaxBlock |-> {x \in A : Ok(x, k)}]
           Round(x, k) == DeliverDue(x[1], x[2], n, MaxBlock + 1 - k, peer)
           F == [k \in 1..MaxBlock |-> [x \in A |-> Round(x, k)]]
           Loop(g) == [k \in 0..MaxBlock |->
                         IF k = 0 THEN <<s, todo>>
                         ELSE DeliverDue(g[k - 1][1], g[k - 1][2], n, MaxBlock + 1 - k, peer)]
           go == CHOOSE g : g = Loop(g)
<1>1. MaxBlock \in Nat
  BY BlockFacts
<1>2. <<s, todo>> \in B[0]
  <2>1. <<s, todo>> \in A
    BY DEF Good
  <2>2. {d \in todo : d <= MaxBlock - 0} = todo
    <3>1. ASSUME NEW d \in todo PROVE d <= MaxBlock - 0
      BY <1>1 DEF AllBlocks
    <3> QED BY <3>1, Zenon
  <2>3. Ok(<<s, todo>>, 0)
    BY <2>2 DEF ParentsBelow
  <2> HIDE DEF A, Ok
  <2> QED BY <1>1, <2>1, <2>3
<1>3. ASSUME NEW k \in 1..MaxBlock, NEW x \in B[k - 1]
      PROVE  x \in A /\ Round(x, k) \in B[k]
  <2> DEFINE b == MaxBlock + 1 - k
             t == x[1]
             due == x[2]
  <2>1. /\ b \in Blocks /\ k - 1 \in 0..MaxBlock /\ k \in 0..MaxBlock
        /\ MaxBlock - (k - 1) = b /\ b - 1 = MaxBlock - k
    BY <1>1 DEF Blocks
  <2>2. x \in A /\ Ok(x, k - 1)
    <3> HIDE DEF A, Ok
    <3> QED BY <2>1
  <2>3. Good(n, t) /\ due \in SUBSET AllBlocks
    BY <2>2
  <2>4. ParentsBelow(t, due, b)
    BY <2>1, <2>2
  <2> HIDE DEF b, t, due
  <2>5. PICK u, new :
              /\ DeliverDue(t, due, n, b, peer) = <<u, new>>
              /\ Good(n, u) /\ new \in SUBSET AllBlocks
              /\ ParentsBelow(u, new, b - 1)
              /\ u.fetched = t.fetched /\ u.delivered = t.delivered
    BY <2>1, <2>3, <2>4, DueGood
  <2>6. Ok(<<u, new>>, k)
    BY <2>1, <2>2, <2>5 DEF t
  <2>7. <<u, new>> \in A
    BY <2>5 DEF Good
  <2>8. Round(x, k) = <<u, new>>
    BY <2>5 DEF b, t, due
  <2> HIDE DEF A, Ok, Round
  <2> QED BY <2>1, <2>2, <2>6, <2>7, <2>8
<1>4. ASSUME NEW g, g[0] = <<s, todo>>,
             \A k \in 1..MaxBlock : g[k - 1] \in A => g[k] = Round(g[k - 1], k)
      PROVE  \A k \in 0..MaxBlock : g[k] \in B[k]
  <2>1. \A k \in 1..MaxBlock : g[k - 1] \in B[k - 1] => g[k] \in B[k]
    <3> HIDE DEF A, B, Round
    <3> QED BY <1>3, <1>4
  <2> HIDE DEF B
  <2> QED BY <1>1, <1>2, <1>4, <2>1, RunStays
<1>5. \E g : g = Loop(g)
  <2>1. PICK g : IsRun(g, MaxBlock, <<s, todo>>, F)
    BY <1>1, RunExists
  <2>2. \A k \in 1..MaxBlock : g[k - 1] \in A => g[k] = Round(g[k - 1], k)
    <3> HIDE DEF A, Round
    <3> QED BY <2>1 DEF IsRun
  <2>3. \A k \in 0..MaxBlock : g[k] \in B[k]
    <3> HIDE DEF A, B, Round
    <3> QED BY <1>4, <2>1, <2>2 DEF IsRun
  <2>4. \A k \in 1..MaxBlock : g[k] = Round(g[k - 1], k)
    <3> HIDE DEF A, B, Round
    <3>1. ASSUME NEW k \in 1..MaxBlock PROVE g[k - 1] \in B[k - 1]
      BY <1>1, <2>3
    <3> QED BY <1>3, <2>2, <3>1
  <2> HIDE DEF A, B
  <2>5. \A k \in 0..MaxBlock : g[k] = Loop(g)[k]
    <3>1. g[0] = Loop(g)[0]
      BY <1>1, <2>1 DEF IsRun
    <3>2. ASSUME NEW k \in 1..MaxBlock PROVE g[k] = Loop(g)[k]
      BY <1>1, <2>4
    <3> HIDE DEF Loop
    <3> QED BY <1>1, <3>1, <3>2
  <2>6. g = [k \in 0..MaxBlock |-> g[k]]
    BY <2>1 DEF IsRun
  <2>7. g = Loop(g)
    BY <2>5, <2>6
  <2> QED BY <2>7
<1>6. go = Loop(go)
  <2> HIDE DEF Loop
  <2> QED BY <1>5
<1>7. AsyncDeliverBlk(s, n, todo, peer) = go[MaxBlock][1]
  BY DEF AsyncDeliverBlk
<1> HIDE DEF go
<1>8. go[MaxBlock] \in B[MaxBlock]
  <2>1. go[0] = <<s, todo>>
    BY <1>1, <1>6
  <2>2. \A k \in 1..MaxBlock : go[k] = Round(go[k - 1], k)
    BY <1>1, <1>6
  <2> HIDE DEF A, B, Round, Loop
  <2> QED BY <1>1, <1>4, <2>1, <2>2
<1>9. go[MaxBlock] \in A /\ Ok(go[MaxBlock], MaxBlock)
  <2> HIDE DEF A, Ok
  <2> QED BY <1>1, <1>8
<1>10. ParentsAt(go[MaxBlock][1], {})
  <2> DEFINE t == go[MaxBlock][1]
             last == {d \in go[MaxBlock][2] : d <= MaxBlock - MaxBlock}
  <2>1. last \subseteq {0}
    BY <1>1, <1>9 DEF AllBlocks
  <2>2. 0 \in t.delivered /\ ParentsAt(t, last)
    BY <1>9 DEF Good, StartedAt, ParentsBelow
  <2> HIDE DEF t, last
  <2>3. ParentsAt(t, {})
    BY <2>1, <2>2 DEF ParentsAt
  <2> QED BY <2>3 DEF t
<1> QED BY <1>7, <1>9, <1>10

-----------------------------------------------------------------------------
(* One round of the loop of OnDeliverBlk: a block that has all it needs    *)
(* moves from the waiting to the delivered ones.                           *)
LEMMA DoneGood ==
    ASSUME NEW n \in Nodes, NEW b \in Blocks,
           NEW t, Good(n, t), ParentsAt(t, {})
    PROVE  LET u == DeliverDone(t, b)
           IN  /\ Good(n, u) /\ ParentsAt(u, {})
               /\ u.fetched = t.fetched /\ u.started = t.started
               /\ u.blk_fetch_waiting = t.blk_fetch_waiting
               /\ u.blk_delivery_waiting \subseteq t.blk_delivery_waiting
<1> DEFINE u == [t EXCEPT !.delivered = @ \cup {b}, !.blk_delivery_waiting = @ \ {b}]
<1>1. CASE ~ Deliverable(t, b)
  BY <1>1 DEF DeliverDone
<1>2. CASE Deliverable(t, b)
  <2>1. DeliverDone(t, b) = u
    BY <1>2 DEF DeliverDone
  <2>2. b \in AllBlocks /\ b # 0
    BY BlockFacts
  <2>3. /\ u \in Recs /\ u.delivered = t.delivered \cup {b}
        /\ u.blk_delivery_waiting = t.blk_delivery_waiting \ {b}
        /\ u.fetched = t.fetched /\ u.started = t.started
        /\ u.qc_pending = t.qc_pending
        /\ u.blk_fetch_waiting = t.blk_fetch_waiting /\ u.replicas = t.replicas
    BY <2>2 DEF Good, Recs
  <2> HIDE DEF u
  <2>4. {b, QcRef[b]} \subseteq t.fetched
    BY <1>2 DEF Deliverable, Good, StartedAt
  <2>5. ClosedAt(n, u)
    <3>1. SUFFICES ASSUME NEW c \in u.delivered \ {0}
                   PROVE  /\ n = Root \/ c \notin bad
                          /\ {c, QcRef[c]} \subseteq u.fetched
                          /\ ParentOf[c] \subseteq u.delivered
      BY DEF ClosedAt
    <3>2. CASE c = b
      BY <1>2, <2>3, <2>4, <3>2 DEF Deliverable
    <3>3. CASE c # b
      BY <2>3, <3>3 DEF Good, ClosedAt
    <3> QED BY <3>2, <3>3
  <2>6. StartedAt(u) /\ FetchingAt(u)
    BY <2>3 DEF Good, StartedAt, FetchingAt
  <2>7. ParentsAt(u, {})
    <3>1. u.delivered \cup u.blk_delivery_waiting = t.delivered \cup t.blk_delivery_waiting
      BY <1>2, <2>3 DEF Deliverable
    <3> QED BY <2>3, <3>1 DEF ParentsAt
  <2> QED BY <2>1, <2>3, <2>5, <2>6, <2>7 DEF Good
<1> QED BY <1>1, <1>2

(* The loop.                                                               *)
LEMMA OnDeliverGood ==
    ASSUME NEW n \in Nodes, NEW s, Good(n, s), ParentsAt(s, {})
    PROVE  LET t == OnDeliverBlk(s)
           IN  /\ Good(n, t) /\ ParentsAt(t, {})
               /\ t.fetched = s.fetched /\ t.started = s.started
               /\ t.blk_fetch_waiting = s.blk_fetch_waiting
               /\ t.blk_delivery_waiting \subseteq s.blk_delivery_waiting
<1> DEFINE Ok(t) == /\ Good(n, t) /\ ParentsAt(t, {})
                    /\ t.fetched = s.fetched /\ t.started = s.started
                    /\ t.blk_fetch_waiting = s.blk_fetch_waiting
                    /\ t.blk_delivery_waiting \subseteq s.blk_delivery_waiting
           B == [k \in 0..MaxBlock |-> {t \in Recs : Ok(t)}]
           F == [k \in 1..MaxBlock |-> [t \in Recs |-> DeliverDone(t, k)]]
           Loop(g) == [b \in 0..MaxBlock |-> IF b = 0 THEN s ELSE DeliverDone(g[b - 1], b)]
           go == CHOOSE g : g = Loop(g)
<1>1. MaxBlock \in Nat
  BY BlockFacts
<1>2. s \in B[0]
  BY <1>1 DEF Good
<1>3. ASSUME NEW k \in 1..MaxBlock, NEW t \in B[k - 1]
      PROVE  t \in Recs /\ DeliverDone(t, k) \in B[k]
  <2>1. k \in Blocks /\ k - 1 \in 0..MaxBlock /\ k \in 0..MaxBlock
    BY <1>1 DEF Blocks
  <2>2. t \in Recs /\ Ok(t)
    <3> HIDE DEF Ok
    <3> QED BY <2>1
  <2> DEFINE u == DeliverDone(t, k)
  <2>3. /\ Good(n, u) /\ ParentsAt(u, {})
        /\ u.fetched = t.fetched /\ u.started = t.started
        /\ u.blk_fetch_waiting = t.blk_fetch_waiting
        /\ u.blk_delivery_waiting \subseteq t.blk_delivery_waiting
    BY <2>1, <2>2, DoneGood
  <2> HIDE DEF u
  <2>4. u \in Recs /\ Ok(u)
    BY <2>2, <2>3 DEF Good
  <2> HIDE DEF Ok
  <2> QED BY <2>1, <2>2, <2>4 DEF u
<1>4. ASSUME NEW g, g[0] = s,
             \A k \in 1..MaxBlock : g[k - 1] \in Recs => g[k] = DeliverDone(g[k - 1], k)
      PROVE  \A k \in 0..MaxBlock : g[k] \in B[k]
  <2>1. \A k \in 1..MaxBlock : g[k - 1] \in B[k - 1] => g[k] \in B[k]
    <3> HIDE DEF B
    <3> QED BY <1>3, <1>4
  <2> HIDE DEF B
  <2> QED BY <1>1, <1>2, <1>4, <2>1, RunStays
<1>5. \E g : g = Loop(g)
  <2>1. PICK g : IsRun(g, MaxBlock, s, F)
    BY <1>1, RunExists
  <2>2. \A k \in 1..MaxBlock : g[k - 1] \in Recs => g[k] = DeliverDone(g[k - 1], k)
    BY <2>1 DEF IsRun
  <2>3. \A k \in 0..MaxBlock : g[k] \in B[k]
    <3> HIDE DEF B
    <3> QED BY <1>4, <2>1, <2>2 DEF IsRun
  <2>4. \A k \in 1..MaxBlock : g[k] = DeliverDone(g[k - 1], k)
    <3> HIDE DEF B
    <3>1. ASSUME NEW k \in 1..MaxBlock PROVE g[k - 1] \in B[k - 1]
      BY <1>1, <2>3
    <3> QED BY <1>3, <2>2, <3>1
  <2> HIDE DEF B
  <2>5. \A k \in 0..MaxBlock : g[k] = Loop(g)[k]
    <3>1. g[0] = Loop(g)[0]
      BY <1>1, <2>1 DEF IsRun
    <3>2. ASSUME NEW k \in 1..MaxBlock PROVE g[k] = Loop(g)[k]
      BY <1>1, <2>4
    <3> HIDE DEF Loop
    <3> QED BY <1>1, <3>1, <3>2
  <2>6. g = [k \in 0..MaxBlock |-> g[k]]
    BY <2>1 DEF IsRun
  <2>7. g = Loop(g)
    BY <2>5, <2>6
  <2> QED BY <2>7
<1>6. go = Loop(go)
  <2> HIDE DEF Loop
  <2> QED BY <1>5
<1>7. OnDeliverBlk(s) = go[MaxBlock]
  BY DEF OnDeliverBlk
<1> HIDE DEF go
<1>8. go[MaxBlock] \in B[MaxBlock]
  <2>1. go[0] = s
    BY <1>1, <1>6
  <2>2. \A k \in 1..MaxBlock : go[k] = DeliverDone(go[k - 1], k)
    BY <1>1, <1>6
  <2> HIDE DEF B, Loop
  <2> QED BY <1>1, <1>4, <2>1, <2>2
<1>9. Ok(go[MaxBlock])
  <2> HIDE DEF Ok
  <2> QED BY <1>1, <1>8
<1> QED BY <1>7, <1>9

-----------------------------------------------------------------------------
(* on_fetch_blk. The proposer is never in its last branch, where the peer  *)
(* is its parent.                                                          *)
LEMMA OnFetchGood ==
    ASSUME NEW n \in Nodes, NEW s, Good(n, s), ParentsAt(s, {}),
           NEW b \in s.fetched, n = Root => s.blk_fetch_waiting = {}
    PROVE  LET t == OnFetchBlk(s, n, b)
           IN  /\ Good(n, t) /\ ParentsAt(t, {})
               /\ t.fetched = s.fetched
               /\ n = Root => t = s
<1> DEFINE asked == {x \in s.req_waiting : x[2] = b}
           resps == {Resp(n, x[1], b) : x \in asked}
           reps == [s.replicas EXCEPT ![b] = {}]
           t == [s EXCEPT !.blk_fetch_waiting = @ \ {b},
                          !.replicas = reps,
                          !.qc_pending = {c \in @ : QcRef[c] # b},
                          !.req_waiting = @ \ asked,
                          !.out = @ \cup resps]
<1>1. CASE b \notin s.blk_fetch_waiting
  BY <1>1 DEF OnFetchBlk
<1>2. CASE b \in s.blk_fetch_waiting
  <2>1. s \in Recs /\ b \in Blocks /\ b \in AllBlocks /\ n # Root
    BY <1>2, BlockFacts DEF Good, Recs
  <2>2. resps \subseteq Msgs
    <3>1. \A x \in asked : x[1] \in Nodes
      BY <2>1 DEF Recs
    <3> HIDE DEF asked
    <3> QED BY <2>1, <3>1 DEF Resp, Msgs
  <2>3. reps \in [AllBlocks -> SUBSET Nodes]
    BY <2>1 DEF Recs
  <2>4. \A c \in AllBlocks : c # b => reps[c] = s.replicas[c]
    BY <2>1 DEF Recs
  <2>5. OnFetchBlk(s, n, b) =
           IF b \in s.blk_delivery_waiting \ s.started
           THEN AsyncDeliverBlk(StartDelivery(t, n, b, Parent[n]), n,
                                ParentOf[b], Parent[n])
           ELSE t
    BY <1>2, Zenon DEF OnFetchBlk
  <2> HIDE DEF asked, resps, reps
  <2>6. /\ t \in Recs /\ t.blk_fetch_waiting = s.blk_fetch_waiting \ {b}
        /\ t.replicas = reps /\ t.qc_pending = {c \in s.qc_pending : QcRef[c] # b}
        /\ t.fetched = s.fetched /\ t.delivered = s.delivered
        /\ t.started = s.started /\ t.blk_delivery_waiting = s.blk_delivery_waiting
    BY <2>1, <2>2, <2>3 DEF Recs
  <2> HIDE DEF t
  <2>7. ClosedAt(n, t)
    BY <2>6 DEF Good, ClosedAt
  <2>8. StartedAt(t)
    BY <2>6 DEF Good, StartedAt
  <2>9. \A c \in t.blk_delivery_waiting \ (t.started \cup {b}) :
           c \in t.blk_fetch_waiting /\ t.replicas[c] # {}
    <3>1. s.blk_delivery_waiting \subseteq AllBlocks
      BY <2>1, BlockFacts DEF Recs
    <3> QED BY <2>4, <2>6, <3>1 DEF Good, FetchingAt
  <2>10. \A c \in t.qc_pending :
            QcRef[c] \in t.blk_fetch_waiting /\ t.replicas[QcRef[c]] # {}
    <3>1. \A c \in s.qc_pending : QcRef[c] \in AllBlocks
      BY <2>1, BlockFacts DEF Recs
    <3> QED BY <2>4, <2>6, <3>1 DEF Good, FetchingAt
  <2>11. CASE b \notin s.blk_delivery_waiting \ s.started
    <3>1. FetchingAt(t)
      BY <2>6, <2>9, <2>10, <2>11 DEF FetchingAt
    <3>2. ParentsAt(t, {})
      BY <2>6 DEF ParentsAt
    <3> QED BY <2>1, <2>5, <2>6, <2>7, <2>8, <2>11, <3>1, <3>2 DEF Good
  <2>12. CASE b \in s.blk_delivery_waiting \ s.started
    <3> DEFINE peer == Parent[n]
               u == StartDelivery(t, n, b, peer)
               v == AsyncDeliverBlk(u, n, ParentOf[b], peer)
    <3>1. peer \in Nodes /\ ParentOf[b] \in SUBSET AllBlocks
      BY <2>1, BlockFacts, DeliveryAssumption
    <3>2. OnFetchBlk(s, n, b) = v
      BY <2>5, <2>12
    <3> HIDE DEF peer, v
    <3>3. /\ Good(n, u) /\ u.started = t.started \cup {b}
          /\ u.fetched = t.fetched /\ u.delivered = t.delivered
          /\ u.blk_delivery_waiting = t.blk_delivery_waiting
      <4>1. b \in t.fetched
        BY <2>6
      <4> HIDE DEF u
      <4> QED BY <2>1, <2>6, <2>7, <2>8, <2>9, <2>10, <3>1, <4>1, StartGood DEF u
    <3> HIDE DEF u
    <3>4. ParentsAt(u, ParentOf[b])
      BY <2>6, <3>3 DEF ParentsAt
    <3>5. Good(n, v) /\ ParentsAt(v, {}) /\ v.fetched = u.fetched
      BY <3>1, <3>3, <3>4, AsyncDeliverGood DEF v
    <3> QED BY <2>1, <2>6, <3>2, <3>3, <3>5
  <2> QED BY <2>11, <2>12
<1> QED BY <1>1, <1>2

(* A block reaches the storage.                                            *)
LEMMA StoredGood ==
    ASSUME NEW n \in Nodes, NEW s, NEW t, Good(n, s), ParentsAt(s, {}), t \in Recs,
           s.fetched \subseteq t.fetched, t.delivered = s.delivered,
           t.started = s.started, t.qc_pending = s.qc_pending,
           t.blk_fetch_waiting = s.blk_fetch_waiting, t.replicas = s.replicas,
           t.blk_delivery_waiting = s.blk_delivery_waiting
    PROVE  Good(n, t) /\ ParentsAt(t, {})
<1>1. ClosedAt(n, t)
  BY DEF Good, ClosedAt
<1>2. StartedAt(t)
  BY DEF Good, StartedAt
<1>3. FetchingAt(t) /\ ParentsAt(t, {})
  BY DEF Good, FetchingAt, ParentsAt
<1> QED BY <1>1, <1>2, <1>3 DEF Good

(* A replica that is in order when its handler ends leaves all in order.   *)
LEMMA UpdateInv ==
    ASSUME Inv, NEW n \in Nodes, NEW s, Good(n, s), ParentsAt(s, {}),
           n = Root => /\ s.fetched = AllBlocks /\ s.blk_fetch_waiting = {}
                       /\ s.blk_delivery_waiting = {} /\ s.started = {},
           NEW in, Update(n, s, in)
    PROVE  Inv'
<1> DEFINE t == [s EXCEPT !.out = {}]
<1>1. rep' = [rep EXCEPT ![n] = t] /\ setting' = setting
  BY DEF Update
<1>2. /\ t \in Recs /\ t.out = {} /\ s.out \subseteq Msgs
      /\ s.fetched = t.fetched /\ t.delivered = s.delivered
      /\ t.started = s.started /\ t.qc_pending = s.qc_pending
      /\ t.blk_fetch_waiting = s.blk_fetch_waiting /\ t.replicas = s.replicas
      /\ t.blk_delivery_waiting = s.blk_delivery_waiting
  BY DEF Good, Recs
<1> HIDE DEF t
<1>3. Good(n, t) /\ ParentsAt(t, {})
  BY <1>2, StoredGood
<1>4. DOMAIN rep' = Nodes /\ rep'[n] = t /\ \A m \in Nodes : m # n => rep'[m] = rep[m]
  BY <1>1 DEF Inv
<1>5. ASSUME NEW m \in Nodes
      PROVE  Good(m, rep'[m]) /\ ParentsAt(rep'[m], {}) /\ rep'[m].out = {}
  BY <1>2, <1>3, <1>4 DEF Inv
<1>6. ASSUME NEW m \in Nodes
      PROVE  (Good(m, rep[m]) /\ ParentsAt(rep[m], {}) /\ rep[m].out = {})'
  <2>1. bad' = bad
    BY <1>1 DEF bad
  <2>2. ClosedAt(m, rep[m])'
    BY <1>5, <2>1 DEF Good, ClosedAt
  <2>3. StartedAt(rep[m])' /\ FetchingAt(rep[m])'
    BY <1>5, Zenon DEF Good, StartedAt, FetchingAt
  <2>4. ParentsAt(rep[m], {})' /\ rep[m].out' = {} /\ (rep[m] \in Recs)'
    BY <1>5, Zenon DEF Good, ParentsAt, Recs, Msgs, AllBlocks, Blocks
  <2> QED BY <2>2, <2>3, <2>4 DEF Good
<1>7. RootIdle'
  <2>1. Root \in Nodes
    BY DeliveryAssumption
  <2>2. CASE n = Root
    BY <1>2, <1>4, <2>2 DEF RootIdle, AllBlocks
  <2>3. CASE n # Root
    BY <1>4, <2>1, <2>3 DEF Inv, RootIdle, AllBlocks
  <2> QED BY <2>2, <2>3
<1>8. net' \subseteq Msgs /\ setting' \in Settings
  BY <1>2 DEF Inv, Update
<1> QED BY <1>4, <1>6, <1>7, <1>8 DEF Inv

-----------------------------------------------------------------------------
(* The invariant holds when nothing is fetched or delivered yet.           *)
LEMMA InvInit == Init => Inv
<1> SUFFICES ASSUME Init PROVE Inv
  OBVIOUS
<1>1. setting \in Settings /\ net \subseteq Msgs /\ DOMAIN rep = Nodes
  BY DEF Init
<1>2. setting.offered \subseteq Blocks /\ bad \subseteq Blocks /\ Root \in Nodes
  BY <1>1, DeliveryAssumption DEF bad
<1>3. ASSUME NEW n \in Nodes
      PROVE  Good(n, rep[n]) /\ ParentsAt(rep[n], {}) /\ rep[n].out = {}
  <2> DEFINE s == rep[n]
             have == IF n = Root THEN 0..MaxBlock ELSE {0}
  <2>1. /\ s.fetched = have /\ s.delivered = have
        /\ s.blk_fetch_waiting = {} /\ s.blk_delivery_waiting = {}
        /\ s.started = {} /\ s.qc_pending = {} /\ s.out = {}
    BY DEF Init
  <2>2. s \in Recs
    BY <1>2, BlockFacts DEF Init, Recs, AllBlocks
  <2>3. have \subseteq AllBlocks /\ 0 \in have /\ (n = Root => have = AllBlocks)
    BY BlockFacts DEF AllBlocks
  <2> HIDE DEF s, have
  <2>4. have \ {0} # {} => n = Root
    BY DEF have
  <2>5. ClosedAt(n, s)
    BY <2>1, <2>3, <2>4, BlockFacts DEF ClosedAt
  <2>6. StartedAt(s) /\ FetchingAt(s) /\ ParentsAt(s, {})
    BY <2>1, <2>3 DEF StartedAt, FetchingAt, ParentsAt
  <2> QED BY <2>1, <2>2, <2>5, <2>6 DEF Good, s
<1>4. RootIdle
  BY <1>2 DEF Init, RootIdle, AllBlocks
<1> QED BY <1>1, <1>3, <1>4 DEF Inv

(* The proposal of a block: the delivery of the block starts, with that of *)
(* its ancestors.                                                          *)
LEMMA ProposeInv ==
    ASSUME Inv, NEW n \in Nodes, NEW b \in Blocks, ProposeHandler(n, b)
    PROVE  Inv'
<1> DEFINE s == [rep[n] EXCEPT !.proposed = @ \cup {b}, !.fetched = @ \cup {b}]
           t == AsyncDeliverBlk(s, n, {b}, Parent[n])
           u == OnDeliverBlk(t)
<1>1. n \in Nodes \ {Root} /\ Parent[n] \in Nodes
  BY DeliveryAssumption DEF Inv, ProposeHandler
<1>2. Good(n, rep[n]) /\ ParentsAt(rep[n], {})
  BY DEF Inv
<1>3. Update(n, u, {})
  BY Zenon DEF ProposeHandler
<1>4. /\ s \in Recs /\ rep[n].fetched \subseteq s.fetched
      /\ s.delivered = rep[n].delivered /\ s.started = rep[n].started
      /\ s.qc_pending = rep[n].qc_pending
      /\ s.blk_fetch_waiting = rep[n].blk_fetch_waiting /\ s.replicas = rep[n].replicas
      /\ s.blk_delivery_waiting = rep[n].blk_delivery_waiting
  BY <1>2, BlockFacts DEF Good, Recs
<1> HIDE DEF s
<1>5. Good(n, s) /\ ParentsAt(s, {})
  BY <1>2, <1>4, StoredGood
<1>6. ParentsAt(s, {b}) /\ {b} \in SUBSET AllBlocks
  BY <1>5, BlockFacts DEF ParentsAt
<1>7. Good(n, t) /\ ParentsAt(t, {})
  BY <1>1, <1>5, <1>6, AsyncDeliverGood
<1> HIDE DEF t
<1>8. Good(n, u) /\ ParentsAt(u, {})
  BY <1>7, OnDeliverGood
<1> HIDE DEF u
<1> QED BY <1>1, <1>3, <1>8, UpdateInv

(* A verdict of the verification threads.                                  *)
LEMMA VerifiedInv ==
    ASSUME Inv, NEW n \in Nodes, NEW b \in Blocks, Verified(n, b)
    PROVE  Inv'
<1> DEFINE s == [rep[n] EXCEPT !.verified = @ \cup {b}]
           u == OnDeliverBlk(s)
<1>1. Good(n, rep[n]) /\ ParentsAt(rep[n], {})
  BY DEF Inv
<1>2. Update(n, u, {})
  BY Zenon DEF Verified
<1>3. n # Root
  BY DEF Verified, Inv, RootIdle
<1>4. /\ s \in Recs /\ rep[n].fetched \subseteq s.fetched
      /\ s.delivered = rep[n].delivered /\ s.started = rep[n].started
      /\ s.qc_pending = rep[n].qc_pending
      /\ s.blk_fetch_waiting = rep[n].blk_fetch_waiting /\ s.replicas = rep[n].replicas
      /\ s.blk_delivery_waiting = rep[n].blk_delivery_waiting
  BY <1>1 DEF Good, Recs
<1> HIDE DEF s
<1>5. Good(n, s) /\ ParentsAt(s, {})
  BY <1>1, <1>4, StoredGood
<1>6. Good(n, u) /\ ParentsAt(u, {})
  BY <1>5, OnDeliverGood
<1> HIDE DEF u
<1> QED BY <1>2, <1>3, <1>6, UpdateInv

(* The timer asks all replicas of a context again.                         *)
LEMMA TimeoutInv ==
    ASSUME Inv, NEW n \in Nodes, NEW b \in Blocks, TimeoutCb(n, b)
    PROVE  Inv'
<1> DEFINE o == {Req(n, p, b) : p \in rep[n].replicas[b]}
           s == [rep[n] EXCEPT !.out = o]
<1>1. Good(n, rep[n]) /\ ParentsAt(rep[n], {})
  BY DEF Inv
<1>2. Update(n, s, {})
  BY Zenon DEF TimeoutCb
<1>3. n # Root
  BY DEF TimeoutCb, Inv, RootIdle
<1>4. o \subseteq Msgs
  <2>1. rep[n].replicas[b] \subseteq Nodes /\ b \in AllBlocks
    BY <1>1, BlockFacts DEF Good, Recs
  <2> QED BY <2>1 DEF Req, Msgs
<1> HIDE DEF o
<1>5. /\ s \in Recs /\ rep[n].fetched \subseteq s.fetched
      /\ s.delivered = rep[n].delivered /\ s.started = rep[n].started
      /\ s.qc_pending = rep[n].qc_pending
      /\ s.blk_fetch_waiting = rep[n].blk_fetch_waiting /\ s.replicas = rep[n].replicas
      /\ s.blk_delivery_waiting = rep[n].blk_delivery_waiting
  BY <1>1, <1>4 DEF Good, Recs
<1> HIDE DEF s
<1>6. Good(n, s) /\ ParentsAt(s, {})
  BY <1>1, <1>5, StoredGood
<1> QED BY <1>2, <1>3, <1>6, UpdateInv

(* A request: answered now, or a context that only has to answer.          *)
LEMMA ReqInv ==
    ASSUME Inv, NEW m \in net, ReqBlkHandler(m)
    PROVE  Inv'
<1> DEFINE n == m.to
           b == m.blk
           o == {Resp(n, m.from, b)}
           w == rep[n].req_waiting \cup {<<m.from, b>>}
           now == [rep[n] EXCEPT !.out = o]
           s == [rep[n] EXCEPT !.req_waiting = w]
           none == {}
           later == AsyncFetchBlk(s, n, b, none)
<1>1. n \in Nodes /\ b \in AllBlocks /\ m.from \in Nodes
  BY DEF Inv, Msgs
<1>2. Update(n, IF b \in rep[n].fetched THEN now ELSE later, {m})
  BY Zenon DEF ReqBlkHandler
<1>3. o \subseteq Msgs /\ w \subseteq (Nodes \X AllBlocks) \cup rep[n].req_waiting
  BY <1>1 DEF Resp, Msgs
<1> HIDE DEF o, w, n, b
<1>4. Good(n, rep[n]) /\ ParentsAt(rep[n], {})
  BY <1>1 DEF Inv
<1>5. CASE b \in rep[n].fetched
  <2>1. /\ now \in Recs /\ rep[n].fetched = now.fetched
        /\ now.delivered = rep[n].delivered /\ now.started = rep[n].started
        /\ now.qc_pending = rep[n].qc_pending
        /\ now.blk_fetch_waiting = rep[n].blk_fetch_waiting
        /\ now.replicas = rep[n].replicas
        /\ now.blk_delivery_waiting = rep[n].blk_delivery_waiting
    BY <1>3, <1>4 DEF Good, Recs
  <2>2. Update(n, now, {m})
    BY <1>2, <1>5
  <2> HIDE DEF now
  <2>3. Good(n, now) /\ ParentsAt(now, {})
    BY <1>1, <1>4, <2>1, StoredGood
  <2>4. n = Root => /\ now.fetched = AllBlocks /\ now.blk_fetch_waiting = {}
                    /\ now.blk_delivery_waiting = {} /\ now.started = {}
    BY <2>1 DEF Inv, RootIdle
  <2> QED BY <1>1, <2>2, <2>3, <2>4, UpdateInv
<1>6. CASE b \notin rep[n].fetched
  <2>1. n # Root
    BY <1>1, <1>6 DEF Inv, RootIdle
  <2>2. b \in Blocks
    BY <1>1, <1>4, <1>6, BlockFacts DEF Good, StartedAt
  <2>3. /\ s \in Recs /\ rep[n].fetched = s.fetched
        /\ s.delivered = rep[n].delivered /\ s.started = rep[n].started
        /\ s.qc_pending = rep[n].qc_pending
        /\ s.blk_fetch_waiting = rep[n].blk_fetch_waiting /\ s.replicas = rep[n].replicas
        /\ s.blk_delivery_waiting = rep[n].blk_delivery_waiting
    BY <1>3, <1>4 DEF Good, Recs
  <2>4. Update(n, later, {m})
    BY <1>2, <1>6
  <2> HIDE DEF s
  <2>5. Good(n, s) /\ ParentsAt(s, {})
    BY <1>1, <1>4, <2>3, StoredGood
  <2>6. FetchingBut(s, b, none) /\ none \in SUBSET Nodes
    BY <2>5 DEF Good, FetchingAt, FetchingBut
  <2> HIDE DEF none
  <2>7. /\ Good(n, later) /\ later.delivered = s.delivered
        /\ later.blk_delivery_waiting = s.blk_delivery_waiting
        /\ later.started = s.started
    <3>1. s \in Recs /\ ClosedAt(n, s) /\ StartedAt(s)
      BY <2>5 DEF Good
    <3> HIDE DEF later
    <3> QED BY <1>1, <2>2, <2>6, <3>1, FetchGood DEF later
  <2> HIDE DEF later
  <2>8. ParentsAt(later, {})
    BY <2>5, <2>7 DEF ParentsAt
  <2> QED BY <1>1, <2>1, <2>4, <2>7, <2>8, UpdateInv
<1> QED BY <1>5, <1>6

(* A response.                                                             *)
LEMMA RespInv ==
    ASSUME Inv, NEW m \in net, RespBlkHandler(m)
    PROVE  Inv'
<1> DEFINE n == m.to
           b == m.blk
           s == [rep[n] EXCEPT !.fetched = @ \cup {b}]
           t == OnFetchBlk(s, n, b)
           u == OnDeliverBlk(t)
<1>1. n \in Nodes /\ b \in AllBlocks
  BY DEF Inv, Msgs
<1>2. Update(n, u, {m})
  BY Zenon DEF RespBlkHandler
<1> HIDE DEF n, b
<1>3. Good(n, rep[n]) /\ ParentsAt(rep[n], {})
  BY <1>1 DEF Inv
<1>4. /\ s \in Recs /\ s.fetched = rep[n].fetched \cup {b}
      /\ s.delivered = rep[n].delivered /\ s.started = rep[n].started
      /\ s.qc_pending = rep[n].qc_pending
      /\ s.blk_fetch_waiting = rep[n].blk_fetch_waiting /\ s.replicas = rep[n].replicas
      /\ s.blk_delivery_waiting = rep[n].blk_delivery_waiting
  BY <1>1, <1>3 DEF Good, Recs
<1> HIDE DEF s
<1>5. Good(n, s) /\ ParentsAt(s, {})
  <2>1. rep[n].fetched \subseteq s.fetched
    BY <1>4
  <2> QED BY <1>1, <1>3, <1>4, <2>1, StoredGood
<1>6. n = Root => /\ s.fetched = AllBlocks /\ s.blk_fetch_waiting = {}
                  /\ s.blk_delivery_waiting = {} /\ s.started = {}
  BY <1>1, <1>4 DEF Inv, RootIdle
<1>7. b \in s.fetched
  BY <1>4
<1>8. Good(n, t) /\ ParentsAt(t, {}) /\ t.fetched = s.fetched /\ (n = Root => t = s)
  BY <1>1, <1>5, <1>6, <1>7, OnFetchGood
<1> HIDE DEF t
<1>9. /\ Good(n, u) /\ ParentsAt(u, {})
      /\ u.fetched = t.fetched /\ u.started = t.started
      /\ u.blk_fetch_waiting = t.blk_fetch_waiting
      /\ u.blk_delivery_waiting \subseteq t.blk_delivery_waiting
  BY <1>1, <1>8, OnDeliverGood
<1> HIDE DEF u
<1>10. n = Root => /\ u.fetched = AllBlocks /\ u.blk_fetch_waiting = {}
                   /\ u.blk_delivery_waiting = {} /\ u.started = {}
  BY <1>6, <1>8, <1>9
<1> QED BY <1>1, <1>2, <1>9, <1>10, UpdateInv

(* A step that leaves the replicas as they are.                            *)
LEMMA LoseInv ==
    ASSUME Inv, rep' = rep, setting' = setting, net' \subseteq net
    PROVE  Inv'
<1>1. ASSUME NEW m \in Nodes
      PROVE  (Good(m, rep[m]) /\ ParentsAt(rep[m], {}) /\ rep[m].out = {})'
  BY Zenon DEF Inv, Good, ClosedAt, StartedAt, FetchingAt, ParentsAt, bad,
               Recs, Msgs, AllBlocks, Blocks
<1>2. RootIdle' /\ net' \subseteq Msgs /\ setting' \in Settings /\ DOMAIN rep' = Nodes
  BY DEF Inv, RootIdle
<1> QED BY <1>1, <1>2 DEF Inv

(* Every handler, timer and lost message keeps the invariant.              *)
LEMMA InvNext == Inv /\ [Next]_vars => Inv'
<1> SUFFICES ASSUME Inv, [Next]_vars PROVE Inv'
  OBVIOUS
<1>1. ASSUME NEW n \in Nodes, NEW b \in Blocks, ProposeHandler(n, b)
      PROVE  Inv'
  BY <1>1, ProposeInv
<1>2. ASSUME NEW n \in Nodes, NEW b \in Blocks, Verified(n, b)
      PROVE  Inv'
  BY <1>2, VerifiedInv
<1>3. ASSUME NEW n \in Nodes, NEW b \in Blocks, TimeoutCb(n, b)
      PROVE  Inv'
  BY <1>3, TimeoutInv
<1>4. ASSUME NEW m \in net, ReqBlkHandler(m)
      PROVE  Inv'
  BY <1>4, ReqInv
<1>5. ASSUME NEW m \in net, RespBlkHandler(m)
      PROVE  Inv'
  BY <1>5, RespInv
<1>6. ASSUME NEW m \in net, Lose(m)
      PROVE  Inv'
  BY <1>6, LoseInv DEF Lose
<1>7. CASE UNCHANGED vars
  BY <1>7, LoseInv DEF vars
<1> QED BY <1>1, <1>2, <1>3, <1>4, <1>5, <1>6, <1>7 DEF Next

(* The invariant of fetching and delivery holds throughout.                *)
LEMMA InvAlways == Spec => []Inv
BY InvInit, InvNext, PTL DEF Spec

-----------------------------------------------------------------------------
(* What on_deliver_blk asserts and the core throws at never happens: at    *)
(* every replica, whatever order proposals, responses, verdicts and timers *)
(* come in and whatever is lost, a delivered block and the block of its QC *)
(* are fetched, its parents are delivered and, below the proposer, its     *)
(* certificate has been verified.                                          *)
THEOREM DeliveredIsComplete == Spec => []DeliveredClosed
<1>1. Inv => DeliveredClosed
  BY DEF Inv, Good, ClosedAt, DeliveredClosed
<1> QED BY <1>1, InvAlways, PTL

(* No delivery is forgotten: async_deliver_blk leaves every block that     *)
(* waits with something under way that will resolve it (a fetch context    *)
(* with somebody to ask, the verification, a parent that waits), and       *)
(* on_fetch_blk erases no context that somebody still needs.               *)
THEOREM NoDeliveryForgotten == Spec => []WaitsForSomething
<1>1. Inv => WaitsForSomething
  BY DEF Inv, Good, FetchingAt, ParentsAt, WaitsForSomething
<1> QED BY <1>1, InvAlways, PTL
=============================================================================
