--------------------------- MODULE TreeVotesProofs ---------------------------
(***************************************************************************)
(* Proofs about TreeVotes, for every tree, either kind of certificate and  *)
(* every set of blocks and of crashes.                                     *)
(***************************************************************************)
EXTENDS TreeVotes, FiniteSetTheorems, TLAPS

(* A certificate holds the signature of each of its rids once, as parts or *)
(* as the aggregate, and a BLS one has counted them.                       *)
GoodCert(qc) ==
    IF qc.kind = "bls"
    THEN /\ qc.n = Cardinality(qc.rids)
         /\ \/ qc.theSig = {} /\ qc.sigs = AggregateKeys(qc.rids)
            \/ qc.theSig = {AggregateKeys(qc.rids)} /\ qc.sigs = Infinity
    ELSE qc.theSig = {} /\ qc.sigs = AggregateKeys(qc.rids)

Computed(qc) == qc.kind = "bls" => qc.theSig = {AggregateKeys(qc.rids)}

(* ptr is null, or points to a good certificate of signatures in S.        *)
Holds(ptr, S) ==
    /\ ptr \subseteq Certs
    /\ \A qc \in ptr : /\ ptr = {qc} /\ qc.kind = kind
                       /\ GoodCert(qc) /\ qc.rids \subseteq S

TypeInv ==
    /\ kind \in Kinds /\ parent \in Layouts
    /\ known \in [Replicas -> SUBSET Blocks]
    /\ delivered \in [Replicas -> SUBSET Blocks]
    /\ voted \in [Replicas -> Blocks \cup {NoBlock}]
    /\ DOMAIN self_qc = Replicas
    /\ \A n \in Replicas : DOMAIN self_qc[n] = Blocks
    /\ msgs \subseteq [from : DOMAIN parent, to : Replicas, blk : Blocks, cert : SUBSET Certs]
    /\ \A m \in msgs : m.to = parent[m.from]
    /\ verifying \subseteq handled /\ handled \subseteq msgs

CertsInv ==
    \A n \in Replicas, b \in Blocks : Holds(self_qc[n][b], Subtree(n))

(* A leaf sends votes; what an internal replica sends is complete.         *)
MsgsInv ==
    \A m \in msgs :
        /\ isVote(m) <=> childPeers(m.from) = {}
        /\ Holds(m.cert, Subtree(m.from))
        /\ ~ isVote(m) => /\ Ready(m.from, Deref(m.cert))
                          /\ self_qc[m.from][m.blk] # nullptr
                          /\ Ready(m.from, Deref(self_qc[m.from][m.blk]))

OneMsg ==
    \A m1, m2 \in msgs : m1.from = m2.from /\ m1.blk = m2.blk => m1 = m2

(* The signatures that c sent for b may be in the certificate of its       *)
(* parent; before that, none of c's subtree is.                            *)
Merged(c, b) ==
    \E m \in handled \ verifying : m.from = c /\ m.blk = b

MergedOnce ==
    \A c \in DOMAIN parent, b \in Blocks :
        ~ Merged(c, b) =>
            \A qc \in self_qc[parent[c]][b] : qc.rids \cap Subtree(c) = {}

VerifyingInv == \A m \in verifying : self_qc[m.to][m.blk] # nullptr

(* The proposer has aggregated what is complete.                           *)
RootInv ==
    /\ Blocks \subseteq delivered[Root]
    /\ \A b \in Blocks : \A qc \in self_qc[Root][b] :
          has_n(qc, nmajority) => Computed(qc)

Inv == /\ TypeInv /\ CertsInv /\ MsgsInv /\ OneMsg /\ MergedOnce
       /\ VerifyingInv /\ RootInv

(* If there is one proposal for the height, whoever delivers it votes.     *)
OneProposal == \A b, c \in Blocks : b = c

NullInv ==
    /\ \A n \in Replicas, b \in Blocks :
          b \in delivered[n] /\ childPeers(n) # {} => self_qc[n][b] # nullptr
    /\ \A n \in Replicas : voted[n] # NoBlock => delivered[n] # {}
    /\ NoException

-----------------------------------------------------------------------------
(* What the operations on certificates do to good ones.                    *)
LEMMA KeysArePoints ==
    ASSUME NEW S
    PROVE  AggregateKeys(S) \in Points /\ Infinity \in Points
BY DEF AggregateKeys, Infinity, Points

(* Aggregates of disjoint signers add up.                                  *)
LEMMA SumOfKeys ==
    ASSUME NEW S, NEW T, S \cap T = {}
    PROVE  PlusPoint(AggregateKeys(S), AggregateKeys(T)) = AggregateKeys(S \cup T)
BY DEF PlusPoint, AggregateKeys

(* The point at infinity adds nothing.                                     *)
LEMMA InfinityIsNeutral ==
    ASSUME NEW p \in Points
    PROVE  PlusPoint(p, Infinity) = p /\ PlusPoint(Infinity, p) = p
BY DEF PlusPoint, Infinity, Points

(* The types of a certificate's fields.                                    *)
LEMMA CertFields ==
    ASSUME NEW qc \in Certs
    PROVE  /\ qc.kind \in Kinds /\ qc.rids \subseteq Nodes
           /\ qc.theSig \subseteq Points /\ qc.sigs \in Points /\ qc.n \in Nat
           /\ IsFiniteSet(qc.rids) /\ Cardinality(qc.rids) \in Nat
<1>1. /\ qc.kind \in Kinds /\ qc.rids \subseteq Nodes
      /\ qc.theSig \subseteq Points /\ qc.sigs \in Points /\ qc.n \in Nat
  BY DEF Certs
<1> QED BY <1>1, TreeAssumption, FS_Subset, FS_CardinalityType

(* has_n counts the signers.                                               *)
LEMMA HasNCounts ==
    ASSUME NEW qc \in Certs, GoodCert(qc), NEW k
    PROVE  has_n(qc, k) <=> Cardinality(qc.rids) >= k
<1>1. CASE qc.kind = "bls"
  BY <1>1 DEF GoodCert, has_n
<1>2. CASE qc.kind # "bls"
  <2>1. qc.sigs = AggregateKeys(qc.rids) /\ qc.rids \subseteq Nodes
    BY <1>2, CertFields DEF GoodCert
  <2>2. {m \in Nodes : qc.sigs[m] = 1} = qc.rids
    BY <2>1 DEF AggregateKeys
  <2> QED BY <1>2, <2>2 DEF has_n
<1> QED BY <1>1, <1>2

(* A good certificate holds each of its signatures once.                   *)
LEMMA AllSigsOfGood ==
    ASSUME NEW qc \in Certs, GoodCert(qc)
    PROVE  AllSigs(qc) = AggregateKeys(qc.rids)
<1> DEFINE a == AggregateKeys(qc.rids)
<1> SUFFICES AllSigs(qc) = a
  OBVIOUS
<1>1. a \in Points
  BY KeysArePoints
<1> HIDE DEF a
<1>2. CASE qc.theSig = {} /\ qc.sigs = a
  BY <1>1, <1>2, InfinityIsNeutral DEF AllSigs
<1>3. CASE qc.theSig = {a} /\ qc.sigs = Infinity
  <2>1. (CHOOSE q \in {a} : TRUE) = a
    OBVIOUS
  <2> QED BY <1>1, <1>3, <2>1, InfinityIsNeutral DEF AllSigs
<1> QED BY <1>2, <1>3 DEF GoodCert, a

(* Reopened, it has its signatures in the vector.                          *)
LEMMA Reopened ==
    ASSUME NEW qc \in Certs, GoodCert(qc)
    PROVE  LET o == Reopen(qc)
           IN  /\ o \in Certs /\ o.kind = qc.kind /\ o.rids = qc.rids
               /\ o.theSig = {} /\ o.sigs = AggregateKeys(qc.rids)
<1> DEFINE a == AggregateKeys(qc.rids)
<1>1. a \in Points
  BY KeysArePoints
<1>2. CASE qc.kind = "bls" /\ qc.sigs = Infinity /\ qc.theSig # {}
  <2>1. qc.theSig = {a}
    BY <1>2 DEF GoodCert
  <2>2. (CHOOSE p \in qc.theSig : TRUE) = a
    BY <2>1
  <2> HIDE DEF a
  <2>3. Reopen(qc) = [qc EXCEPT !.sigs = a, !.theSig = {}]
    BY <1>2, <2>2 DEF Reopen
  <2>4. /\ Reopen(qc) \in Certs
        /\ Reopen(qc).kind = qc.kind /\ Reopen(qc).rids = qc.rids
        /\ Reopen(qc).theSig = {} /\ Reopen(qc).sigs = a
    BY <1>1, <2>3 DEF Certs
  <2> QED BY <2>4 DEF a
<1>3. CASE ~(qc.kind = "bls" /\ qc.sigs = Infinity /\ qc.theSig # {})
  BY <1>3 DEF Reopen, GoodCert
<1> QED BY <1>2, <1>3

(* add_part of a new signer keeps a certificate good.                      *)
LEMMA AddPart ==
    ASSUME NEW qc \in Certs, GoodCert(qc), NEW rid \in Nodes, rid \notin qc.rids
    PROVE  LET r == add_part(qc, rid)
           IN  /\ r \in Certs /\ r.kind = qc.kind /\ GoodCert(r)
               /\ r.rids = qc.rids \cup {rid}
<1> DEFINE o == Reopen(qc)
           s == IF qc.kind = "bls" THEN PlusPoint(o.sigs, Sign(rid))
                ELSE [o.sigs EXCEPT ![rid] = 1]
           u == [o EXCEPT !.rids = @ \cup {rid}, !.sigs = s]
           r == add_part(qc, rid)
<1>1. /\ o \in Certs /\ o.kind = qc.kind /\ o.rids = qc.rids
      /\ o.theSig = {} /\ o.sigs = AggregateKeys(qc.rids)
  BY Reopened
<1>2. r = calculateN([o EXCEPT !.rids = @ \cup {rid},
                               !.sigs = IF qc.kind = "bls"
                                        THEN PlusPoint(@, Sign(rid))
                                        ELSE [@ EXCEPT ![rid] = 1]])
  BY DEF add_part
<1> HIDE DEF o
<1>3. r = calculateN(u)
  BY <1>1, <1>2 DEF Certs
<1>4. s = AggregateKeys(qc.rids \cup {rid})
  <2>1. PlusPoint(AggregateKeys(qc.rids), Sign(rid)) = AggregateKeys(qc.rids \cup {rid})
    BY DEF PlusPoint, AggregateKeys, Sign
  <2>2. [AggregateKeys(qc.rids) EXCEPT ![rid] = 1] = AggregateKeys(qc.rids \cup {rid})
    BY DEF AggregateKeys
  <2> QED BY <1>1, <2>1, <2>2
<1> HIDE DEF s
<1>5. s \in Points
  BY <1>4, KeysArePoints
<1>6. /\ u \in Certs /\ u.kind = qc.kind /\ u.rids = qc.rids \cup {rid}
      /\ u.theSig = {} /\ u.sigs = s
  BY <1>1, <1>5 DEF Certs
<1> HIDE DEF u, r
<1>7. /\ r \in Certs /\ r.kind = qc.kind /\ r.rids = qc.rids \cup {rid}
      /\ r.theSig = {} /\ r.sigs = s
      /\ r.kind = "bls" => r.n = Cardinality(r.rids)
  <2>1. Cardinality(u.rids) \in Nat
    BY <1>6, CertFields
  <2> QED BY <1>3, <1>6, <2>1 DEF calculateN, Certs
<1>8. GoodCert(r)
  BY <1>4, <1>7 DEF GoodCert
<1> QED BY <1>7, <1>8 DEF r

(* merge_quorum of disjoint certificates gives a good one.                 *)
LEMMA MergeQuorum ==
    ASSUME NEW qc \in Certs, GoodCert(qc), NEW other \in Certs, GoodCert(other),
           other.kind = qc.kind, other.rids \cap qc.rids = {}
    PROVE  LET r == merge_quorum(qc, other)
           IN  /\ r \in Certs /\ r.kind = qc.kind /\ GoodCert(r)
               /\ r.rids = qc.rids \cup other.rids
<1> DEFINE o == Reopen(qc)
           s == IF qc.kind = "bls" THEN PlusPoint(o.sigs, AllSigs(other))
                ELSE [m \in Nodes |-> IF other.sigs[m] = 1 THEN 1 ELSE o.sigs[m]]
           u == [o EXCEPT !.rids = @ \cup other.rids, !.sigs = s]
           r == merge_quorum(qc, other)
<1>1. /\ o \in Certs /\ o.kind = qc.kind /\ o.rids = qc.rids
      /\ o.theSig = {} /\ o.sigs = AggregateKeys(qc.rids)
  BY Reopened
<1>2. r = calculateN([o EXCEPT !.rids = @ \cup other.rids,
                               !.sigs = IF qc.kind = "bls"
                                        THEN PlusPoint(@, AllSigs(other))
                                        ELSE [m \in Nodes |->
                                                IF other.sigs[m] = 1 THEN 1 ELSE @[m]]])
  BY DEF merge_quorum
<1> HIDE DEF o
<1>3. r = calculateN(u)
  BY <1>1, <1>2 DEF Certs
<1>4. s = AggregateKeys(qc.rids \cup other.rids)
  <2>1. CASE qc.kind = "bls"
    BY <1>1, <2>1, AllSigsOfGood, SumOfKeys
  <2>2. CASE qc.kind # "bls"
    <3>1. other.sigs = AggregateKeys(other.rids)
      BY <2>2 DEF GoodCert
    <3> QED BY <1>1, <2>2, <3>1 DEF AggregateKeys
  <2> QED BY <2>1, <2>2
<1> HIDE DEF s
<1>5. s \in Points
  BY <1>4, KeysArePoints
<1>6. /\ u \in Certs /\ u.kind = qc.kind /\ u.rids = qc.rids \cup other.rids
      /\ u.theSig = {} /\ u.sigs = s
  BY <1>1, <1>5 DEF Certs
<1> HIDE DEF u, r
<1>7. /\ r \in Certs /\ r.kind = qc.kind /\ r.rids = qc.rids \cup other.rids
      /\ r.theSig = {} /\ r.sigs = s
      /\ r.kind = "bls" => r.n = Cardinality(r.rids)
  <2>1. Cardinality(u.rids) \in Nat
    BY <1>6, CertFields
  <2> QED BY <1>3, <1>6, <2>1 DEF calculateN, Certs
<1>8. GoodCert(r)
  BY <1>4, <1>7 DEF GoodCert
<1> QED BY <1>7, <1>8 DEF r

(* compute keeps a certificate good and aggregates it.                     *)
LEMMA ComputeGood ==
    ASSUME NEW qc \in Certs, GoodCert(qc)
    PROVE  LET r == compute(qc)
           IN  /\ r \in Certs /\ r.kind = qc.kind /\ GoodCert(r)
               /\ r.rids = qc.rids /\ Computed(r)
<1> DEFINE r == compute(qc)
<1>1. AggregateKeys(qc.rids) \in Points /\ Infinity \in Points
  BY KeysArePoints
<1>2. CASE qc.kind = "bls" /\ qc.theSig = {}
  <2>1. r = [qc EXCEPT !.theSig = {qc.sigs}, !.sigs = Infinity]
        /\ qc.sigs = AggregateKeys(qc.rids)
    BY <1>2 DEF compute, GoodCert
  <2>2. /\ r \in Certs /\ r.kind = qc.kind /\ r.rids = qc.rids /\ r.n = qc.n
        /\ r.theSig = {AggregateKeys(qc.rids)} /\ r.sigs = Infinity
    BY <1>1, <2>1 DEF Certs
  <2> HIDE DEF r
  <2>3. GoodCert(r) /\ Computed(r)
    BY <1>2, <2>2 DEF GoodCert, Computed
  <2> QED BY <2>2, <2>3 DEF r
<1>3. CASE ~(qc.kind = "bls" /\ qc.theSig = {})
  BY <1>3 DEF compute, GoodCert, Computed
<1> QED BY <1>2, <1>3

(* A computed certificate can be cloned, sent, parsed and verified.        *)
LEMMA SentGood ==
    ASSUME NEW qc \in Certs, GoodCert(qc), Computed(qc),
           NEW c, c = clone(qc) \/ c = clone(clone(qc))
    PROVE  /\ ~ SerializeThrows(c)
           /\ Wire(c) \in Certs /\ Wire(c).kind = qc.kind /\ Wire(c).rids = qc.rids
           /\ GoodCert(Wire(c))
           /\ qc.rids # {} => verify(qc) /\ verify(Wire(c))
<1> DEFINE a == AggregateKeys(qc.rids)
           r == Wire(c)
<1>1. a \in Points /\ Infinity \in Points
  BY KeysArePoints
<1>2. CASE qc.kind = "bls"
  <2>1. qc.theSig = {a} /\ qc.n = Cardinality(qc.rids)
    BY <1>2 DEF GoodCert, Computed
  <2> DEFINE d == clone(qc)
  <2>2. /\ d \in Certs /\ d.kind = "bls" /\ d.rids = qc.rids
        /\ d.theSig = {a} /\ d.sigs = Infinity
    BY <1>1, <1>2, <2>1 DEF clone, Certs
  <2>3. /\ c \in Certs /\ c.kind = "bls" /\ c.rids = qc.rids
        /\ c.theSig = {a} /\ c.sigs = Infinity
    <3>1. CASE c = d
      BY <2>2, <3>1
    <3>2. CASE c = clone(d)
      <4> HIDE DEF d
      <4> QED BY <1>1, <2>2, <3>2 DEF clone, Certs
    <3> QED BY <3>1, <3>2
  <2>4. /\ r \in Certs /\ r.kind = "bls" /\ r.rids = qc.rids
        /\ r.theSig = {a} /\ r.sigs = Infinity /\ r.n = Cardinality(qc.rids)
    <3> DEFINE w == [c EXCEPT !.sigs = Infinity]
    <3>1. /\ w \in Certs /\ w.kind = "bls" /\ w.rids = qc.rids
          /\ w.theSig = {a} /\ w.sigs = Infinity
      BY <1>1, <2>3 DEF Certs
    <3>2. r = calculateN(w)
      BY <2>3 DEF Wire
    <3> HIDE DEF w, r
    <3>3. Cardinality(qc.rids) \in Nat
      BY CertFields
    <3> QED BY <3>1, <3>2, <3>3 DEF calculateN, Certs
  <2> HIDE DEF r, d
  <2>5. ~ SerializeThrows(c) /\ GoodCert(r)
    BY <2>3, <2>4 DEF SerializeThrows, GoodCert
  <2>6. qc.rids # {} => verify(qc) /\ verify(r)
    BY <1>2, <2>1, <2>4 DEF verify, FastAggregateVerify
  <2> QED BY <1>2, <2>4, <2>5, <2>6 DEF r
<1>3. CASE qc.kind # "bls"
  <2>1. c = qc /\ qc.sigs = a /\ qc.theSig = {} /\ qc.rids \subseteq Nodes
    BY <1>3, CertFields DEF clone, GoodCert
  <2>2. [m \in Nodes |-> IF m \in qc.rids THEN qc.sigs[m] ELSE 0] = a
    BY <2>1 DEF AggregateKeys
  <2>3. \A m \in qc.rids : a[m] = 1
    BY <2>1 DEF AggregateKeys
  <2> HIDE DEF a
  <2>4. r = [qc EXCEPT !.sigs = a]
    BY <1>3, <2>1, <2>2 DEF Wire, Certs
  <2>5. /\ r \in Certs /\ r.kind = qc.kind /\ r.rids = qc.rids
        /\ r.theSig = {} /\ r.sigs = a
    BY <1>1, <2>1, <2>4 DEF Certs
  <2> HIDE DEF r
  <2>6. ~ SerializeThrows(c) /\ GoodCert(r)
    BY <1>3, <2>1, <2>3, <2>5 DEF SerializeThrows, GoodCert, a
  <2>7. verify(qc) /\ verify(r)
    BY <1>3, <2>1, <2>3, <2>5 DEF verify
  <2> QED BY <2>5, <2>6, <2>7 DEF r
<1> QED BY <1>2, <1>3

(* A new certificate is good.                                              *)
LEMMA EmptyGood ==
    ASSUME NEW k \in Kinds
    PROVE  LET qc == create_quorum_cert(k)
           IN  qc \in Certs /\ qc.kind = k /\ qc.rids = {} /\ GoodCert(qc)
<1>1. Cardinality({}) = 0
  BY FS_EmptySet
<1>2. AggregateKeys({}) = Infinity /\ Infinity \in Points
  BY KeysArePoints DEF AggregateKeys, Infinity
<1> QED BY <1>1, <1>2 DEF create_quorum_cert, Certs, GoodCert

(* What a pointer that is not null points to.                              *)
LEMMA DerefSingle ==
    ASSUME NEW ptr, NEW qc \in ptr, ptr = {qc}
    PROVE  Deref(ptr) = qc
BY DEF Deref

-----------------------------------------------------------------------------
(* The subtrees of a layout: the least sets closed under children.         *)
Closed(S) == \A c \in DOMAIN parent : parent[c] \in S => c \in S

(* Subtree(n) is the least set with n that is closed under children.       *)
LEMMA SubtreeLeast ==
    ASSUME parent \in Layouts, NEW n \in Replicas
    PROVE  /\ n \in Subtree(n) /\ Subtree(n) \subseteq Replicas /\ Closed(Subtree(n))
           /\ \A S \in SUBSET Replicas : n \in S /\ Closed(S) => Subtree(n) \subseteq S
<1> DEFINE T == {m \in Replicas : \A S \in SUBSET Replicas : n \in S /\ Closed(S) => m \in S}
<1>1. Subtree(n) = T
  BY Zenon DEF Subtree, SubtreeOf, Replicas, Closed
<1>2. n \in T /\ T \subseteq Replicas
  OBVIOUS
<1>3. Closed(T)
  <2> SUFFICES ASSUME NEW c \in DOMAIN parent, parent[c] \in T
               PROVE  c \in T
    BY DEF Closed
  <2> SUFFICES ASSUME NEW S \in SUBSET Replicas, n \in S, Closed(S)
               PROVE  c \in S
    BY DEF Replicas
  <2> QED BY DEF Closed
<1>4. \A S \in SUBSET Replicas : n \in S /\ Closed(S) => T \subseteq S
  OBVIOUS
<1> HIDE DEF T
<1> QED BY <1>1, <1>2, <1>3, <1>4

(* The subtree of a replica in a subtree is part of it.                    *)
LEMMA SubtreeOfChild ==
    ASSUME parent \in Layouts, NEW n \in Replicas,
           NEW c \in DOMAIN parent, parent[c] \in Subtree(n)
    PROVE  Subtree(c) \subseteq Subtree(n)
<1>1. Subtree(n) \in SUBSET Replicas /\ c \in Subtree(n) /\ Closed(Subtree(n))
  BY SubtreeLeast DEF Closed
<1>2. c \in Replicas
  BY DEF Replicas
<1> QED BY <1>1, <1>2, SubtreeLeast

(* Who is in a subtree and not its root hangs below somebody in it.        *)
LEMMA SubtreeFromAbove ==
    ASSUME parent \in Layouts, NEW n \in Replicas, NEW d \in Subtree(n), d # n
    PROVE  d \in DOMAIN parent /\ parent[d] \in Subtree(n)
<1>1. SUFFICES ASSUME ~(d \in DOMAIN parent /\ parent[d] \in Subtree(n))
               PROVE  FALSE
  OBVIOUS
<1> DEFINE S == Subtree(n) \ {d}
<1>2. S \in SUBSET Replicas /\ n \in S
  BY SubtreeLeast
<1>3. Closed(S)
  <2>1. Closed(Subtree(n))
    BY SubtreeLeast
  <2> QED BY <1>1, <2>1 DEF Closed
<1> HIDE DEF S
<1>4. Subtree(n) \subseteq S
  BY <1>2, <1>3, SubtreeLeast
<1> QED BY <1>4 DEF S

(* The proposer is in nobody else's subtree.                               *)
LEMMA SubtreeBelowRoot ==
    ASSUME parent \in Layouts, NEW c \in DOMAIN parent
    PROVE  Subtree(c) \subseteq DOMAIN parent
<1>1. c \in Replicas /\ DOMAIN parent \in SUBSET Replicas /\ Closed(DOMAIN parent)
  BY DEF Replicas, Closed
<1> QED BY <1>1, SubtreeLeast

(* No replica is below itself.                                             *)
LEMMA SubtreeAcyclic ==
    ASSUME parent \in Layouts, NEW c \in DOMAIN parent
    PROVE  parent[c] \notin Subtree(c)
<1> SUFFICES ASSUME parent[c] \in Subtree(c)
             PROVE  FALSE
  OBVIOUS
<1> DEFINE n == parent[c]
           S == {d \in DOMAIN parent : d \in Subtree(c) /\ n \in Subtree(d)}
<1>1. c \in Replicas /\ n \in DOMAIN parent /\ Subtree(c) \subseteq DOMAIN parent
  BY SubtreeBelowRoot DEF Replicas
<1>2. c \in S
  BY SubtreeLeast, <1>1
<1>3. ASSUME NEW d \in S
      PROVE  parent[d] \in S
  <2>1. d \in DOMAIN parent /\ d \in Subtree(c) /\ n \in Subtree(d) /\ d \in Replicas
    BY DEF Replicas
  <2>2. parent[d] \in Subtree(c)
    BY <1>1, <2>1, SubtreeFromAbove
  <2>3. parent[d] \in DOMAIN parent /\ parent[d] \in Replicas
    BY <1>1, <2>2 DEF Replicas
  <2>4. Subtree(d) \subseteq Subtree(parent[d])
    <3>1. parent[d] \in Subtree(parent[d])
      BY <2>3, SubtreeLeast
    <3> QED BY <2>1, <2>3, <3>1, SubtreeOfChild
  <2> QED BY <2>1, <2>2, <2>3, <2>4
<1>4. S \in SUBSET DOMAIN parent /\ S # {}
  BY <1>2
<1> HIDE DEF S
<1> QED BY <1>3, <1>4, TreeAssumption

(* The subtrees of two children of a replica have nobody in common.        *)
LEMMA SiblingsDisjoint ==
    ASSUME parent \in Layouts, NEW c \in DOMAIN parent, NEW d \in DOMAIN parent,
           c # d, parent[c] = parent[d]
    PROVE  Subtree(c) \cap Subtree(d) = {}
<1>1. c \in Replicas /\ d \in Replicas
  BY DEF Replicas
<1>2. parent[c] \notin Subtree(c) /\ parent[c] \notin Subtree(d)
  BY SubtreeAcyclic
<1>3. c \notin Subtree(d) /\ d \notin Subtree(c)
  BY <1>1, <1>2, SubtreeFromAbove
<1> DEFINE S == Subtree(c) \ Subtree(d)
<1>4. S \in SUBSET Replicas /\ c \in S
  BY <1>1, <1>3, SubtreeLeast
<1>5. Closed(S)
  <2> SUFFICES ASSUME NEW e \in DOMAIN parent, parent[e] \in S
               PROVE  e \in S
    BY DEF Closed
  <2>1. e \in Subtree(c)
    BY <1>1, SubtreeLeast DEF Closed
  <2>2. e # d
    BY <1>2
  <2>3. e \in Subtree(d) => parent[e] \in Subtree(d)
    BY <1>1, <2>2, SubtreeFromAbove
  <2> QED BY <2>1, <2>3
<1> HIDE DEF S
<1>6. Subtree(c) \subseteq S
  BY <1>1, <1>4, <1>5, SubtreeLeast
<1> QED BY <1>6 DEF S

(* In a tree of three levels numberOfChildren counts everybody below.      *)
LEMMA SubtreeCounted ==
    ASSUME parent \in Layouts, ShallowLayouts, NEW n \in DOMAIN parent
    PROVE  IsFiniteSet(Subtree(n)) /\ Cardinality(Subtree(n)) = numberOfChildren(n) + 1
<1> DEFINE C == childPeers(n) \cup UNION {childPeers(c) : c \in childPeers(n)}
           S == {n} \cup C
<1>1. n \in Replicas /\ C \subseteq DOMAIN parent /\ DOMAIN parent \subseteq Replicas
  BY DEF childPeers, Replicas
<1>2. \A c \in DOMAIN parent :
         /\ c \in childPeers(n) <=> parent[c] = n
         /\ c \in C <=> parent[c] = n \/ parent[c] \in childPeers(n)
  BY DEF childPeers
<1>3. \A c \in childPeers(n) : c \in DOMAIN parent
  BY DEF childPeers
<1> HIDE DEF C
<1>4. Closed(S)
  <2> SUFFICES ASSUME NEW c \in DOMAIN parent, parent[c] \in S
               PROVE  c \in S
    BY DEF Closed
  <2>1. CASE parent[c] = n \/ parent[c] \in childPeers(n)
    BY <1>2, <2>1
  <2>2. CASE parent[c] \in C /\ parent[c] \notin childPeers(n)
    <3>1. parent[c] \in DOMAIN parent /\ parent[parent[c]] \in childPeers(n)
      BY <1>1, <1>2, <2>2
    <3>2. parent[parent[c]] \in DOMAIN parent /\ parent[parent[parent[c]]] = n
      BY <1>2, <1>3, <3>1
    <3>3. n = Root
      BY <3>1, <3>2 DEF ShallowLayouts
    <3> QED BY <3>3, TreeAssumption
  <2> QED BY <2>1, <2>2
<1>5. Subtree(n) \subseteq S
  BY <1>1, <1>4, SubtreeLeast
<1>6. childPeers(n) \subseteq Subtree(n)
  BY <1>1, <1>2, <1>3, SubtreeLeast DEF Closed
<1>7. S \subseteq Subtree(n)
  <2>1. n \in Subtree(n) /\ Closed(Subtree(n))
    BY <1>1, SubtreeLeast
  <2>2. C \subseteq Subtree(n)
    BY <1>1, <1>2, <1>6, <2>1 DEF Closed
  <2> QED BY <2>1, <2>2
<1>8. n \notin C
  <2>1. ASSUME n \in C PROVE FALSE
    <3>1. parent[n] = n \/ parent[n] \in childPeers(n)
      BY <1>2, <2>1
    <3>2. parent[n] \in Subtree(n)
      BY <1>1, <1>6, <3>1, SubtreeLeast
    <3> QED BY <3>2, SubtreeAcyclic
  <2> QED BY <2>1
<1>9. IsFiniteSet(C)
  <2>1. IsFiniteSet(DOMAIN parent)
    BY TreeAssumption, FS_Subset
  <2> QED BY <1>1, <2>1, FS_Subset
<1>10. IsFiniteSet(S) /\ Cardinality(S) = Cardinality(C) + 1
  <2>1. S = C \cup {n}
    OBVIOUS
  <2> HIDE DEF S
  <2> QED BY <1>8, <1>9, <2>1, FS_AddElement
<1>11. Subtree(n) = S
  BY <1>5, <1>7
<1> HIDE DEF S
<1> QED BY <1>10, <1>11 DEF numberOfChildren, C

-----------------------------------------------------------------------------
(* Every step keeps the invariant.                                         *)
LEMMA Counts ==
    ASSUME parent \in Layouts
    PROVE  /\ IsFiniteSet(Replicas) /\ Root \in Replicas /\ Replicas \subseteq Nodes
           /\ nmajority \in Nat \ {0}
           /\ \A n \in Replicas : numberOfChildren(n) \in Nat
<1>1. Replicas \subseteq Nodes /\ Root \in Replicas /\ IsFiniteSet(Replicas)
  <2>1. Replicas \subseteq Nodes /\ Root \in Replicas
    BY TreeAssumption DEF Replicas
  <2> QED BY <2>1, TreeAssumption, FS_Subset
<1>2. Cardinality(Replicas) \in Nat \ {0}
  BY <1>1, FS_CardinalityType, FS_EmptySet
<1>3. nmajority \in Nat \ {0}
  <2> DEFINE N == Cardinality(Replicas)
  <2>1. N \in Nat \ {0}
    BY <1>2
  <2> HIDE DEF N
  <2>2. (N - 1) \div 3 \in 0..(N - 1)
    BY <2>1
  <2>3. N - (N - 1) \div 3 \in Nat \ {0}
    BY <2>1, <2>2
  <2> QED BY <2>3 DEF nmajority, N
<1>4. ASSUME NEW n \in Replicas
      PROVE  numberOfChildren(n) \in Nat
  <2> DEFINE C == childPeers(n) \cup UNION {childPeers(c) : c \in childPeers(n)}
  <2>1. C \subseteq Replicas
    BY DEF childPeers, Replicas
  <2> HIDE DEF C
  <2>2. Cardinality(C) \in Nat
    BY <1>1, <2>1, FS_Subset, FS_CardinalityType
  <2> QED BY <2>2 DEF numberOfChildren, C
<1> QED BY <1>1, <1>3, <1>4

(* The certificate that a replica starts with its own signature is good.   *)
LEMMA OwnCertGood ==
    ASSUME kind \in Kinds, NEW n \in Nodes
    PROVE  \E qc \in Certs : /\ OwnCert(n) = {qc} /\ qc.kind = kind
                             /\ GoodCert(qc) /\ qc.rids = {n}
<1> DEFINE e == create_quorum_cert(kind)
           qc == add_part(e, n)
<1>1. e \in Certs /\ e.kind = kind /\ e.rids = {} /\ GoodCert(e)
  BY EmptyGood
<1> HIDE DEF e
<1>2. qc \in Certs /\ qc.kind = kind /\ GoodCert(qc) /\ qc.rids = {n}
  BY <1>1, AddPart
<1>3. OwnCert(n) = {qc}
  BY DEF OwnCert, e
<1> HIDE DEF qc
<1> QED BY <1>2, <1>3

(* The tree, the quorum and the meaning of certificates do not change.     *)
LEMMA SameTree ==
    ASSUME UNCHANGED build
    PROVE  /\ Replicas' = Replicas /\ nmajority' = nmajority
           /\ \A n : /\ Subtree(n)' = Subtree(n)
                     /\ childPeers(n)' = childPeers(n)
                     /\ numberOfChildren(n)' = numberOfChildren(n)
           /\ \A n, qc : Ready(n, qc)' <=> Ready(n, qc)
           /\ \A ptr, S : Holds(ptr, S)' <=> Holds(ptr, S)
BY DEF build, Replicas, nmajority, Subtree, childPeers, numberOfChildren, Ready, Holds

(* The invariant holds when the proposer has broadcast its blocks.         *)
LEMMA InitInv == Init => Inv
<1> SUFFICES ASSUME Init PROVE Inv
  OBVIOUS
<1>1. kind \in Kinds /\ parent \in Layouts
  BY DEF Init
<1>2. Root \in Replicas /\ nmajority \in Nat \ {0} /\ Root \in Nodes
  BY <1>1, Counts, TreeAssumption
<1>3. PICK q : self_qc = [n \in Replicas |-> [b \in Blocks |->
                  IF n = Root THEN SelfVote(Carried(q)) ELSE nullptr]]
  BY DEF Init
<1>4. PICK qc \in Certs : /\ SelfVote(Carried(q)) = {qc} /\ qc.kind = kind
                          /\ GoodCert(qc) /\ qc.rids \subseteq {Root}
                          /\ has_n(qc, nmajority) => Computed(qc)
  <2>1. CASE has_n(Carried(q), nmajority)
    <3> DEFINE e == create_quorum_cert(kind)
    <3>1. e \in Certs /\ e.kind = kind /\ e.rids = {} /\ GoodCert(e)
      BY <1>1, EmptyGood
    <3>2. SelfVote(Carried(q)) = {e}
      BY <2>1 DEF SelfVote
    <3> HIDE DEF e
    <3>3. ~ has_n(e, nmajority)
      <4>1. Cardinality(e.rids) = 0
        BY <3>1, FS_EmptySet
      <4> QED BY <1>2, <3>1, <4>1, HasNCounts
    <3> QED BY <3>1, <3>2, <3>3
  <2>2. CASE ~ has_n(Carried(q), nmajority)
    <3>1. PICK o \in Certs : /\ OwnCert(Root) = {o} /\ o.kind = kind
                             /\ GoodCert(o) /\ o.rids = {Root}
      BY <1>1, <1>2, OwnCertGood
    <3> DEFINE r == IF has_n(o, nmajority) THEN compute(o) ELSE o
    <3>2. SelfVote(Carried(q)) = {r}
      BY <2>2, <3>1 DEF SelfVote
    <3>3. /\ r \in Certs /\ r.kind = kind /\ GoodCert(r) /\ r.rids = {Root}
          /\ has_n(r, nmajority) => Computed(r)
      <4>1. CASE has_n(o, nmajority)
        BY <3>1, <4>1, ComputeGood
      <4>2. CASE ~ has_n(o, nmajority)
        BY <3>1, <4>2
      <4> QED BY <4>1, <4>2
    <3> HIDE DEF r
    <3> QED BY <3>2, <3>3
  <2> QED BY <2>1, <2>2
<1>5. \A n \in Replicas, b \in Blocks :
         self_qc[n][b] = IF n = Root THEN {qc} ELSE nullptr
  BY <1>3, <1>4
<1>6. /\ known \in [Replicas -> SUBSET Blocks] /\ delivered = known
      /\ known[Root] = Blocks
      /\ voted = [n \in Replicas |-> NoBlock]
      /\ msgs = {} /\ handled = {} /\ verifying = {}
  BY <1>2 DEF Init
<1>7. TypeInv
  BY <1>1, <1>3, <1>6 DEF TypeInv
<1>8. CertsInv
  <2>1. Root \in Subtree(Root)
    BY <1>1, <1>2, SubtreeLeast
  <2> QED BY <1>4, <1>5, <2>1 DEF CertsInv, Holds, nullptr
<1>9. MergedOnce
  <2> SUFFICES ASSUME NEW c \in DOMAIN parent, NEW b \in Blocks,
                      NEW x \in self_qc[parent[c]][b]
               PROVE  x.rids \cap Subtree(c) = {}
    BY DEF MergedOnce
  <2>1. parent[c] \in Replicas /\ parent[c] \notin Subtree(c)
    BY <1>1, TreeAssumption, SubtreeAcyclic DEF Replicas
  <2>2. parent[c] = Root /\ x = qc
    BY <1>5, <2>1 DEF nullptr
  <2> QED BY <1>4, <2>1, <2>2
<1>10. RootInv
  BY <1>2, <1>4, <1>5, <1>6 DEF RootInv
<1> QED
  BY <1>6, <1>7, <1>8, <1>9, <1>10 DEF Inv, MsgsInv, OneMsg, VerifyingInv

(* Some replicas below the root may have put their own signature where     *)
(* they had no certificate.                                                *)
Opened ==
    /\ DOMAIN self_qc' = Replicas
    /\ \A n \in Replicas : DOMAIN self_qc'[n] = Blocks
    /\ \A n \in Replicas, b \in Blocks :
          \/ self_qc'[n][b] = self_qc[n][b]
          \/ n # Root /\ self_qc[n][b] = nullptr /\ self_qc'[n][b] = OwnCert(n)

(* A step that merges nothing.                                             *)
LEMMA NoMerge ==
    ASSUME Inv, UNCHANGED build, Opened,
           known' \in [Replicas -> SUBSET Blocks],
           delivered' \in [Replicas -> SUBSET Blocks],
           voted' \in [Replicas -> Blocks \cup {NoBlock}],
           delivered[Root] \subseteq delivered'[Root],
           msgs \subseteq msgs',
           \A m \in msgs' \ msgs : \E n \in DOMAIN parent, b \in Blocks :
               childPeers(n) = {} /\ m = Vote(n, b),
           verifying' \subseteq handled', handled' \subseteq msgs',
           handled \ verifying \subseteq handled' \ verifying',
           \A m \in verifying' : self_qc'[m.to][m.blk] # nullptr
    PROVE  Inv'
<1>1. kind \in Kinds /\ parent \in Layouts /\ kind' = kind /\ parent' = parent
  BY DEF Inv, TypeInv, build
<1>2. \A n \in DOMAIN parent : parent[n] \in Replicas /\ n \in Replicas
  BY <1>1, TreeAssumption DEF Replicas
<1>3. ASSUME NEW m \in msgs' \ msgs
      PROVE  /\ m \in [from : DOMAIN parent, to : Replicas, blk : Blocks, cert : SUBSET Certs]
             /\ m.to = parent[m.from] /\ m.cert = nullptr /\ childPeers(m.from) = {}
  BY <1>2 DEF Vote, nullptr
<1>4. TypeInv'
  <2>1. msgs' \subseteq [from : DOMAIN parent, to : Replicas, blk : Blocks, cert : SUBSET Certs]
    BY <1>3 DEF Inv, TypeInv
  <2>2. \A m \in msgs' : m.to = parent[m.from]
    BY <1>3 DEF Inv, TypeInv
  <2>3. Replicas' = Replicas
    BY SameTree
  <2> QED BY <1>1, <2>1, <2>2, <2>3 DEF Opened, TypeInv
<1>5. ASSUME NEW n \in Replicas, NEW b \in Blocks
      PROVE  /\ Holds(self_qc'[n][b], Subtree(n))
             /\ self_qc'[n][b] # self_qc[n][b] => \A qc \in self_qc'[n][b] : qc.rids = {n}
  <2>1. CASE self_qc'[n][b] = self_qc[n][b]
    BY <2>1 DEF Inv, CertsInv
  <2>2. CASE self_qc'[n][b] = OwnCert(n)
    <3>1. n \in Nodes /\ n \in Subtree(n)
      BY <1>1, Counts, SubtreeLeast
    <3>2. PICK qc \in Certs : /\ OwnCert(n) = {qc} /\ qc.kind = kind
                              /\ GoodCert(qc) /\ qc.rids = {n}
      BY <1>1, <3>1, OwnCertGood
    <3> QED BY <2>2, <3>1, <3>2 DEF Holds
  <2> QED BY <2>1, <2>2 DEF Opened
<1>6. CertsInv'
  BY <1>5, SameTree DEF CertsInv
<1>7. MsgsInv'
  <2>1. ASSUME NEW m \in msgs
        PROVE  /\ isVote(m) <=> childPeers(m.from) = {}
               /\ Holds(m.cert, Subtree(m.from))
               /\ ~ isVote(m) => /\ Ready(m.from, Deref(m.cert))
                                 /\ self_qc'[m.from][m.blk] # nullptr
                                 /\ Ready(m.from, Deref(self_qc'[m.from][m.blk]))
    <3>1. m.from \in Replicas /\ m.blk \in Blocks
      BY <1>2 DEF Inv, TypeInv
    <3>2. self_qc[m.from][m.blk] # nullptr => self_qc'[m.from][m.blk] = self_qc[m.from][m.blk]
      BY <3>1 DEF Opened
    <3> QED BY <3>2 DEF Inv, MsgsInv
  <2>2. ASSUME NEW m \in msgs' \ msgs
        PROVE  isVote(m) /\ childPeers(m.from) = {} /\ Holds(m.cert, Subtree(m.from))
    BY <1>3 DEF isVote, Holds, nullptr
  <2> QED BY <2>1, <2>2, SameTree DEF MsgsInv
<1>8. OneMsg'
  <2> SUFFICES ASSUME NEW m1 \in msgs', NEW m2 \in msgs', m1.from = m2.from, m1.blk = m2.blk
               PROVE  m1 = m2
    BY DEF OneMsg
  <2>1. CASE m1 \in msgs /\ m2 \in msgs
    BY <2>1 DEF Inv, OneMsg
  <2>2. CASE ~(m1 \in msgs /\ m2 \in msgs)
    <3>1. childPeers(m1.from) = {}
      BY <1>3, <2>2
    <3>2. \A m \in msgs' : childPeers(m.from) = {} => m.cert = nullptr
      BY <1>3 DEF Inv, MsgsInv, isVote
    <3>3. m1.cert = m2.cert /\ m1.to = m2.to
      BY <1>3, <3>1, <3>2 DEF Inv, TypeInv
    <3>4. msgs' \subseteq [from : DOMAIN parent, to : Replicas, blk : Blocks, cert : SUBSET Certs]
      BY <1>3 DEF Inv, TypeInv
    <3> QED BY <3>3, <3>4
  <2> QED BY <2>1, <2>2
<1>9. MergedOnce'
  <2> SUFFICES ASSUME NEW c \in DOMAIN parent, NEW b \in Blocks, ~ Merged(c, b)',
                      NEW qc \in self_qc'[parent[c]][b]
               PROVE  qc.rids \cap Subtree(c) = {}
    BY <1>1, SameTree DEF MergedOnce
  <2>1. parent[c] \in Replicas /\ parent[c] \notin Subtree(c)
    BY <1>1, <1>2, SubtreeAcyclic
  <2>2. ~ Merged(c, b)
    BY DEF Merged
  <2>3. CASE self_qc'[parent[c]][b] = self_qc[parent[c]][b]
    BY <2>2, <2>3 DEF Inv, MergedOnce
  <2>4. CASE self_qc'[parent[c]][b] # self_qc[parent[c]][b]
    BY <1>5, <2>1, <2>4
  <2> QED BY <2>3, <2>4
<1>10. VerifyingInv'
  BY DEF VerifyingInv
<1>11. RootInv'
  <2>1. Root \in Replicas
    BY DEF Replicas
  <2>2. nmajority' = nmajority
    BY SameTree
  <2>3. \A b \in Blocks : self_qc'[Root][b] = self_qc[Root][b]
    BY <2>1 DEF Opened
  <2> QED BY <2>2, <2>3 DEF Inv, RootInv
<1> QED BY <1>4, <1>6, <1>7, <1>8, <1>9, <1>10, <1>11 DEF Inv

(* A step may also leave all certificates alone.                           *)
LEMMA SameCerts ==
    ASSUME Inv, self_qc' = self_qc
    PROVE  Opened
BY DEF Inv, TypeInv, Opened

(* propose_handler with do_vote keeps the invariant.                       *)
LEMMA ProposeStep ==
    ASSUME Inv, NEW n \in Replicas, NEW b \in Blocks, ProposeHandler(n, b)
    PROVE  Inv'
<1>1. /\ UNCHANGED <<build, delivered, voted, self_qc, msgs, handled, verifying>>
      /\ known' = [known EXCEPT ![n] = @ \cup {b}]
  BY DEF ProposeHandler
<1>2. known' \in [Replicas -> SUBSET Blocks]
  BY <1>1 DEF Inv, TypeInv
<1>3. Opened
  BY <1>1, SameCerts
<1>4. /\ delivered \in [Replicas -> SUBSET Blocks]
      /\ voted \in [Replicas -> Blocks \cup {NoBlock}]
      /\ verifying \subseteq handled /\ handled \subseteq msgs
      /\ \A m \in verifying : self_qc[m.to][m.blk] # nullptr
  BY DEF Inv, TypeInv, VerifyingInv
<1> QED BY <1>1, <1>2, <1>3, <1>4, NoMerge

(* A replica that stops keeps the invariant.                               *)
LEMMA CrashStep ==
    ASSUME Inv, UNCHANGED <<build, known, delivered, voted, self_qc, msgs, handled, verifying>>
    PROVE  Inv'
<1>1. Opened
  BY SameCerts
<1>2. /\ known \in [Replicas -> SUBSET Blocks]
      /\ delivered \in [Replicas -> SUBSET Blocks]
      /\ voted \in [Replicas -> Blocks \cup {NoBlock}]
      /\ verifying \subseteq handled /\ handled \subseteq msgs
      /\ \A m \in verifying : self_qc[m.to][m.blk] # nullptr
  BY DEF Inv, TypeInv, VerifyingInv
<1> QED BY <1>1, <1>2, NoMerge

(* What Deliver does with the certificates: below the root, and only where *)
(* there is none.                                                          *)
LEMMA DeliverStep ==
    ASSUME Inv, NEW n \in Replicas, NEW b \in Blocks, Deliver(n, b)
    PROVE  Inv' /\ Opened
<1>1. /\ b \in known[n] \ delivered[n]
      /\ delivered' = [delivered EXCEPT ![n] = @ \cup {b}]
      /\ UNCHANGED <<build, known, handled, verifying>>
  BY DEF Deliver
<1>2. Root \in Replicas /\ n # Root /\ n \in DOMAIN parent
  BY <1>1 DEF Inv, RootInv, Replicas
<1>3. /\ delivered' \in [Replicas -> SUBSET Blocks]
      /\ delivered[Root] \subseteq delivered'[Root]
  BY <1>1, <1>2 DEF Inv, TypeInv
<1>4. voted' \in [Replicas -> Blocks \cup {NoBlock}]
  BY DEF Deliver, Inv, TypeInv
<1>5. msgs \subseteq msgs' /\ \A m \in msgs' \ msgs : childPeers(n) = {} /\ m = Vote(n, b)
  BY DEF Deliver, doVote
<1>6. \/ self_qc' = self_qc
      \/ self_qc' = [self_qc EXCEPT ![n][b] = IF @ = nullptr THEN OwnCert(n) ELSE @]
  BY DEF Deliver, doVote
<1>7. Opened
  <2>1. CASE self_qc' = self_qc
    BY <2>1, SameCerts
  <2>2. CASE self_qc' = [self_qc EXCEPT ![n][b] = IF @ = nullptr THEN OwnCert(n) ELSE @]
    BY <1>2, <2>2 DEF Inv, TypeInv, Opened
  <2> QED BY <1>6, <2>1, <2>2
<1>8. \A m \in verifying : self_qc'[m.to][m.blk] # nullptr
  <2> SUFFICES ASSUME NEW m \in verifying
               PROVE  self_qc'[m.to][m.blk] # nullptr
    OBVIOUS
  <2>1. m.to \in Replicas /\ m.blk \in Blocks /\ self_qc[m.to][m.blk] # nullptr
    BY DEF Inv, TypeInv, VerifyingInv
  <2> QED BY <1>7, <2>1 DEF Opened
<1>9. /\ known \in [Replicas -> SUBSET Blocks]
      /\ verifying \subseteq handled /\ handled \subseteq msgs
  BY DEF Inv, TypeInv
<1>10. \A m \in msgs' \ msgs : \E x \in DOMAIN parent, c \in Blocks :
          childPeers(x) = {} /\ m = Vote(x, c)
  BY <1>2, <1>5
<1> QED
  BY <1>1, <1>3, <1>4, <1>5, <1>7, <1>8, <1>9, <1>10, NoMerge

(* The first half of a vote or relay handler keeps the invariant.          *)
LEMMA HandleStep ==
    ASSUME Inv, NEW m \in msgs, Handle(m)
    PROVE  Inv' /\ Opened
<1> DEFINE n   == m.to
           b   == m.blk
           ptr == IF b \notin delivered[n] /\ self_qc[n][b] = nullptr
                  THEN OwnCert(n) ELSE self_qc[n][b]
<1>1. /\ m \in msgs \ handled
      /\ handled' = handled \cup {m}
      /\ self_qc' = [self_qc EXCEPT ![n][b] = ptr]
      /\ verifying' \subseteq verifying \cup {m}
      /\ m \in verifying' => ptr # nullptr
      /\ UNCHANGED <<build, known, delivered, voted, msgs>>
  <2>1. m \notin verifying
    BY DEF Handle, Inv, TypeInv
  <2> QED BY <2>1 DEF Handle
<1>2. n \in Replicas /\ b \in Blocks
  BY DEF Inv, TypeInv
<1>3. b \notin delivered[n] => n # Root
  BY <1>2 DEF Inv, RootInv
<1>4. self_qc'[n][b] = ptr
  BY <1>1, <1>2 DEF Inv, TypeInv
<1>5. Opened
  BY <1>1, <1>2, <1>3 DEF Inv, TypeInv, Opened
<1> HIDE DEF ptr
<1>6. \A x \in verifying' : self_qc'[x.to][x.blk] # nullptr
  <2> SUFFICES ASSUME NEW x \in verifying', x # m
               PROVE  self_qc'[x.to][x.blk] # nullptr
    BY <1>1, <1>4
  <2>1. x \in verifying /\ x.to \in Replicas /\ x.blk \in Blocks
        /\ self_qc[x.to][x.blk] # nullptr
    BY <1>1 DEF Inv, TypeInv, VerifyingInv
  <2> QED BY <1>5, <2>1 DEF Opened
<1>7. /\ known \in [Replicas -> SUBSET Blocks]
      /\ delivered \in [Replicas -> SUBSET Blocks]
      /\ voted \in [Replicas -> Blocks \cup {NoBlock}]
      /\ verifying' \subseteq handled' /\ handled' \subseteq msgs
      /\ handled \ verifying \subseteq handled' \ verifying'
  BY <1>1 DEF Inv, TypeInv
<1> QED BY <1>1, <1>5, <1>6, <1>7, NoMerge

(* The certificate that the continuation of a handler makes: the           *)
(* signatures of the sender's subtree are new in it, and it is aggregated  *)
(* and verifies when it is complete.                                       *)
LEMMA MergedCert ==
    ASSUME Inv, NEW m \in verifying
    PROVE  LET n   == m.to
               b   == m.blk
               old == Deref(self_qc[n][b])
               mrg == Merge(old, m)
               qc  == IF has_n(mrg, IF n = Root THEN nmajority ELSE numberOfChildren(n) + 1)
                      THEN compute(mrg) ELSE mrg
           IN  /\ old \in Certs /\ GoodCert(old) /\ self_qc[n][b] = {old}
               /\ mrg \in Certs /\ GoodCert(mrg)
               /\ qc \in Certs /\ qc.kind = kind /\ GoodCert(qc)
               /\ mrg.rids = qc.rids
               /\ old.rids \subseteq qc.rids /\ qc.rids \subseteq Subtree(n)
               /\ qc.rids \subseteq old.rids \cup Subtree(m.from)
               /\ has_n(qc, IF n = Root THEN nmajority ELSE numberOfChildren(n) + 1)
                     => Computed(qc)
<1> DEFINE n   == m.to
           b   == m.blk
           c   == m.from
           old == Deref(self_qc[n][b])
           mrg == Merge(old, m)
           t   == IF n = Root THEN nmajority ELSE numberOfChildren(n) + 1
           qc  == IF has_n(mrg, t) THEN compute(mrg) ELSE mrg
<1>1. /\ m \in msgs /\ m \in handled /\ b \in Blocks
      /\ c \in DOMAIN parent /\ c \in Replicas /\ n = parent[c] /\ n \in Replicas
      /\ kind \in Kinds /\ parent \in Layouts
  BY DEF Inv, TypeInv, Replicas
<1>2. c \in Nodes /\ c \in Subtree(c) /\ Subtree(c) \subseteq Subtree(n)
  <2>1. n \in Subtree(n)
    BY <1>1, SubtreeLeast
  <2> QED BY <1>1, <2>1, Counts, SubtreeLeast, SubtreeOfChild
<1>3. /\ self_qc[n][b] = {old} /\ old \in Certs /\ old.kind = kind
      /\ GoodCert(old) /\ old.rids \subseteq Subtree(n)
  <2>1. Holds(self_qc[n][b], Subtree(n)) /\ self_qc[n][b] # {}
    BY <1>1 DEF Inv, CertsInv, VerifyingInv, nullptr
  <2>2. PICK o \in self_qc[n][b] : TRUE
    BY <2>1
  <2>3. /\ self_qc[n][b] = {o} /\ o \in Certs /\ o.kind = kind
        /\ GoodCert(o) /\ o.rids \subseteq Subtree(n)
    BY <2>1, <2>2 DEF Holds
  <2>4. old = o
    BY <2>3, DerefSingle
  <2> QED BY <2>3, <2>4
<1> HIDE DEF old
<1>4. old.rids \cap Subtree(c) = {}
  <2>1. ~ Merged(c, b)
    <3> SUFFICES ASSUME NEW x \in handled \ verifying, x.from = c, x.blk = b
                 PROVE  FALSE
      BY DEF Merged
    <3>1. x = m
      BY <1>1 DEF Inv, TypeInv, OneMsg
    <3> QED BY <3>1
  <2> QED BY <1>1, <1>3, <2>1 DEF Inv, MergedOnce
<1>5. PICK D : /\ D \subseteq Subtree(c)
               /\ mrg \in Certs /\ mrg.kind = kind /\ GoodCert(mrg)
               /\ mrg.rids = old.rids \cup D
  <2>1. CASE isVote(m)
    <3>1. mrg = add_part(old, c)
      BY <2>1 DEF Merge
    <3>2. c \notin old.rids
      BY <1>2, <1>4
    <3>3. mrg \in Certs /\ mrg.kind = kind /\ GoodCert(mrg) /\ mrg.rids = old.rids \cup {c}
      BY <1>2, <1>3, <3>1, <3>2, AddPart
    <3> QED BY <1>2, <3>3
  <2>2. CASE ~ isVote(m)
    <3>1. Holds(m.cert, Subtree(c)) /\ m.cert # {}
      BY <1>1, <2>2 DEF Inv, MsgsInv, isVote, nullptr
    <3>2. PICK o \in m.cert : TRUE
      BY <3>1
    <3>3. /\ m.cert = {o} /\ o \in Certs /\ o.kind = kind
          /\ GoodCert(o) /\ o.rids \subseteq Subtree(c)
      BY <3>1, <3>2 DEF Holds
    <3>4. mrg = merge_quorum(old, o)
      <4>1. Deref(m.cert) = o
        BY <3>3, DerefSingle
      <4> QED BY <2>2, <4>1 DEF Merge
    <3>5. o.rids \cap old.rids = {}
      BY <1>4, <3>3
    <3>6. mrg \in Certs /\ mrg.kind = kind /\ GoodCert(mrg) /\ mrg.rids = old.rids \cup o.rids
      BY <1>3, <3>3, <3>4, <3>5, MergeQuorum
    <3> QED BY <3>3, <3>6
  <2> QED BY <2>1, <2>2
<1> HIDE DEF mrg
<1>6. /\ qc \in Certs /\ qc.kind = kind /\ GoodCert(qc) /\ qc.rids = mrg.rids
      /\ has_n(qc, t) => Computed(qc)
  <2>1. CASE has_n(mrg, t)
    BY <1>5, <2>1, ComputeGood
  <2>2. CASE ~ has_n(mrg, t)
    BY <1>5, <2>2
  <2> QED BY <2>1, <2>2
<1> HIDE DEF qc
<1> QED BY <1>2, <1>3, <1>5, <1>6 DEF qc, mrg, old, t

(* The continuation of a handler. What goes up is complete, and it goes up *)
(* once: after it every continuation at this replica returns at once.      *)
LEMMA VerifiedStep ==
    ASSUME Inv, NEW m \in msgs, Verified(m)
    PROVE  /\ Inv' /\ failed' = failed
           /\ \A n \in Replicas, b \in Blocks :
                 self_qc[n][b] # nullptr => self_qc'[n][b] # nullptr
<1> DEFINE n   == m.to
           b   == m.blk
           c   == m.from
           old == Deref(self_qc[n][b])
           mrg == Merge(old, m)
           t   == IF n = Root THEN nmajority ELSE numberOfChildren(n) + 1
           qc  == IF has_n(mrg, t) THEN compute(mrg) ELSE mrg
           up  == n # Root /\ Ready(n, mrg)
           new == VoteRelay(n, b, clone(qc))
<1>1. /\ m \in verifying /\ verifying' = verifying \ {m}
      /\ UNCHANGED <<build, known, delivered, voted, handled>>
  BY DEF Verified
<1>2. /\ b \in Blocks /\ m \in handled
      /\ c \in DOMAIN parent /\ c \in Replicas /\ n = parent[c] /\ n \in Replicas
      /\ kind \in Kinds /\ parent \in Layouts
  BY <1>1 DEF Inv, TypeInv, Replicas
<1>3. CASE TooLate(n, old, m)
  <2>1. UNCHANGED <<self_qc, msgs, failed>>
    BY <1>3 DEF Verified
  <2>2. Opened
    BY <2>1, SameCerts
  <2>3. /\ known \in [Replicas -> SUBSET Blocks]
        /\ delivered \in [Replicas -> SUBSET Blocks]
        /\ voted \in [Replicas -> Blocks \cup {NoBlock}]
        /\ verifying' \subseteq handled /\ handled \subseteq msgs
        /\ handled \ verifying \subseteq handled \ verifying'
        /\ \A x \in verifying' : self_qc[x.to][x.blk] # nullptr
    BY <1>1 DEF Inv, TypeInv, VerifyingInv
  <2> QED BY <1>1, <2>1, <2>2, <2>3, NoMerge
<1>4. CASE ~ TooLate(n, old, m)
  <2>1. /\ old \in Certs /\ GoodCert(old) /\ self_qc[n][b] = {old}
        /\ mrg \in Certs /\ GoodCert(mrg)
        /\ qc \in Certs /\ qc.kind = kind /\ GoodCert(qc)
        /\ mrg.rids = qc.rids
        /\ old.rids \subseteq qc.rids /\ qc.rids \subseteq Subtree(n)
        /\ qc.rids \subseteq old.rids \cup Subtree(c)
        /\ has_n(qc, t) => Computed(qc)
    BY <1>1, MergedCert
  <2>2. /\ self_qc' = [self_qc EXCEPT ![n][b] = {qc}]
        /\ msgs' = IF up /\ verify(qc) /\ ~ SerializeThrows(clone(qc))
                   THEN msgs \cup {new} ELSE msgs
        /\ failed' = IF up /\ \/ ~ isVote(m) /\ ~ verify(qc)
                              \/ verify(qc) /\ SerializeThrows(clone(qc))
                     THEN failed \cup {n} ELSE failed
    BY <1>4 DEF Verified
  <2>3. n # Root => ~ Ready(n, old)
    BY <1>4 DEF TooLate
  <2> HIDE DEF old, mrg, qc
  <2>4. has_n(qc, nmajority) <=> Cardinality(qc.rids) >= nmajority
    BY <2>1, HasNCounts
  <2>5. Ready(n, qc) <=> Ready(n, mrg)
    BY <2>1, HasNCounts DEF Ready
  <2>6. ASSUME up
        PROVE  /\ Computed(qc) /\ verify(qc) /\ ~ SerializeThrows(clone(qc))
               /\ Wire(clone(qc)) \in Certs /\ Wire(clone(qc)).kind = kind
               /\ Wire(clone(qc)).rids = qc.rids /\ GoodCert(Wire(clone(qc)))
    <3>1. Computed(qc)
      BY <2>1, <2>5, <2>6 DEF Ready
    <3>2. Cardinality(qc.rids) >= numberOfChildren(n) + 1
      BY <2>1, <2>5, <2>6, HasNCounts DEF Ready
    <3>3. qc.rids # {}
      <4>1. numberOfChildren(n) \in Nat /\ Cardinality({}) = 0
        BY <1>2, Counts, FS_EmptySet
      <4> QED BY <3>2, <4>1
    <3> DEFINE w == clone(qc)
    <3>4. /\ ~ SerializeThrows(w)
          /\ Wire(w) \in Certs /\ Wire(w).kind = qc.kind /\ Wire(w).rids = qc.rids
          /\ GoodCert(Wire(w))
          /\ qc.rids # {} => verify(qc) /\ verify(Wire(w))
      <4>1. w = clone(qc)
        OBVIOUS
      <4> HIDE DEF w
      <4> QED BY <2>1, <3>1, <4>1, SentGood
    <3> QED BY <2>1, <3>1, <3>3, <3>4
  <2>7. msgs' = (IF up THEN msgs \cup {new} ELSE msgs) /\ failed' = failed
    BY <2>2, <2>6
  <2>8. /\ DOMAIN self_qc' = Replicas
        /\ \A x \in Replicas : DOMAIN self_qc'[x] = Blocks
        /\ self_qc'[n][b] = {qc}
        /\ \A x \in Replicas, d \in Blocks :
              x # n \/ d # b => self_qc'[x][d] = self_qc[x][d]
    BY <1>2, <2>2 DEF Inv, TypeInv
  <2>9. \A x \in msgs : ~(x.from = n /\ x.blk = b /\ n # Root)
    <3> SUFFICES ASSUME NEW x \in msgs, x.from = n, x.blk = b, n # Root
                 PROVE  FALSE
      OBVIOUS
    <3>1. c \in childPeers(n)
      BY <1>2 DEF childPeers
    <3>2. ~ isVote(x)
      BY <3>1 DEF Inv, MsgsInv
    <3>3. Ready(n, Deref(self_qc[n][b]))
      BY <3>2 DEF Inv, MsgsInv
    <3> QED BY <2>3, <3>3 DEF old
  <2>10. up => /\ n \in DOMAIN parent
               /\ new.from = n /\ new.to = parent[n] /\ new.blk = b
               /\ new.cert = {Wire(clone(qc))}
               /\ new \in [from : DOMAIN parent, to : Replicas, blk : Blocks, cert : SUBSET Certs]
    <3> SUFFICES ASSUME up
                 PROVE  /\ n \in DOMAIN parent
                        /\ new.from = n /\ new.to = parent[n] /\ new.blk = b
                        /\ new.cert = {Wire(clone(qc))}
                        /\ new \in [from : DOMAIN parent, to : Replicas, blk : Blocks,
                                    cert : SUBSET Certs]
      OBVIOUS
    <3>1. n \in DOMAIN parent /\ parent[n] \in Replicas
      BY <1>2, TreeAssumption DEF Replicas
    <3>2. Wire(clone(qc)) \in Certs
      BY <2>6
    <3> QED BY <1>2, <3>1, <3>2 DEF VoteRelay
  <2>11. TypeInv'
    <3>1. msgs' \subseteq [from : DOMAIN parent, to : Replicas, blk : Blocks, cert : SUBSET Certs]
      BY <2>7, <2>10 DEF Inv, TypeInv
    <3>2. \A x \in msgs' : x.to = parent[x.from]
      BY <2>7, <2>10 DEF Inv, TypeInv
    <3>3. Replicas' = Replicas /\ parent' = parent /\ kind' = kind
      BY <1>1, SameTree DEF build
    <3>4. verifying' \subseteq handled' /\ handled' \subseteq msgs'
      BY <1>1, <2>7 DEF Inv, TypeInv
    <3> QED BY <1>1, <2>8, <3>1, <3>2, <3>3, <3>4 DEF Inv, TypeInv
  <2>12. CertsInv'
    <3>1. \A x \in Replicas, d \in Blocks : Holds(self_qc'[x][d], Subtree(x))
      <4> SUFFICES ASSUME NEW x \in Replicas, NEW d \in Blocks
                   PROVE  Holds(self_qc'[x][d], Subtree(x))
        OBVIOUS
      <4>1. CASE x = n /\ d = b
        BY <2>1, <2>8, <4>1 DEF Holds
      <4>2. CASE ~(x = n /\ d = b)
        BY <2>8, <4>2 DEF Inv, CertsInv
      <4> QED BY <4>1, <4>2
    <3> QED BY <1>1, <3>1, SameTree DEF CertsInv
  <2>13. MsgsInv'
    <3>1. ASSUME NEW x \in msgs
          PROVE  /\ isVote(x) <=> childPeers(x.from) = {}
                 /\ Holds(x.cert, Subtree(x.from))
                 /\ ~ isVote(x) => /\ Ready(x.from, Deref(x.cert))
                                   /\ self_qc'[x.from][x.blk] # nullptr
                                   /\ Ready(x.from, Deref(self_qc'[x.from][x.blk]))
      <4>1. x.from \in Replicas /\ x.blk \in Blocks /\ x.from # Root
        BY <1>2, TreeAssumption DEF Inv, TypeInv, Replicas
      <4>2. self_qc'[x.from][x.blk] = self_qc[x.from][x.blk]
        BY <2>8, <2>9, <4>1
      <4> QED BY <4>2 DEF Inv, MsgsInv
    <3>2. ASSUME up
          PROVE  /\ ~ isVote(new) /\ childPeers(n) # {}
                 /\ Holds(new.cert, Subtree(n))
                 /\ Ready(n, Deref(new.cert))
                 /\ self_qc'[n][b] # nullptr
                 /\ Ready(n, Deref(self_qc'[n][b]))
      <4> DEFINE w == Wire(clone(qc))
      <4>1. /\ w \in Certs /\ w.kind = kind /\ w.rids = qc.rids /\ GoodCert(w)
            /\ new.cert = {w}
        BY <2>6, <2>10, <3>2
      <4> HIDE DEF w, new
      <4>2. Deref(new.cert) = w /\ Deref(self_qc'[n][b]) = qc
        BY <2>8, <4>1, DerefSingle
      <4>3. Ready(n, w) /\ Ready(n, qc)
        BY <2>1, <2>5, <3>2, <4>1, HasNCounts DEF Ready
      <4>4. c \in childPeers(n)
        BY <1>2 DEF childPeers
      <4>5. Holds(new.cert, Subtree(n))
        BY <2>1, <4>1 DEF Holds
      <4> QED BY <2>8, <4>1, <4>2, <4>3, <4>4, <4>5 DEF isVote, nullptr
    <3>3. \A x \in msgs' :
             /\ isVote(x) <=> childPeers(x.from) = {}
             /\ Holds(x.cert, Subtree(x.from))
             /\ ~ isVote(x) => /\ Ready(x.from, Deref(x.cert))
                               /\ self_qc'[x.from][x.blk] # nullptr
                               /\ Ready(x.from, Deref(self_qc'[x.from][x.blk]))
      <4> HIDE DEF new, up
      <4>1. up => new.from = n /\ new.blk = b
        BY <2>10
      <4> QED BY <2>7, <3>1, <3>2, <4>1
    <3> QED BY <1>1, <3>3, SameTree DEF MsgsInv
  <2>14. OneMsg'
    <3> HIDE DEF new
    <3> QED BY <2>7, <2>9, <2>10 DEF Inv, OneMsg
  <2>15. MergedOnce'
    <3> SUFFICES ASSUME NEW e \in DOMAIN parent, NEW d \in Blocks, ~ Merged(e, d)',
                        NEW x \in self_qc'[parent[e]][d]
                 PROVE  x.rids \cap Subtree(e) = {}
      BY <1>1, SameTree DEF MergedOnce, build
    <3>1. ~ Merged(e, d) /\ (e # c \/ d # b)
      BY <1>1, <1>2 DEF Merged
    <3>2. CASE parent[e] = n /\ d = b
      <4>1. x = qc /\ e # c
        BY <2>8, <3>1, <3>2
      <4>2. Subtree(e) \cap Subtree(c) = {}
        BY <1>2, <3>2, <4>1, SiblingsDisjoint
      <4>3. old.rids \cap Subtree(e) = {}
        BY <2>1, <3>1, <3>2 DEF Inv, MergedOnce
      <4> QED BY <2>1, <4>1, <4>2, <4>3
    <3>3. CASE ~(parent[e] = n /\ d = b)
      <4>1. parent[e] \in Replicas
        BY <1>2, TreeAssumption DEF Replicas
      <4> QED BY <2>8, <3>1, <3>3, <4>1 DEF Inv, MergedOnce
    <3> QED BY <3>2, <3>3
  <2>16. \A x \in Replicas, d \in Blocks :
            self_qc[x][d] # nullptr => self_qc'[x][d] # nullptr
    BY <2>8 DEF nullptr
  <2>17. VerifyingInv'
    <3>1. \A x \in verifying : x.to \in Replicas /\ x.blk \in Blocks
      BY DEF Inv, TypeInv
    <3> QED BY <1>1, <2>16, <3>1 DEF Inv, VerifyingInv
  <2>18. RootInv'
    <3>1. Root \in Replicas /\ nmajority' = nmajority
      BY <1>1, SameTree DEF Replicas
    <3>2. ASSUME NEW d \in Blocks, NEW x \in self_qc'[Root][d], has_n(x, nmajority)
          PROVE  Computed(x)
      <4>1. CASE n = Root /\ d = b
        BY <2>1, <2>8, <3>2, <4>1
      <4>2. CASE ~(n = Root /\ d = b)
        BY <2>8, <3>1, <3>2, <4>2 DEF Inv, RootInv
      <4> QED BY <4>1, <4>2
    <3> QED BY <1>1, <3>1, <3>2 DEF Inv, RootInv
  <2> QED
    BY <2>7, <2>11, <2>12, <2>13, <2>14, <2>15, <2>16, <2>17, <2>18 DEF Inv
<1> QED BY <1>3, <1>4

(* Every handler and crash keeps the invariant.                            *)
LEMMA InvStep == Inv /\ [Next]_vars => Inv'
<1> SUFFICES ASSUME Inv, [Next]_vars
             PROVE  Inv'
  OBVIOUS
<1>1. ASSUME NEW n \in Replicas, NEW b \in Blocks, ProposeHandler(n, b) PROVE Inv'
  BY <1>1, ProposeStep
<1>2. ASSUME NEW n \in Replicas, NEW b \in Blocks, Deliver(n, b) PROVE Inv'
  BY <1>2, DeliverStep
<1>3. ASSUME NEW m \in msgs, Handle(m) PROVE Inv'
  BY <1>3, HandleStep
<1>4. ASSUME NEW m \in msgs, Verified(m) PROVE Inv'
  BY <1>4, VerifiedStep
<1>5. ASSUME NEW n \in Replicas, Crash(n) PROVE Inv'
  BY <1>5, CrashStep DEF Crash
<1>6. CASE UNCHANGED vars
  BY <1>6, CrashStep DEF vars
<1> QED BY <1>1, <1>2, <1>3, <1>4, <1>5, <1>6 DEF Next, Progress

(* The invariant of certificates and messages holds throughout.            *)
LEMMA Invariance == Spec => []Inv
BY InitInv, InvStep, PTL DEF Spec

-----------------------------------------------------------------------------
(* Whatever order votes, relays and deliveries come in, a certificate that *)
(* a replica holds contains the signature of each of its rids exactly      *)
(* once: each child's contribution is merged once, and the subtrees of two *)
(* children are disjoint. has_n counts the signers.                        *)
THEOREM NoSignatureTwice == Spec => []EachSignatureOnce
<1>1. Inv => EachSignatureOnce
  <2> SUFFICES ASSUME Inv, NEW n \in Replicas, NEW b \in Blocks, NEW qc \in self_qc[n][b]
               PROVE  /\ AllSigs(qc) = AggregateKeys(qc.rids)
                      /\ \A k \in {numberOfChildren(n) + 1, nmajority} :
                            has_n(qc, k) <=> Cardinality(qc.rids) >= k
    BY DEF EachSignatureOnce
  <2>1. qc \in Certs /\ GoodCert(qc)
    BY DEF Inv, CertsInv, Holds
  <2> QED BY <2>1, AllSigsOfGood, HasNCounts
<1> QED BY <1>1, Invariance, PTL

(* What completes at the proposer is aggregated there, so the clone that   *)
(* the next blocks carry can be sent, is verified by who parses it, and    *)
(* still counts a majority.                                                *)
THEOREM CompleteCertificateVerifies == Spec => []CarriedVerifies
<1>1. Inv => CarriedVerifies
  <2> SUFFICES ASSUME Inv, NEW b \in Blocks, NEW qc \in self_qc[Root][b],
                      has_n(qc, nmajority)
               PROVE  /\ ~ SerializeThrows(Carried(qc))
                      /\ verify(Wire(Carried(qc)))
                      /\ has_n(Wire(Carried(qc)), nmajority)
    BY DEF CarriedVerifies
  <2> DEFINE c == clone(clone(qc))
             w == Wire(c)
  <2>1. Root \in Replicas /\ nmajority \in Nat \ {0}
    BY Counts DEF Inv, TypeInv
  <2>2. qc \in Certs /\ GoodCert(qc) /\ Computed(qc)
    BY <2>1 DEF Inv, CertsInv, Holds, RootInv
  <2>3. Cardinality(qc.rids) >= nmajority
    BY <2>2, HasNCounts
  <2>4. qc.rids # {}
    BY <2>1, <2>3, FS_EmptySet
  <2>5. c = clone(clone(qc))
    OBVIOUS
  <2> HIDE DEF c
  <2>6. ~ SerializeThrows(c) /\ w \in Certs /\ w.rids = qc.rids /\ GoodCert(w) /\ verify(w)
    BY <2>2, <2>4, <2>5, SentGood
  <2> HIDE DEF w
  <2>7. has_n(w, nmajority)
    BY <2>3, <2>6, HasNCounts
  <2>8. Carried(qc) = c
    BY <2>5 DEF Carried
  <2> QED BY <2>6, <2>7, <2>8 DEF w
<1> QED BY <1>1, Invariance, PTL

(* In trees of at most three levels below the proposer, where              *)
(* numberOfChildren is the size of the subtree, a relay has the signatures *)
(* of its sender's whole subtree and of nobody else.                       *)
THEOREM RelaysAreWhole ==
    ASSUME ShallowLayouts
    PROVE  Spec => []RelayCoversSubtree
<1>1. Inv => RelayCoversSubtree
  <2> SUFFICES ASSUME Inv, NEW m \in msgs, ~ isVote(m)
               PROVE  Deref(m.cert).rids = Subtree(m.from)
    BY DEF RelayCoversSubtree
  <2>1. Holds(m.cert, Subtree(m.from)) /\ m.cert # {} /\ Ready(m.from, Deref(m.cert))
    BY DEF Inv, MsgsInv, isVote, nullptr
  <2>2. PICK qc \in m.cert : TRUE
    BY <2>1
  <2>3. m.cert = {qc} /\ qc \in Certs /\ GoodCert(qc) /\ qc.rids \subseteq Subtree(m.from)
    BY <2>1, <2>2 DEF Holds
  <2>4. Deref(m.cert) = qc
    BY <2>3, DerefSingle
  <2>5. Cardinality(qc.rids) >= numberOfChildren(m.from) + 1
    BY <2>1, <2>3, <2>4, HasNCounts DEF Ready
  <2>6. m.from \in DOMAIN parent /\ parent \in Layouts
    BY DEF Inv, TypeInv
  <2>7. /\ IsFiniteSet(Subtree(m.from))
        /\ Cardinality(Subtree(m.from)) = numberOfChildren(m.from) + 1
    BY <2>6, SubtreeCounted
  <2>8. qc.rids = Subtree(m.from)
    <3> DEFINE S == Subtree(m.from)
    <3>1. numberOfChildren(m.from) \in Nat
      BY <2>6, Counts DEF Replicas
    <3>2. Cardinality(qc.rids) \in Nat
      BY <2>3, CertFields
    <3> HIDE DEF S
    <3>3. IsFiniteSet(S) /\ qc.rids \subseteq S /\ Cardinality(qc.rids) >= Cardinality(S)
      BY <2>3, <2>5, <2>7 DEF S
    <3>4. qc.rids = S
      BY <3>2, <3>3, FS_Subset, FS_CardinalityType
    <3> QED BY <3>4 DEF S
  <2> QED BY <2>4, <2>8
<1> QED BY <1>1, Invariance, PTL

(* However many proposals there are, the continuations of vote_handler and *)
(* vote_relay_handler never throw "sigs not aggregated before sending!" or *)
(* "Invalid Sigs in intermediate signature!": what they complete verifies  *)
(* and can be serialized.                                                  *)
THEOREM ContinuationsDoNotThrow ==
    Spec => [][\A m \in msgs : Verified(m) => failed' = failed]_vars
<1>1. Inv => [\A m \in msgs : Verified(m) => failed' = failed]_vars
  BY VerifiedStep
<1> QED BY <1>1, Invariance, PTL

(* An exception or the null pointer can only come from a second proposal   *)
(* of the height.                                                          *)
LEMMA NullStep ==
    ASSUME OneProposal
    PROVE  Inv /\ NullInv /\ [Next]_vars => NullInv'
<1> SUFFICES ASSUME Inv, NullInv, [Next]_vars
             PROVE  NullInv'
  OBVIOUS
<1>1. parent \in Layouts /\ \A n \in Replicas : DOMAIN self_qc[n] = Blocks
  BY DEF Inv, TypeInv
<1>2. ASSUME UNCHANGED <<build, delivered, voted, failed>>,
             \A n \in Replicas, b \in Blocks :
                self_qc[n][b] # nullptr => self_qc'[n][b] # nullptr
      PROVE  NullInv'
  BY <1>2, SameTree DEF NullInv, NoException
<1>3. ASSUME NEW n \in Replicas, NEW b \in Blocks, ProposeHandler(n, b) PROVE NullInv'
  BY <1>2, <1>3 DEF ProposeHandler
<1>4. ASSUME NEW n \in Replicas, NEW b \in Blocks, Deliver(n, b) PROVE NullInv'
  <2>1. /\ b \notin delivered[n] /\ UNCHANGED <<build, failed>>
        /\ delivered' = [delivered EXCEPT ![n] = @ \cup {b}]
    BY <1>4 DEF Deliver
  <2>2. delivered[n] = {} /\ voted[n] = NoBlock
    BY <2>1 DEF OneProposal, NullInv, Inv, TypeInv
  <2>3. voted' = [voted EXCEPT ![n] = b] /\ doVote(n, b)
    BY <1>4, <2>2 DEF Deliver
  <2>4. Opened
    BY <1>4, DeliverStep
  <2>5. childPeers(n) # {} => self_qc'[n][b] # nullptr
    <3> SUFFICES ASSUME childPeers(n) # {}
                 PROVE  self_qc'[n][b] # nullptr
      OBVIOUS
    <3>1. self_qc' = [self_qc EXCEPT ![n][b] = IF @ = nullptr THEN OwnCert(n) ELSE @]
      BY <2>3 DEF doVote
    <3>2. self_qc'[n][b] = IF self_qc[n][b] = nullptr THEN OwnCert(n) ELSE self_qc[n][b]
      BY <3>1 DEF Inv, TypeInv
    <3> QED BY <3>2 DEF OwnCert, nullptr
  <2>6. ASSUME NEW x \in Replicas, NEW d \in Blocks, d \in delivered'[x], childPeers(x) # {}
        PROVE  self_qc'[x][d] # nullptr
    <3>1. CASE x = n
      BY <2>5, <2>6, <3>1 DEF OneProposal
    <3>2. CASE x # n
      <4>1. self_qc[x][d] # nullptr
        BY <2>1, <2>6, <3>2 DEF NullInv, Inv, TypeInv
      <4> QED BY <2>4, <4>1 DEF Opened
    <3> QED BY <3>1, <3>2
  <2>7. \A x \in Replicas : voted'[x] # NoBlock => delivered'[x] # {}
    BY <2>1, <2>3 DEF NullInv, Inv, TypeInv
  <2> QED BY <2>1, <2>6, <2>7, SameTree DEF NullInv, NoException
<1>5. ASSUME NEW m \in msgs, Handle(m) PROVE NullInv'
  <2> DEFINE n   == m.to
             b   == m.blk
             ptr == IF b \notin delivered[n] /\ self_qc[n][b] = nullptr
                    THEN OwnCert(n) ELSE self_qc[n][b]
  <2>1. n \in Replicas /\ b \in Blocks /\ m.from \in childPeers(n)
    BY DEF Inv, TypeInv, childPeers
  <2>2. ptr # nullptr
    BY <2>1 DEF NullInv, OwnCert, nullptr
  <2>3. failed' = failed /\ UNCHANGED <<build, delivered, voted>>
    BY <1>5, <2>2 DEF Handle
  <2>4. \A x \in Replicas, d \in Blocks :
           self_qc[x][d] # nullptr => self_qc'[x][d] # nullptr
    BY <1>5, HandleStep DEF Opened
  <2> QED BY <1>2, <2>3, <2>4
<1>6. ASSUME NEW m \in msgs, Verified(m) PROVE NullInv'
  <2>1. UNCHANGED <<build, delivered, voted>>
    BY <1>6 DEF Verified
  <2> QED BY <1>2, <1>6, <2>1, VerifiedStep
<1>7. ASSUME NEW n \in Replicas, Crash(n) PROVE NullInv'
  BY <1>2, <1>7 DEF Crash
<1>8. CASE UNCHANGED vars
  BY <1>2, <1>8 DEF vars
<1> QED BY <1>3, <1>4, <1>5, <1>6, <1>7, <1>8 DEF Next, Progress

(* With one proposal for a height no handler is ended by the null pointer, *)
(* and with any number none is by "sigs not aggregated before sending!" or *)
(* by "Invalid Sigs in intermediate signature!": ContinuationsDoNotThrow.  *)
THEOREM OneProposalNoException ==
    ASSUME OneProposal
    PROVE  Spec => []NoException
<1>1. Init => NullInv
  <2> SUFFICES ASSUME Init PROVE NullInv
    OBVIOUS
  <2>1. Root \in Replicas
    BY DEF Replicas
  <2>2. /\ \A n \in Replicas : n # Root => delivered[n] = {}
        /\ \A n \in Replicas : voted[n] = NoBlock
        /\ failed = {}
    BY DEF Init
  <2>3. PICK q : self_qc = [n \in Replicas |-> [b \in Blocks |->
                    IF n = Root THEN SelfVote(Carried(q)) ELSE nullptr]]
    BY DEF Init
  <2>4. SelfVote(Carried(q)) # nullptr
    BY DEF SelfVote, OwnCert, nullptr
  <2>5. \A b \in Blocks : self_qc[Root][b] # nullptr
    BY <2>1, <2>3, <2>4
  <2> QED BY <2>2, <2>5 DEF NullInv, NoException
<1>2. NullInv => NoException
  BY DEF NullInv
<1> QED BY <1>1, <1>2, NullStep, Invariance, PTL DEF Spec

=============================================================================
