--------------------------- MODULE PipelineProofs ---------------------------
(***************************************************************************)
(* Proofs about Pipeline, for every tree below the root, every pipeline    *)
(* depth and every number of blocks: no wake-up of a beat that waits for a *)
(* QC is lost, and every parent is found when a block is delivered.        *)
(***************************************************************************)
EXTENDS Pipeline, FiniteSetTheorems, SequenceTheorems, WellFoundedInduction, TLAPS

(* A set of numbers that is not empty has a least one.                     *)
LEMMA LeastNumber ==
    ASSUME NEW S \in SUBSET Nat, S # {}
    PROVE  \E m \in S : \A n \in S : m <= n
<1> DEFINE R == OpToRel(<, Nat)
<1>1. IsWellFoundedOn(R, Nat)
  BY NatLessThanWellFounded
<1>2. PICK m \in S : \A n \in S : ~ (<<n, m>> \in R)
  <2> HIDE DEF R
  <2> QED BY <1>1, WFMin
<1>3. \A n \in S : ~ (n < m)
  BY <1>2 DEF OpToRel
<1> QED
  BY <1>3

(* The names of the proposer's fields.                                     *)
Fields ==
    {"n", "newest_first", "parents", "height", "branch", "qc_ref", "cert",
     "delivered", "decided", "finished", "hqc", "b_exec", "vheight", "tails",
     "tail", "piped", "rdy", "stale_front", "b_normal_height",
     "piped_submitted", "recent", "last_proposed", "locked", "pending",
     "qc_waiting", "failed"}

(* The part of the proposer's state that decides who waits for what.       *)
Typed(s) ==
    /\ DOMAIN s = Fields
    /\ s.n \in Blocks /\ s.last_proposed \in 0..s.n
    /\ s.cert \in [Blocks -> SUBSET Children]
    /\ s.piped \in Seq(1..s.n) /\ s.rdy \in Seq(1..s.n)

(* A QC is announced when it is complete, and only then; the announcement  *)
(* is due of the blocks in rdy_queue and of those in due.                  *)
Announced(s, due) ==
    /\ \A b \in s.finished : b \in 0..s.n /\ Complete(s, b)
    /\ \A b \in Range(s.rdy) : Complete(s, b)
    /\ \A b \in 1..s.n : Complete(s, b) => b \in s.finished \cup Range(s.rdy) \cup due
    /\ s.qc_waiting \cap s.finished = {}

(* No vote exists for what is not proposed, nor has one been counted for a *)
(* pipelined block before its first message delivers it.                   *)
Untouched(s, v) ==
    /\ \A b \in Blocks : b > s.n => s.cert[b] = {}
    /\ \A m \in v : m[2] \in 1..s.n
    /\ s.failed = "no" => \A b \in Range(s.piped) \ s.delivered :
          s.cert[b] = {} /\ \A m \in v : m[2] # b

Good(s, v, due) == Typed(s) /\ Announced(s, due) /\ Untouched(s, v)

Inv == Good(p, verifying, {})

-----------------------------------------------------------------------------
(* What update_hqc, the commit and a failure leave alone.                  *)
Same(s, t) ==
    /\ DOMAIN t = Fields
    /\ t.n = s.n /\ t.cert = s.cert /\ t.finished = s.finished
    /\ t.rdy = s.rdy /\ t.piped = s.piped /\ t.delivered = s.delivered
    /\ t.last_proposed = s.last_proposed /\ t.qc_waiting = s.qc_waiting
    /\ t.failed = "no" => s.failed = "no"

(* An exception leaves the queues and certificates as they are.            *)
LEMMA FailKeeps ==
    ASSUME NEW s, NEW why, DOMAIN s = Fields, why # "no"
    PROVE  Same(s, Fail(s, why)) /\ Fail(s, why).failed # "no"
BY DEF Same, Fail, Fields

(* update_hqc and the pacemaker's callback touch hqc and the tail only.    *)
LEMMA UpdateHqcKeeps ==
    ASSUME NEW s, NEW b, DOMAIN s = Fields
    PROVE  Same(s, UpdateHqc(s, b))
BY DEF Same, UpdateHqc, Fields

(* The commit of update touches b_exec and the decisions only.             *)
LEMMA CommitKeeps ==
    ASSUME NEW s, NEW b, DOMAIN s = Fields
    PROVE  Same(s, Commit(s, b))
<1>1. CASE Commit(s, b) = s
  BY <1>1 DEF Same
<1>2. CASE Commit(s, b) = Fail(s, "safety breached")
  BY <1>2, FailKeeps
<1>3. CASE \E x, y : Commit(s, b) = [s EXCEPT !.b_exec = x, !.decided = y]
  BY <1>3 DEF Same, Fields
<1> QED BY <1>1, <1>2, <1>3 DEF Commit

(* What process_block does for block b.                                    *)
Processed(s, t, b) ==
    /\ DOMAIN t = Fields
    /\ t.n = s.n /\ t.cert = s.cert /\ t.finished = s.finished
    /\ t.rdy = s.rdy /\ t.piped = s.piped
    /\ s.delivered \subseteq t.delivered
    /\ t.last_proposed \in {s.last_proposed, b}
    /\ t.qc_waiting \subseteq s.qc_waiting \cup {b}
    /\ t.failed = "no" => s.failed = "no" /\ b \in t.delivered

(* process_block delivers b, makes it the current proposal and may let a   *)
(* beat wait for its QC, as far as it gets.                                *)
LEMMA ProcessBlockKeeps ==
    ASSUME NEW s, NEW b, NEW adjustHeight, DOMAIN s = Fields
    PROVE  Processed(s, ProcessBlock(s, b, adjustHeight), b)
<1> DEFINE d == OnDeliverBlk(s, b)
           h == UpdateHqc(d, s.qc_ref[b])
           u == Commit(h, s.qc_ref[b])
           w == [u EXCEPT !.vheight = IF adjustHeight THEN u.height[b] ELSE @]
           o == OnPropose_(w, b)
           t == ProcessBlock(s, b, adjustHeight)
<1>1. \/ Same(s, d) /\ d.failed # "no"
      \/ d = [s EXCEPT !.delivered = @ \cup {b},
                       !.tails = (@ \ Range(s.parents[b])) \cup {b}]
  <2>1. CASE d = Fail(s, "parent not delivered")
    BY <2>1, FailKeeps
  <2> QED BY <2>1 DEF OnDeliverBlk
<1>2. Processed(s, d, b)
  <2> HIDE DEF d
  <2>1. CASE Same(s, d) /\ d.failed # "no"
    BY <2>1 DEF Same, Processed
  <2>2. CASE d = [s EXCEPT !.delivered = @ \cup {b},
                           !.tails = (@ \ Range(s.parents[b])) \cup {b}]
    BY <2>2 DEF Processed, Fields
  <2> QED BY <1>1, <2>1, <2>2
<1>3. Same(d, h)
  BY <1>2, UpdateHqcKeeps DEF Processed
<1>4. Same(h, u)
  BY <1>3, CommitKeeps DEF Same
<1>5. Processed(s, u, b)
  <2> HIDE DEF d, h, u
  <2> QED BY <1>2, <1>3, <1>4 DEF Same, Processed
<1>6. ASSUME NEW why, why # "no" PROVE Processed(s, Fail(u, why), b)
  <2>1. Same(u, Fail(u, why))
    BY <1>5, <1>6, FailKeeps DEF Processed
  <2> HIDE DEF u
  <2> QED BY <1>5, <2>1 DEF Same, Processed
<1>7. Same(u, w)
  <2> HIDE DEF u
  <2> QED BY <1>5 DEF Same, Processed, Fields
<1>8. Processed(s, o, b)
  <2>1. Processed(s, w, b)
    <3> HIDE DEF u, w
    <3> QED BY <1>5, <1>7 DEF Same, Processed
  <2> HIDE DEF w
  <2>2. /\ DOMAIN o = DOMAIN w
        /\ o.n = w.n /\ o.cert = w.cert /\ o.finished = w.finished
        /\ o.rdy = w.rdy /\ o.piped = w.piped /\ o.delivered = w.delivered
        /\ o.last_proposed = b /\ o.failed = w.failed
        /\ o.qc_waiting \in {w.qc_waiting, w.qc_waiting \cup {b}}
    BY <2>1 DEF Processed, OnPropose_, Fields
  <2> HIDE DEF o
  <2> QED BY <2>1, <2>2 DEF Processed
<1> DEFINE f == Fail(u, "new block should be higher than vheight")
<1>9. t \in {d, u, f, o}
  BY DEF ProcessBlock
<1>10. Processed(s, f, b)
  BY <1>6
<1>11. Processed(s, t, b)
  <2> HIDE DEF d, u, o, t, f
  <2> QED BY <1>2, <1>5, <1>8, <1>9, <1>10
<1> QED BY <1>11

(* What the callback of a beat does: at most one block is proposed.        *)
Proposed(s, t) ==
    /\ DOMAIN t = Fields
    /\ t.cert = s.cert /\ t.finished = s.finished /\ t.rdy = s.rdy
    /\ s.delivered \subseteq t.delivered
    /\ t.failed = "no" => s.failed = "no"
    /\ \/ /\ t.n = s.n /\ t.piped = s.piped
          /\ t.last_proposed = s.last_proposed /\ t.qc_waiting = s.qc_waiting
       \/ /\ t.n = s.n + 1 /\ t.n <= MaxBlocks
          /\ t.piped \in {s.piped, Append(s.piped, t.n)}
          /\ t.last_proposed \in {s.last_proposed, t.n}
          /\ t.qc_waiting \subseteq s.qc_waiting \cup {t.n}

(* A new block has the next number and nothing else is touched.            *)
LEMMA NewBlockKeeps ==
    ASSUME NEW s, NEW parents, DOMAIN s = Fields
    PROVE  LET t == NewBlock(s, parents)
           IN  /\ DOMAIN t = Fields
               /\ t.n = s.n + 1 /\ t.cert = s.cert /\ t.finished = s.finished
               /\ t.rdy = s.rdy /\ t.piped = s.piped /\ t.delivered = s.delivered
               /\ t.last_proposed = s.last_proposed
               /\ t.qc_waiting = s.qc_waiting /\ t.failed = s.failed
BY DEF NewBlock, Fields

(* on_propose proposes the next block.                                     *)
LEMMA OnProposeKeeps ==
    ASSUME NEW s, DOMAIN s = Fields, s.n \in Nat, s.n + 1 <= MaxBlocks
    PROVE  Proposed(s, OnPropose(s))
<1> DEFINE back == Last(s.piped)
           parents == IF s.piped # <<>> /\ s.height[s.tail] <= s.height[back]
                      THEN <<back, s.tail>> ELSE <<s.tail>>
           new == NewBlock(s, parents)
           m == [new EXCEPT !.b_normal_height = new.height[new.n]]
           t == ProcessBlock(m, new.n, TRUE)
<1>1. /\ DOMAIN new = Fields
      /\ new.n = s.n + 1 /\ new.cert = s.cert /\ new.finished = s.finished
      /\ new.rdy = s.rdy /\ new.piped = s.piped /\ new.delivered = s.delivered
      /\ new.last_proposed = s.last_proposed
      /\ new.qc_waiting = s.qc_waiting /\ new.failed = s.failed
  <2> HIDE DEF parents
  <2> QED BY NewBlockKeeps
<1>2. OnPropose(s) = t
  BY DEF OnPropose
<1> HIDE DEF new
<1>3. Same(new, m)
  BY <1>1 DEF Same, Fields
<1>4. Processed(m, t, new.n)
  <2> HIDE DEF m
  <2> QED BY <1>3, ProcessBlockKeeps DEF Same
<1>5. Proposed(s, t)
  <2> HIDE DEF t, m
  <2> QED BY <1>1, <1>3, <1>4 DEF Same, Processed, Proposed
<1> QED BY <1>2, <1>5, Zenon

(* The pipelined branch of beat puts the next block into piped_queue.      *)
LEMMA ProposePipedKeeps ==
    ASSUME NEW s, DOMAIN s = Fields, s.n \in Nat, s.n + 1 <= MaxBlocks
    PROVE  Proposed(s, ProposePiped(s))
<1>1. PICK parents :
         LET new == NewBlock(s, parents)
         IN  ProposePiped(s) = [new EXCEPT !.piped = Append(@, new.n),
                                           !.stale_front = 0,
                                           !.recent = TRUE,
                                           !.piped_submitted = FALSE]
  BY Zenon DEF ProposePiped
<1> DEFINE new == NewBlock(s, parents)
<1>2. /\ DOMAIN new = Fields
      /\ new.n = s.n + 1 /\ new.cert = s.cert /\ new.finished = s.finished
      /\ new.rdy = s.rdy /\ new.piped = s.piped /\ new.delivered = s.delivered
      /\ new.last_proposed = s.last_proposed
      /\ new.qc_waiting = s.qc_waiting /\ new.failed = s.failed
  BY NewBlockKeeps
<1>3. ProposePiped(s) = [new EXCEPT !.piped = Append(@, new.n),
                                    !.stale_front = 0,
                                    !.recent = TRUE,
                                    !.piped_submitted = FALSE]
  BY <1>1
<1> HIDE DEF new
<1> QED BY <1>2, <1>3 DEF Proposed, Fields

(* The callback of a beat proposes at most one block.                      *)
LEMMA BeatBodyKeeps ==
    ASSUME NEW s, DOMAIN s = Fields, s.n \in Blocks
    PROVE  Proposed(s, BeatBody(s))
<1> DEFINE r == [s EXCEPT !.recent = TRUE]
<1>1. MaxBlocks \in Nat /\ s.n \in Nat /\ s.n <= MaxBlocks
  BY PipelineAssumption DEF Blocks
<1>2. Proposed(s, s)
  BY <1>1 DEF Proposed
<1>3. s.n # MaxBlocks => Proposed(s, ProposePiped(s))
  BY <1>1, ProposePipedKeeps
<1>4. Same(s, r)
  BY DEF Same, Fields
<1>5. s.n # MaxBlocks => Proposed(r, OnPropose(r))
  <2> HIDE DEF r
  <2> QED BY <1>1, <1>4, OnProposeKeeps DEF Same
<1>6. s.n # MaxBlocks => Proposed(s, OnPropose(r))
  <2> HIDE DEF r
  <2> QED BY <1>4, <1>5 DEF Same, Proposed
<1> QED BY <1>2, <1>3, <1>6, Zenon DEF BeatBody

(* What depends on nothing that Same lets change.                          *)
LEMMA SameGood ==
    ASSUME NEW s, NEW t, NEW v, NEW due, Good(s, v, due), Same(s, t)
    PROVE  Good(t, v, due)
<1>1. Typed(t)
  BY DEF Good, Same, Typed
<1>2. \A b : Complete(t, b) <=> Complete(s, b)
  BY DEF Same, Complete
<1>3. Announced(t, due)
  BY <1>2 DEF Good, Same, Announced
<1>4. Untouched(t, v)
  BY DEF Good, Same, Untouched
<1> QED BY <1>1, <1>3, <1>4 DEF Good

(* A block without votes is not complete.                                  *)
LEMMA NotComplete ==
    ASSUME NEW s, NEW b, b # 0, s.cert[b] = {}
    PROVE  ~ Complete(s, b)
<1>1. Cardinality({}) = 0
  BY FS_EmptySet
<1>2. Need \in Nat /\ Need >= 1
  <2>1. Cardinality(Children) \in Nat
    BY PipelineAssumption, FS_CardinalityType
  <2> QED BY <2>1, PipelineAssumption
<1> QED BY <1>1, <1>2 DEF Complete

(* A beat never disturbs who waits: the new block has no vote.             *)
LEMMA ProposedGood ==
    ASSUME NEW s, NEW t, NEW v, Good(s, v, {}), Proposed(s, t)
    PROVE  Good(t, v, {})
<1>1. CASE t.n = s.n
  <2>1. t.piped = s.piped /\ t.last_proposed = s.last_proposed
        /\ t.qc_waiting = s.qc_waiting
    BY <1>1 DEF Proposed, Good, Typed, Blocks
  <2>2. Typed(t)
    BY <1>1, <2>1 DEF Good, Proposed, Typed
  <2>3. \A b : Complete(t, b) <=> Complete(s, b)
    BY DEF Proposed, Complete
  <2>4. Announced(t, {})
    BY <1>1, <2>1, <2>3 DEF Good, Proposed, Announced
  <2>5. Untouched(t, v)
    BY <1>1, <2>1 DEF Good, Proposed, Untouched
  <2> QED BY <2>2, <2>4, <2>5 DEF Good
<1>2. CASE t.n # s.n
  <2>1. /\ t.n = s.n + 1 /\ t.n <= MaxBlocks
        /\ t.piped \in {s.piped, Append(s.piped, t.n)}
        /\ t.last_proposed \in {s.last_proposed, t.n}
        /\ t.qc_waiting \subseteq s.qc_waiting \cup {t.n}
        /\ DOMAIN t = Fields /\ t.cert = s.cert /\ t.finished = s.finished
        /\ t.rdy = s.rdy /\ s.delivered \subseteq t.delivered
        /\ t.failed = "no" => s.failed = "no"
    BY <1>2 DEF Proposed
  <2>2. /\ s.n \in Nat /\ MaxBlocks \in Nat /\ t.n \in Blocks /\ s.n \in Blocks
        /\ t.n # 0 /\ t.n > s.n /\ 1..s.n \subseteq 1..t.n
        /\ 0..s.n \subseteq 0..t.n /\ t.n \in 1..t.n
        /\ \A b \in 1..t.n : b = t.n \/ b \in 1..s.n
    <3>1. s.n \in Nat /\ MaxBlocks \in Nat /\ s.n \in Blocks
      BY PipelineAssumption DEF Good, Typed, Blocks
    <3>2. t.n = s.n + 1 /\ t.n <= MaxBlocks
      BY <2>1
    <3> QED BY <3>1, <3>2 DEF Blocks
  <2>3. s.cert[t.n] = {} /\ t.n \notin 0..s.n
    <3>1. s.cert[t.n] = {}
      BY <2>2 DEF Good, Untouched
    <3> QED BY <2>2, <3>1
  <2>4. ~ Complete(t, t.n)
    BY <2>1, <2>2, <2>3, NotComplete
  <2>5. \A b : Complete(t, b) <=> Complete(s, b)
    BY <2>1 DEF Complete
  <2>6. t.piped \in Seq(1..t.n) /\ Range(t.piped) \subseteq Range(s.piped) \cup {t.n}
    <3>1. s.piped \in Seq(1..t.n)
      BY <2>2 DEF Good, Typed
    <3>2. CASE t.piped = s.piped
      BY <3>1, <3>2
    <3>3. CASE t.piped = Append(s.piped, t.n)
      BY <2>2, <3>1, <3>3 DEF Range
    <3> QED BY <2>1, <3>2, <3>3
  <2>7. Typed(t)
    <3>1. t.rdy \in Seq(1..t.n)
      BY <2>1, <2>2 DEF Good, Typed
    <3>2. t.last_proposed \in 0..t.n
      BY <2>1, <2>2 DEF Good, Typed
    <3> QED BY <2>1, <2>2, <2>6, <3>1, <3>2 DEF Good, Typed
  <2>8. Announced(t, {})
    <3>1. \A b \in t.finished : b \in 0..t.n /\ Complete(t, b)
      BY <2>1, <2>2, <2>5 DEF Good, Announced
    <3>2. \A b \in Range(t.rdy) : Complete(t, b)
      BY <2>1, <2>5 DEF Good, Announced
    <3>3. \A b \in 1..t.n : Complete(t, b) => b \in t.finished \cup Range(t.rdy)
      BY <2>1, <2>2, <2>4, <2>5 DEF Good, Announced
    <3>4. t.n \notin s.finished
      BY <2>1, <2>4, <3>1
    <3>5. t.qc_waiting \cap t.finished = {}
      BY <2>1, <3>4 DEF Good, Announced
    <3> QED BY <3>1, <3>2, <3>3, <3>5 DEF Announced
  <2>9. Untouched(t, v)
    <3>1. \A b \in Blocks : b > t.n => t.cert[b] = {}
      BY <2>1, <2>2 DEF Good, Untouched, Blocks
    <3>2. \A m \in v : m[2] \in 1..t.n /\ m[2] # t.n
      BY <2>2, <2>3 DEF Good, Untouched
    <3>3. ASSUME t.failed = "no", NEW b \in Range(t.piped) \ t.delivered
          PROVE  t.cert[b] = {} /\ \A m \in v : m[2] # b
      <4>1. CASE b = t.n
        BY <2>1, <2>3, <3>2, <4>1
      <4>2. CASE b # t.n
        BY <2>1, <2>6, <3>3, <4>2 DEF Good, Untouched
      <4> QED BY <4>1, <4>2
    <3> QED BY <3>1, <3>2, <3>3 DEF Untouched
  <2> QED BY <2>7, <2>8, <2>9 DEF Good
<1> QED BY <1>1, <1>2

-----------------------------------------------------------------------------
(* Taking an element out of a sequence.                                    *)
LEMMA RemoveAtFacts ==
    ASSUME NEW S, NEW q \in Seq(S), NEW i \in 1..Len(q)
    PROVE  /\ RemoveAt(q, i) \in Seq(S)
           /\ Range(RemoveAt(q, i)) \subseteq Range(q)
           /\ Range(q) \subseteq Range(RemoveAt(q, i)) \cup {q[i]}
<1> DEFINE l == SubSeq(q, 1, i - 1)
           r == SubSeq(q, i + 1, Len(q))
           e == Len(q)
<1>1. e \in Nat /\ i \in 1..e /\ DOMAIN q = 1..e /\ \A j \in 1..e : q[j] \in S
  BY LenProperties
<1>2. /\ l \in Seq(S) /\ Len(l) = i - 1
      /\ \A j \in 1..(i - 1) : l[j] = q[j]
  <2>1. i - 1 \in Int /\ \A j \in 1..(i - 1) : q[j] \in S
    BY <1>1
  <2>2. /\ l \in Seq(S) /\ Len(l) = IF 1 <= i - 1 THEN i - 1 - 1 + 1 ELSE 0
        /\ \A j \in 1..(i - 1 - 1 + 1) : l[j] = q[1 + j - 1]
    BY <2>1, SubSeqProperties
  <2> HIDE DEF l
  <2>3. i - 1 - 1 + 1 = i - 1 /\ \A j \in 1..(i - 1) : 1 + j - 1 = j
    BY <1>1
  <2>4. Len(l) = i - 1
    BY <1>1, <2>2
  <2> QED BY <2>2, <2>3, <2>4
<1>3. /\ r \in Seq(S) /\ Len(r) = e - i
      /\ \A j \in 1..(e - i) : r[j] = q[i + j]
  <2>1. i + 1 \in Int /\ e \in Int /\ \A j \in (i + 1)..e : q[j] \in S
    BY <1>1
  <2>2. /\ r \in Seq(S) /\ Len(r) = IF i + 1 <= e THEN e - (i + 1) + 1 ELSE 0
        /\ \A j \in 1..(e - (i + 1) + 1) : r[j] = q[i + 1 + j - 1]
    BY <2>1, SubSeqProperties
  <2> HIDE DEF r, e
  <2>3. e - (i + 1) + 1 = e - i /\ \A j \in 1..(e - i) : i + 1 + j - 1 = i + j
    BY <1>1
  <2>4. Len(r) = e - i
    BY <1>1, <2>2
  <2> QED BY <2>2, <2>3, <2>4
<1>4. RemoveAt(q, i) = l \o r
  BY DEF RemoveAt
<1> HIDE DEF l, r, e
<1> DEFINE c == l \o r
<1>5. /\ c \in Seq(S) /\ Len(c) = Len(l) + Len(r)
      /\ \A j \in 1..(Len(l) + Len(r)) :
            c[j] = IF j <= Len(l) THEN l[j] ELSE r[j - Len(l)]
  BY <1>2, <1>3, ConcatProperties
<1> HIDE DEF c
<1>6. Len(l) + Len(r) = e - 1 /\ DOMAIN c = 1..(e - 1)
  <2>1. Len(l) + Len(r) = e - 1
    BY <1>1, <1>2, <1>3
  <2> QED BY <1>5, <2>1, LenProperties
<1>7. ASSUME NEW j \in 1..(e - 1) PROVE c[j] = IF j < i THEN q[j] ELSE q[j + 1]
  <2>1. CASE j < i
    <3>1. j <= i - 1 /\ j \in 1..(i - 1)
      BY <1>1, <2>1
    <3> QED BY <1>2, <1>5, <1>6, <2>1, <3>1
  <2>2. CASE ~ (j < i)
    <3>1. ~ (j <= i - 1) /\ j - (i - 1) \in 1..(e - i) /\ i + (j - (i - 1)) = j + 1
      BY <1>1, <2>2
    <3>2. c[j] = r[j - (i - 1)]
      BY <1>2, <1>5, <1>6, <3>1
    <3> QED BY <1>3, <2>2, <3>1, <3>2
  <2> QED BY <2>1, <2>2
<1>8. ASSUME NEW x \in Range(c) PROVE x \in Range(q)
  <2>1. PICK j \in 1..(e - 1) : x = c[j]
    BY <1>6 DEF Range
  <2>2. j \in 1..e /\ j + 1 \in 1..e
    BY <1>1
  <2> QED BY <1>1, <1>7, <2>1, <2>2 DEF Range
<1>9. ASSUME NEW j \in 1..e, j # i PROVE q[j] \in Range(c)
  <2>1. CASE j < i
    <3>1. j \in 1..(e - 1)
      BY <1>1, <2>1
    <3>2. c[j] = q[j]
      BY <1>7, <2>1, <3>1
    <3> QED BY <1>6, <3>1, <3>2 DEF Range
  <2>2. CASE j > i
    <3>1. j - 1 \in 1..(e - 1) /\ ~ (j - 1 < i) /\ (j - 1) + 1 = j
      BY <1>1, <2>2
    <3>2. c[j - 1] = q[j]
      BY <1>7, <3>1
    <3> QED BY <1>6, <3>1, <3>2 DEF Range
  <2> QED BY <1>1, <1>9, <2>1, <2>2
<1>10. Range(q) \subseteq Range(c) \cup {q[i]}
  BY <1>1, <1>9 DEF Range
<1> QED BY <1>4, <1>5, <1>8, <1>10 DEF c

(* erase(find(x)) on a deque that has x.                                   *)
LEMMA RemoveFirstFacts ==
    ASSUME NEW S, NEW q \in Seq(S), NEW x \in Range(q)
    PROVE  /\ RemoveFirst(q, x) \in Seq(S)
           /\ Range(RemoveFirst(q, x)) \subseteq Range(q)
           /\ Range(q) \subseteq Range(RemoveFirst(q, x)) \cup {x}
<1> DEFINE I == {i \in 1..Len(q) : q[i] = x}
<1>1. I # {} /\ I \in SUBSET Nat /\ \E i \in 1..Len(q) : q[i] = x
  BY DEF Range
<1>2. Min(I) \in I
  <2> HIDE DEF I
  <2> QED BY <1>1, LeastNumber DEF Min
<1>3. RemoveFirst(q, x) = RemoveAt(q, Min(I))
  BY <1>1 DEF RemoveFirst, SelectInSeq
<1> HIDE DEF I
<1>4. Min(I) \in 1..Len(q) /\ q[Min(I)] = x
  BY <1>2 DEF I
<1> QED BY <1>3, <1>4, RemoveAtFacts

-----------------------------------------------------------------------------
(* update_hqc and on_qc_finish announce what is due.                       *)
LEMMA FinishGood ==
    ASSUME NEW s, NEW v, NEW b, Good(s, v, {b}), b \in 1..s.n, Complete(s, b)
    PROVE  Good(Finish(s, b), v, {})
<1> DEFINE f == [s EXCEPT !.finished = @ \cup {b}]
           u == UpdateHqc(f, b)
           w == [u EXCEPT !.qc_waiting = @ \ {b}]
<1>1. DOMAIN s = Fields
  BY DEF Good, Typed
<1>2. /\ DOMAIN f = Fields /\ f.finished = s.finished \cup {b}
      /\ f.n = s.n /\ f.cert = s.cert /\ f.rdy = s.rdy /\ f.piped = s.piped
      /\ f.delivered = s.delivered /\ f.last_proposed = s.last_proposed
      /\ f.qc_waiting = s.qc_waiting /\ f.failed = s.failed
  BY <1>1 DEF Fields
<1>3. Same(f, u)
  <2> HIDE DEF f
  <2> QED BY <1>2, UpdateHqcKeeps
<1> HIDE DEF f, u
<1>4. ASSUME NEW t, DOMAIN t = Fields, t.qc_waiting = s.qc_waiting \ {b},
             t.finished = s.finished \cup {b}, t.n = s.n, t.cert = s.cert,
             t.rdy = s.rdy, t.piped = s.piped, t.delivered = s.delivered,
             t.last_proposed = s.last_proposed,
             t.failed = "no" => s.failed = "no"
      PROVE  Good(t, v, {})
  <2>1. \A x : Complete(t, x) <=> Complete(s, x)
    BY <1>4 DEF Complete
  <2>2. Typed(t)
    BY <1>4 DEF Good, Typed
  <2>3. Announced(t, {})
    BY <1>4, <2>1 DEF Good, Announced, Typed, Blocks
  <2>4. Untouched(t, v)
    BY <1>4 DEF Good, Untouched
  <2> QED BY <2>2, <2>3, <2>4 DEF Good
<1>5. CASE b \in u.qc_waiting
  <2>1. /\ DOMAIN w = Fields /\ w.qc_waiting = u.qc_waiting \ {b}
        /\ w.finished = u.finished /\ w.n = u.n /\ w.cert = u.cert
        /\ w.rdy = u.rdy /\ w.piped = u.piped /\ w.delivered = u.delivered
        /\ w.last_proposed = u.last_proposed /\ w.failed = u.failed
    BY <1>3 DEF Same, Fields
  <2> HIDE DEF w
  <2>2. Good(w, v, {})
    BY <1>2, <1>3, <1>4, <2>1 DEF Same
  <2>3. Good(BeatBody(w), v, {})
    BY <2>1, <2>2, BeatBodyKeeps, ProposedGood DEF Good, Typed
  <2>4. Finish(s, b) = BeatBody(w)
    BY <1>5, Zenon DEF Finish, f, u, w
  <2> QED BY <2>3, <2>4
<1>6. CASE b \notin u.qc_waiting
  <2>1. u.qc_waiting = s.qc_waiting \ {b}
    BY <1>2, <1>3, <1>6 DEF Same
  <2>2. Good(u, v, {})
    BY <1>2, <1>3, <1>4, <2>1 DEF Same
  <2>3. Finish(s, b) = u
    BY <1>6, Zenon DEF Finish, f, u
  <2> QED BY <2>2, <2>3
<1> QED BY <1>5, <1>6

(* More may be due.                                                        *)
LEMMA WeakerGood ==
    ASSUME NEW s, NEW v, NEW due, Good(s, v, {})
    PROVE  Good(s, v, due)
BY DEF Good, Announced

(* A block that leaves rdy_queue is due.                                   *)
LEMMA EraseRdyGood ==
    ASSUME NEW s, NEW v, NEW i \in 1..Len(s.rdy), Good(s, v, {})
    PROVE  LET t == EraseRdy(s, i)
           IN  /\ Good(t, v, {s.rdy[i]})
               /\ s.rdy[i] \in 1..t.n /\ Complete(t, s.rdy[i])
<1> DEFINE len == Len(s.rdy)
           hash == IF i - 1 < len \div 2
                   THEN s.rdy[IF i = 1 THEN i ELSE i - 1]
                   ELSE s.rdy[IF i = len THEN i ELSE i + 1]
           x == s.rdy[i]
           e == [s EXCEPT !.rdy = RemoveAt(@, i), !.piped = RemoveFirst(@, hash),
                          !.stale_front = IF Len(s.piped) = 1 THEN hash ELSE 0]
           f == Fail(s, "erase at end of piped_queue")
           t == EraseRdy(s, i)
<1>1. /\ DOMAIN s = Fields /\ s.rdy \in Seq(1..s.n) /\ s.piped \in Seq(1..s.n)
      /\ Typed(s) /\ Announced(s, {}) /\ Untouched(s, v)
  BY DEF Good, Typed
<1>2. x \in 1..s.n /\ x \in Range(s.rdy)
  <2>1. i \in DOMAIN s.rdy /\ s.rdy[i] \in 1..s.n
    BY <1>1, LenProperties
  <2> QED BY <2>1 DEF Range
<1>3. Complete(s, x)
  BY <1>1, <1>2 DEF Announced
<1>4. t = IF Piped(s, hash) THEN e ELSE f
  BY Zenon DEF EraseRdy
<1>5. CASE Piped(s, hash)
  <2> HIDE DEF hash, x
  <2>1. /\ DOMAIN e = Fields /\ e.rdy = RemoveAt(s.rdy, i)
        /\ e.piped = RemoveFirst(s.piped, hash)
        /\ e.n = s.n /\ e.cert = s.cert /\ e.finished = s.finished
        /\ e.delivered = s.delivered /\ e.last_proposed = s.last_proposed
        /\ e.qc_waiting = s.qc_waiting /\ e.failed = s.failed
    BY <1>1 DEF Fields
  <2>2. e.piped \in Seq(1..s.n) /\ Range(e.piped) \subseteq Range(s.piped)
    BY <1>1, <1>5, <2>1, RemoveFirstFacts DEF Piped
  <2>3. /\ e.rdy \in Seq(1..s.n) /\ Range(e.rdy) \subseteq Range(s.rdy)
        /\ Range(s.rdy) \subseteq Range(e.rdy) \cup {x}
    BY <1>1, <2>1, RemoveAtFacts DEF x
  <2> HIDE DEF e
  <2>4. \A y : Complete(e, y) <=> Complete(s, y)
    BY <2>1 DEF Complete
  <2>5. Typed(e)
    BY <1>1, <2>1, <2>2, <2>3 DEF Typed
  <2>6. Announced(e, {x})
    BY <1>1, <2>1, <2>3, <2>4 DEF Announced
  <2>7. Untouched(e, v)
    BY <1>1, <2>1, <2>2 DEF Untouched
  <2>8. Good(e, v, {x}) /\ x \in 1..e.n /\ Complete(e, x)
    BY <1>2, <1>3, <2>1, <2>4, <2>5, <2>6, <2>7 DEF Good
  <2> QED BY <1>4, <1>5, <2>8 DEF x
<1>6. CASE ~ Piped(s, hash)
  <2> HIDE DEF x
  <2>1. Same(s, f)
    BY <1>1, FailKeeps
  <2> HIDE DEF f
  <2>2. Good(f, v, {x})
    BY <2>1, SameGood, WeakerGood
  <2>3. x \in 1..f.n /\ Complete(f, x)
    BY <1>2, <1>3, <2>1 DEF Same, Complete
  <2>4. t = f
    BY <1>4, <1>6
  <2> HIDE DEF t
  <2>5. Good(t, v, {x}) /\ x \in 1..t.n /\ Complete(t, x)
    BY <2>2, <2>3, <2>4
  <2> QED BY <2>5 DEF t, x
<1> QED BY <1>5, <1>6

(* One run of the loop over rdy_queue, on the state and the last block.    *)
DrainStep(y) ==
    LET t == y[1]
        i == SelectInSeq(t.rdy, LAMBDA x : t.parents[x][1] = y[2])
    IN  IF i = 0 \/ t.failed # "no" THEN y
        ELSE <<Finish(EraseRdy(t, i), t.rdy[i]), t.rdy[i]>>

DrainLoop(g, M, a) == g = [k \in 0..M |-> IF k = 0 THEN a ELSE DrainStep(g[k - 1])]

(* The loop over rdy_queue computes something, whatever its bound.         *)
LEMMA DrainLoopExists ==
    ASSUME NEW M \in Nat, NEW a
    PROVE  \E g : DrainLoop(g, M, a)
<1> DEFINE S == {j \in 0..M : ~ \E g : DrainLoop(g, j, a)}
<1> SUFFICES ASSUME S # {} PROVE FALSE
  OBVIOUS
<1>1. PICK m \in S : \A k \in S : m <= k
  <2>1. S \in SUBSET Nat
    OBVIOUS
  <2> HIDE DEF S
  <2> QED BY <2>1, LeastNumber
<1>2. m \in 0..M /\ ~ \E g : DrainLoop(g, m, a)
  BY <1>1
<1>3. CASE m = 0
  <2> DEFINE h == [k \in 0..0 |-> a]
  <2>1. DrainLoop(h, 0, a)
    <3>1. ASSUME NEW k \in 0..0
          PROVE  a = IF k = 0 THEN a ELSE DrainStep(h[k - 1])
      OBVIOUS
    <3> QED BY <3>1 DEF DrainLoop
  <2> QED BY <1>2, <1>3, <2>1
<1>4. CASE m # 0
  <2>1. m - 1 \in 0..M /\ m - 1 \notin S
    BY <1>1, <1>2, <1>4
  <2>2. PICK g : DrainLoop(g, m - 1, a)
    BY <2>1
  <2> DEFINE h == [k \in 0..m |-> IF k = m THEN DrainStep(g[m - 1]) ELSE g[k]]
  <2>3. ASSUME NEW k \in 0..m
        PROVE  h[k] = IF k = 0 THEN a ELSE DrainStep(h[k - 1])
    <3>1. CASE k = 0
      <4>1. 0 \in 0..(m - 1) /\ 0 # m /\ 0 \in 0..m
        BY <1>2, <1>4
      <4>2. g[0] = a
        BY <2>2, <4>1 DEF DrainLoop
      <4> QED BY <3>1, <4>1, <4>2
    <3>2. CASE k = m
      <4>1. m - 1 \in 0..m /\ m - 1 # m /\ m \in 0..m
        BY <1>2, <1>4
      <4>2. h[m - 1] = g[m - 1] /\ h[m] = DrainStep(g[m - 1])
        BY <4>1
      <4> QED BY <1>4, <3>2, <4>2
    <3>3. CASE k # 0 /\ k # m
      <4>1. k \in 0..(m - 1) /\ k - 1 \in 0..m /\ k - 1 # m
        BY <1>2, <3>3
      <4>2. g[k] = DrainStep(g[k - 1])
        BY <2>2, <3>3, <4>1 DEF DrainLoop
      <4>3. h[k] = g[k] /\ h[k - 1] = g[k - 1]
        BY <3>3, <4>1
      <4> QED BY <3>3, <4>2, <4>3
    <3> QED BY <3>1, <3>2, <3>3
  <2>4. h = [k \in 0..m |-> h[k]]
    OBVIOUS
  <2> HIDE DEF h
  <2>5. DrainLoop(h, m, a)
    BY <2>3, <2>4 DEF DrainLoop
  <2> QED BY <1>2, <2>5
<1> QED BY <1>3, <1>4

(* DrainRdy is what the loop has computed after as many runs as rdy_queue  *)
(* had elements.                                                           *)
LEMMA DrainRdyRuns ==
    ASSUME NEW s, NEW b, Len(s.rdy) \in Nat
    PROVE  \E g : DrainLoop(g, Len(s.rdy), <<s, b>>) /\ DrainRdy(s, b) = g[Len(s.rdy)][1]
<1> DEFINE M == Len(s.rdy)
           a == <<s, b>>
           go == CHOOSE g : DrainLoop(g, M, a)
<1>1. DrainLoop(go, M, a)
  <2> HIDE DEF M, a
  <2> QED BY DrainLoopExists DEF M
<1>2. DrainRdy(s, b) = go[M][1]
  BY DEF DrainRdy, DrainLoop, DrainStep
<1> HIDE DEF go
<1> QED BY <1>1, <1>2

(* A run of the loop changes nothing, or takes a block out of rdy_queue    *)
(* and finishes it.                                                        *)
LEMMA DrainStepFinishes ==
    ASSUME NEW y, NEW S, y[1].rdy \in Seq(S)
    PROVE  \/ DrainStep(y) = y
           \/ \E i \in 1..Len(y[1].rdy) :
                 DrainStep(y)[1] = Finish(EraseRdy(y[1], i), y[1].rdy[i])
<1> DEFINE t == y[1]
           I == {j \in 1..Len(t.rdy) : t.parents[t.rdy[j]][1] = y[2]}
           i == SelectInSeq(t.rdy, LAMBDA x : t.parents[x][1] = y[2])
           n == <<Finish(EraseRdy(t, i), t.rdy[i]), t.rdy[i]>>
<1>1. i = 0 \/ i \in 1..Len(t.rdy)
  <2>1. i = IF I # {} THEN Min(I) ELSE 0
    BY DEF SelectInSeq
  <2>2. I \in SUBSET Nat /\ I \subseteq 1..Len(t.rdy)
    BY LenProperties
  <2> HIDE DEF I, i
  <2>3. I # {} => Min(I) \in I
    BY <2>2, LeastNumber DEF Min
  <2> QED BY <2>1, <2>2, <2>3
<1>2. DrainStep(y) = IF i = 0 \/ t.failed # "no" THEN y ELSE n
  BY Zenon DEF DrainStep
<1>3. n[1] = Finish(EraseRdy(t, i), t.rdy[i])
  OBVIOUS
<1> HIDE DEF n, i
<1> QED BY <1>1, <1>2, <1>3

(* Draining rdy_queue announces whatever it takes out.                     *)
LEMMA DrainRdyGood ==
    ASSUME NEW s, NEW v, NEW b, Good(s, v, {})
    PROVE  Good(DrainRdy(s, b), v, {})
<1> DEFINE M == Len(s.rdy)
           a == <<s, b>>
<1>1. M \in Nat
  BY LenProperties DEF Good, Typed
<1>2. PICK go : DrainLoop(go, M, a) /\ DrainRdy(s, b) = go[M][1]
  BY <1>1, DrainRdyRuns
<1>3. ASSUME NEW y, Good(y[1], v, {}) PROVE Good(DrainStep(y)[1], v, {})
  <2>1. y[1].rdy \in Seq(1..y[1].n)
    BY <1>3 DEF Good, Typed
  <2>2. ASSUME NEW i \in 1..Len(y[1].rdy)
        PROVE  Good(Finish(EraseRdy(y[1], i), y[1].rdy[i]), v, {})
    <3> DEFINE t == y[1]
    <3>1. Good(t, v, {}) /\ i \in 1..Len(t.rdy)
      BY <1>3
    <3> HIDE DEF t
    <3>2. /\ Good(EraseRdy(t, i), v, {t.rdy[i]})
          /\ t.rdy[i] \in 1..(EraseRdy(t, i)).n
          /\ Complete(EraseRdy(t, i), t.rdy[i])
      BY <3>1, EraseRdyGood
    <3>3. Good(Finish(EraseRdy(t, i), t.rdy[i]), v, {})
      BY <3>2, FinishGood
    <3> QED BY <3>3 DEF t
  <2>3. \/ DrainStep(y) = y
        \/ \E i \in 1..Len(y[1].rdy) :
              DrainStep(y)[1] = Finish(EraseRdy(y[1], i), y[1].rdy[i])
    BY <2>1, DrainStepFinishes
  <2> QED BY <1>3, <2>2, <2>3
<1> DEFINE S == {k \in 0..M : ~ Good(go[k][1], v, {})}
<1>4. S = {}
  <2> SUFFICES ASSUME S # {} PROVE FALSE
    OBVIOUS
  <2>1. PICK m \in S : \A k \in S : m <= k
    <3>1. S \in SUBSET Nat
      OBVIOUS
    <3> HIDE DEF S
    <3> QED BY <3>1, LeastNumber
  <2> HIDE DEF M
  <2>2. m # 0
    <3>1. 0 \in 0..M /\ go[0] = a
      BY <1>1, <1>2 DEF DrainLoop
    <3> QED BY <2>1, <3>1
  <2>3. m \in 0..M /\ m - 1 \in 0..M /\ m - 1 \notin S
    BY <1>1, <2>1, <2>2
  <2>4. Good(go[m - 1][1], v, {})
    BY <2>3
  <2>5. go[m] = DrainStep(go[m - 1])
    BY <1>2, <2>2, <2>3 DEF DrainLoop
  <2> QED BY <1>3, <2>1, <2>4, <2>5
<1>5. M \in 0..M
  BY <1>1
<1> QED BY <1>2, <1>4, <1>5

(* Popping the front of piped_queue.                                       *)
LEMMA PopGood ==
    ASSUME NEW s, NEW v, NEW due, Good(s, v, due), s.piped # <<>>
    PROVE  Good([s EXCEPT !.piped = Tail(@)], v, due)
<1> DEFINE t == [s EXCEPT !.piped = Tail(@)]
<1>1. /\ DOMAIN t = Fields /\ t.piped = Tail(s.piped)
      /\ t.n = s.n /\ t.cert = s.cert /\ t.finished = s.finished /\ t.rdy = s.rdy
      /\ t.delivered = s.delivered /\ t.last_proposed = s.last_proposed
      /\ t.qc_waiting = s.qc_waiting /\ t.failed = s.failed
  BY DEF Good, Typed, Fields
<1>2. t.piped \in Seq(1..s.n) /\ Range(t.piped) \subseteq Range(s.piped)
  <2> DEFINE q == s.piped
             l == Len(q)
             r == Tail(q)
  <2>1. q \in Seq(1..s.n) /\ q # <<>>
    BY DEF Good, Typed
  <2> HIDE DEF q
  <2>2. /\ r \in Seq(1..s.n) /\ Len(r) = l - 1
        /\ \A k \in 1..Len(r) : r[k] = q[k + 1]
    BY <2>1, HeadTailProperties
  <2>3. l \in Nat /\ DOMAIN q = 1..l /\ DOMAIN r = 1..Len(r)
    BY <2>1, <2>2, LenProperties
  <2> HIDE DEF l, r
  <2>4. ASSUME NEW k \in DOMAIN r PROVE r[k] \in Range(q)
    <3>1. k \in 1..Len(r) /\ k + 1 \in 1..l
      BY <2>2, <2>3
    <3> QED BY <2>2, <2>3, <3>1 DEF Range
  <2>5. Range(r) \subseteq Range(q)
    BY <2>4 DEF Range
  <2> QED BY <1>1, <2>2, <2>5 DEF q, r
<1> HIDE DEF t
<1>3. Typed(t)
  BY <1>1, <1>2 DEF Good, Typed
<1>4. \A b : Complete(t, b) <=> Complete(s, b)
  BY <1>1 DEF Complete
<1>5. Announced(t, due)
  BY <1>1, <1>4 DEF Good, Announced
<1>6. Untouched(t, v)
  BY <1>1, <1>2 DEF Good, Untouched
<1>7. Good(t, v, due)
  BY <1>3, <1>5, <1>6 DEF Good
<1> QED BY <1>7 DEF t

(* The proposer announces a QC that a relay completes, or puts the block   *)
(* into rdy_queue.                                                         *)
LEMMA QcCompleteGood ==
    ASSUME NEW s, NEW v, NEW b, Good(s, v, {b}), b \in 1..s.n, Complete(s, b)
    PROVE  Good(QcComplete(s, b), v, {})
<1>1. CASE s.piped # <<>> /\ b = Head(s.piped)
  <2> DEFINE t == [s EXCEPT !.piped = Tail(@)]
  <2>1. Good(t, v, {b})
    BY <1>1, PopGood
  <2>2. t.n = s.n /\ t.cert = s.cert
    BY DEF Good, Typed, Fields
  <2>3. QcComplete(s, b) = DrainRdy(Finish(t, b), b)
    BY <1>1, Zenon DEF QcComplete
  <2> HIDE DEF t
  <2>4. Good(Finish(t, b), v, {})
    BY <2>1, <2>2, FinishGood DEF Complete
  <2> QED BY <2>3, <2>4, DrainRdyGood
<1>2. CASE ~ (s.piped # <<>> /\ b = Head(s.piped)) /\ Piped(s, b)
  <2> DEFINE t == [s EXCEPT !.rdy = Append(@, b)]
  <2>1. QcComplete(s, b) = t
    BY <1>2, Zenon DEF QcComplete
  <2>2. /\ DOMAIN t = Fields /\ t.rdy = Append(s.rdy, b)
        /\ t.n = s.n /\ t.cert = s.cert /\ t.finished = s.finished
        /\ t.piped = s.piped /\ t.delivered = s.delivered
        /\ t.last_proposed = s.last_proposed
        /\ t.qc_waiting = s.qc_waiting /\ t.failed = s.failed
    BY DEF Good, Typed, Fields
  <2>3. t.rdy \in Seq(1..s.n) /\ Range(t.rdy) = Range(s.rdy) \cup {b}
    BY <2>2 DEF Good, Typed, Range
  <2> HIDE DEF t
  <2>4. Typed(t)
    BY <2>2, <2>3 DEF Good, Typed
  <2>5. \A x : Complete(t, x) <=> Complete(s, x)
    BY <2>2 DEF Complete
  <2>6. Announced(t, {})
    BY <2>2, <2>3, <2>5 DEF Good, Announced
  <2>7. Untouched(t, v)
    BY <2>2 DEF Good, Untouched
  <2> QED BY <2>1, <2>4, <2>6, <2>7 DEF Good
<1>3. CASE ~ (s.piped # <<>> /\ b = Head(s.piped)) /\ ~ Piped(s, b)
  <2>1. QcComplete(s, b) = Finish(s, b)
    BY <1>3, Zenon DEF QcComplete
  <2> QED BY <2>1, FinishGood
<1> QED BY <1>1, <1>2, <1>3

(* The early return of vote_relay_handler loses no announcement.           *)
LEMMA LateRelayGood ==
    ASSUME NEW s, NEW v, NEW b, Good(s, v, {})
    PROVE  Good(LateRelay(s, b), v, {})
<1> DEFINE f == Fail(s, "pop from empty piped_queue")
           t == [s EXCEPT !.piped = Tail(@)]
<1>1. Good(f, v, {})
  <2>1. Same(s, f)
    BY FailKeeps DEF Good, Typed
  <2> HIDE DEF f
  <2> QED BY <2>1, SameGood
<1>2. s.piped # <<>> => Good(DrainRdy(t, b), v, {})
  <2>1. s.piped # <<>> => Good(t, v, {})
    BY PopGood
  <2> HIDE DEF t
  <2> QED BY <2>1, DrainRdyGood
<1> QED BY <1>1, <1>2, Zenon DEF LateRelay

-----------------------------------------------------------------------------
(* The invariant holds of the proposer that has genesis only.              *)
LEMMA InitInv == Init => Inv
<1> SUFFICES ASSUME Init PROVE Inv
  OBVIOUS
<1>1. /\ DOMAIN p = Fields /\ p.n = 0 /\ p.last_proposed = 0
      /\ p.cert = [b \in Blocks |-> {}] /\ p.piped = <<>> /\ p.rdy = <<>>
      /\ p.finished = {0} /\ p.qc_waiting = {}
  BY DEF Init, Fields
<1>2. 0 \in Blocks /\ verifying = {} /\ 1..0 = {} /\ Range(<<>>) = {}
  BY PipelineAssumption DEF Init, Blocks, Range
<1>3. Typed(p)
  BY <1>1, <1>2 DEF Typed
<1>4. Announced(p, {})
  BY <1>1, <1>2 DEF Announced, Complete
<1>5. Untouched(p, verifying)
  BY <1>1, <1>2 DEF Untouched
<1> QED BY <1>3, <1>4, <1>5 DEF Inv, Good

(* schedule_next lets a beat wait only for a QC that is not complete.      *)
LEMMA BeatKeeps ==
    ASSUME Inv, Beat
    PROVE  Inv'
<1> DEFINE q == [p EXCEPT !.pending = @ + 1]
           a == [q EXCEPT !.pending = @ - 1]
           r == ScheduleNext(q)
           t == [r EXCEPT !.pending = IF @ > MaxPending THEN MaxPending ELSE @]
<1>1. p' = t /\ verifying' = verifying
  BY DEF Beat, AfterBeat
<1>2. DOMAIN p = Fields
  BY DEF Inv, Good, Typed
<1>3. Same(p, q)
  BY <1>2 DEF Same, Fields
<1>4. Good(q, verifying, {})
  <2> HIDE DEF q
  <2> QED BY <1>3, SameGood DEF Inv
<1>5. ASSUME NEW y, Same(q, y) PROVE Good(y, verifying, {}) /\ Good(BeatBody(y), verifying, {})
  <2> HIDE DEF q
  <2>1. Good(y, verifying, {})
    BY <1>4, <1>5, SameGood
  <2> QED BY <2>1, BeatBodyKeeps, ProposedGood DEF Good, Typed
<1>6. DOMAIN q = Fields
  BY <1>3 DEF Same
<1>7. Good(r, verifying, {})
  <2> DEFINE x == [a EXCEPT !.piped_submitted = TRUE]
             l == [a EXCEPT !.locked = TRUE]
             w == [a EXCEPT !.locked = TRUE,
                            !.qc_waiting = @ \cup {q.last_proposed}]
  <2> HIDE DEF q
  <2>1. Same(q, x) /\ Same(q, l) /\ Same(q, q)
    BY <1>6 DEF Same, Fields
  <2>2. ASSUME ~ Complete(q, q.last_proposed) PROVE Good(w, verifying, {})
    <3>1. /\ DOMAIN w = Fields /\ w.qc_waiting = q.qc_waiting \cup {q.last_proposed}
          /\ w.n = q.n /\ w.cert = q.cert /\ w.finished = q.finished
          /\ w.rdy = q.rdy /\ w.piped = q.piped /\ w.delivered = q.delivered
          /\ w.last_proposed = q.last_proposed /\ w.failed = q.failed
      BY <1>6 DEF Fields
    <3> HIDE DEF w
    <3>2. \A b : Complete(w, b) <=> Complete(q, b)
      BY <3>1 DEF Complete
    <3>3. Typed(w)
      BY <1>4, <3>1 DEF Good, Typed
    <3>4. Announced(w, {})
      BY <1>4, <2>2, <3>1, <3>2 DEF Good, Announced
    <3>5. Untouched(w, verifying)
      BY <1>4, <3>1 DEF Good, Untouched
    <3> QED BY <3>3, <3>4, <3>5 DEF Good
  <2>3. \/ r \in {q, BeatBody(x), BeatBody(l)}
        \/ r = w /\ ~ Complete(q, q.last_proposed)
    BY Zenon DEF ScheduleNext
  <2>4. Good(q, verifying, {}) /\ Good(BeatBody(x), verifying, {})
        /\ Good(BeatBody(l), verifying, {})
    <3> HIDE DEF x, l
    <3> QED BY <1>5, <2>1
  <2> HIDE DEF r, x, l, w
  <2> QED BY <2>2, <2>3, <2>4
<1> HIDE DEF r
<1>8. Same(r, t)
  BY <1>7 DEF Same, Good, Typed, Fields
<1> HIDE DEF t
<1>9. Good(t, verifying, {})
  BY <1>7, <1>8, SameGood
<1> QED BY <1>1, <1>9 DEF Inv

(* The clock touches no queue.                                             *)
LEMMA LatencyElapsesKeeps ==
    ASSUME Inv, LatencyElapses
    PROVE  Inv'
<1> DEFINE t == [p EXCEPT !.recent = FALSE]
<1>1. p' = t /\ verifying' = verifying
  BY DEF LatencyElapses
<1>2. Same(p, t)
  BY DEF Inv, Good, Typed, Same, Fields
<1> HIDE DEF t
<1>3. Good(t, verifying, {})
  BY <1>2, SameGood DEF Inv
<1> QED BY <1>1, <1>3 DEF Inv

(* The first message for a pipelined block makes it the current proposal,  *)
(* and the next beat waits for its QC: no vote of it can be counted yet.   *)
LEMMA ProcessedGood ==
    ASSUME NEW s, NEW t, NEW v, NEW b \in 1..s.n, NEW c,
           Good(s, v, {}), s.failed = "no", b \in Range(s.piped) \ s.delivered,
           Processed(s, t, b)
    PROVE  Good(t, v, {}) /\ Good(t, v \cup {<<c, b>>}, {})
<1>1. s.cert[b] = {} /\ \A m \in v : m[2] # b
  BY DEF Good, Untouched
<1>2. s.n \in Nat /\ b # 0 /\ b \in 0..s.n
  BY PipelineAssumption DEF Good, Typed, Blocks
<1>3. ~ Complete(s, b)
  BY <1>1, <1>2, NotComplete
<1>4. b \notin s.finished
  BY <1>3 DEF Good, Announced
<1>5. \A x : Complete(t, x) <=> Complete(s, x)
  BY DEF Processed, Complete
<1>6. Typed(t)
  BY <1>2 DEF Good, Typed, Processed
<1>7. Announced(t, {})
  <2>1. t.qc_waiting \cap t.finished = {}
    BY <1>4 DEF Good, Announced, Processed
  <2> QED BY <1>5, <2>1 DEF Good, Announced, Processed
<1>8. Untouched(t, v)
  BY DEF Good, Untouched, Processed
<1>9. Untouched(t, v \cup {<<c, b>>})
  <2>1. <<c, b>>[2] = b /\ b \in 1..t.n
    BY DEF Processed
  <2>2. t.failed = "no" => \A x \in Range(t.piped) \ t.delivered : x # b
    BY DEF Processed
  <2> QED BY <1>8, <2>1, <2>2 DEF Untouched
<1> QED BY <1>6, <1>7, <1>8, <1>9 DEF Good

(* The first half of a vote handler keeps the invariant.                   *)
LEMMA ArriveKeeps ==
    ASSUME Inv, NEW c \in Children, NEW b \in Blocks, Arrive(c, b)
    PROVE  Inv'
<1> DEFINE more == verifying \cup {<<c, b>>}
           d == ProcessBlock(p, b, FALSE)
           s == IF Piped(p, b) /\ b \notin p.delivered THEN d ELSE p
<1>1. /\ p.failed = "no" /\ b \in 1..p.n
      /\ IF s.failed = "no" /\ Complete(s, b)
         THEN /\ p' = IF c \in Leaf THEN s ELSE LateRelay(s, b)
              /\ UNCHANGED verifying
         ELSE p' = s /\ verifying' = more
  BY Zenon DEF Arrive
<1>2. Good(s, verifying, {}) /\ Good(s, more, {})
  <2>1. CASE Piped(p, b) /\ b \notin p.delivered
    <3>1. Processed(p, d, b)
      BY ProcessBlockKeeps DEF Inv, Good, Typed
    <3> HIDE DEF d
    <3>2. Good(d, verifying, {}) /\ Good(d, more, {})
      BY <1>1, <2>1, <3>1, ProcessedGood DEF Inv, Piped
    <3> QED BY <2>1, <3>2
  <2>2. CASE ~ (Piped(p, b) /\ b \notin p.delivered)
    <3>1. Good(p, verifying, {})
      BY DEF Inv
    <3>2. <<c, b>>[2] = b /\ \A x \in Range(p.piped) \ p.delivered : x # b
      BY <2>2 DEF Piped
    <3>3. Untouched(p, more)
      BY <1>1, <3>1, <3>2 DEF Good, Untouched
    <3>4. Good(p, more, {})
      BY <3>1, <3>3 DEF Good
    <3> QED BY <2>2, <3>1, <3>4
  <2> QED BY <2>1, <2>2
<1> HIDE DEF s, more
<1>3. Good(LateRelay(s, b), verifying, {})
  BY <1>2, LateRelayGood
<1>4. \/ p' \in {s, LateRelay(s, b)} /\ verifying' = verifying
      \/ p' = s /\ verifying' = more
  BY <1>1
<1> QED BY <1>2, <1>3, <1>4 DEF Inv

(* The continuation of a vote handler announces the QC that its part       *)
(* completes, or puts the block into rdy_queue.                            *)
LEMMA VerifiedKeeps ==
    ASSUME Inv, NEW c \in Children, NEW b \in Blocks, Verified(c, b)
    PROVE  Inv'
<1> DEFINE s == [p EXCEPT !.cert[b] = @ \cup {c}]
           less == verifying \ {<<c, b>>}
<1>1. /\ p.failed = "no" /\ <<c, b>> \in verifying /\ verifying' = less
      /\ p' = IF c \in Leaf
              THEN IF Complete(s, b) THEN Finish(s, b) ELSE s
              ELSE IF Complete(p, b) THEN p
              ELSE IF Complete(s, b) THEN QcComplete(s, b)
              ELSE s
  BY Zenon DEF Verified
<1>2. Good(p, verifying, {}) /\ DOMAIN p = Fields /\ p.cert \in [Blocks -> SUBSET Children]
  BY DEF Inv, Good, Typed
<1>3. /\ DOMAIN s = Fields /\ s.cert = [p.cert EXCEPT ![b] = @ \cup {c}]
      /\ s.n = p.n /\ s.finished = p.finished /\ s.rdy = p.rdy
      /\ s.piped = p.piped /\ s.delivered = p.delivered
      /\ s.last_proposed = p.last_proposed /\ s.qc_waiting = p.qc_waiting
      /\ s.failed = p.failed
  BY <1>2 DEF Fields
<1> HIDE DEF s
<1>4. <<c, b>>[2] = b /\ b \in 1..p.n /\ b \notin Range(p.piped) \ p.delivered
  BY <1>1, <1>2 DEF Good, Untouched
<1>5. /\ s.cert \in [Blocks -> SUBSET Children]
      /\ s.cert[b] = p.cert[b] \cup {c}
      /\ \A x \in Blocks : x # b => s.cert[x] = p.cert[x]
  BY <1>2, <1>3
<1>6. ASSUME NEW x \in Blocks PROVE /\ Complete(p, x) => Complete(s, x)
                                    /\ x # b => (Complete(s, x) => Complete(p, x))
  <2>1. CASE x # b
    BY <1>5, <2>1 DEF Complete
  <2>2. CASE x = b
    <3>1. IsFiniteSet(s.cert[b])
      BY <1>5, PipelineAssumption, FS_Subset
    <3>2. /\ Cardinality(p.cert[b]) <= Cardinality(s.cert[b])
          /\ Cardinality(p.cert[b]) \in Nat /\ Cardinality(s.cert[b]) \in Nat
      BY <1>5, <3>1, FS_Subset, FS_CardinalityType
    <3>3. Need \in Nat
      <4>1. Cardinality(Children) \in Nat
        BY PipelineAssumption, FS_CardinalityType
      <4> QED BY <4>1, PipelineAssumption
    <3> DEFINE m == Cardinality(p.cert[b])
               k == Cardinality(s.cert[b])
    <3>4. m >= Need => k >= Need
      <4> HIDE DEF m, k
      <4>1. m <= k /\ m \in Nat /\ k \in Nat
        BY <3>2 DEF m, k
      <4> QED BY <3>3, <4>1
    <3> QED BY <2>2, <3>4 DEF Complete
  <2> QED BY <2>1, <2>2
<1>7. Typed(s)
  BY <1>2, <1>3, <1>5 DEF Good, Typed
<1>8. 0..p.n \subseteq Blocks /\ 1..p.n \subseteq Blocks /\ p.n \in Nat
  BY <1>2, PipelineAssumption DEF Good, Typed, Blocks
<1>9. Announced(s, {b})
  <2>1. Range(p.rdy) \subseteq 1..p.n
    BY <1>2, RangeOfSeq DEF Good, Typed
  <2>2. Announced(p, {})
    BY <1>2 DEF Good
  <2>3. \A x \in s.finished : x \in 0..s.n /\ Complete(s, x)
    BY <1>3, <1>6, <1>8, <2>2 DEF Announced
  <2>4. \A x \in Range(s.rdy) : Complete(s, x)
    BY <1>3, <1>6, <1>8, <2>1, <2>2 DEF Announced
  <2>5. \A x \in 1..s.n : Complete(s, x) => x \in s.finished \cup Range(s.rdy) \cup {b}
    BY <1>3, <1>6, <1>8, <2>2 DEF Announced
  <2>6. s.qc_waiting \cap s.finished = {}
    BY <1>3, <2>2 DEF Announced
  <2> QED BY <2>3, <2>4, <2>5, <2>6 DEF Announced
<1>10. Untouched(s, less)
  <2>1. b \in 0..p.n /\ ~ (b > p.n)
    BY <1>4, <1>8
  <2>2. \A x \in Blocks : x > s.n => s.cert[x] = {}
    BY <1>2, <1>3, <1>5, <2>1 DEF Good, Untouched
  <2>3. ASSUME NEW x \in Range(s.piped) \ s.delivered
        PROVE  s.cert[x] = {} /\ \A m \in less : m[2] # x
    <3>1. x # b /\ x \in Range(p.piped) \ p.delivered
      BY <1>3, <1>4, <2>3
    <3>2. p.cert[x] = {} /\ \A m \in verifying : m[2] # x
      BY <1>1, <1>2, <3>1 DEF Good, Untouched
    <3>3. x \in Blocks
      <4>1. Range(p.piped) \subseteq 1..p.n
        BY <1>2, RangeOfSeq DEF Good, Typed
      <4> QED BY <1>8, <3>1, <4>1
    <3> QED BY <1>5, <3>1, <3>2, <3>3
  <2>4. \A m \in less : m[2] \in 1..s.n
    BY <1>2, <1>3 DEF Good, Untouched
  <2> QED BY <2>2, <2>3, <2>4 DEF Untouched
<1>11. Good(s, less, {b})
  BY <1>7, <1>9, <1>10 DEF Good
<1>12. Untouched(p, less)
  BY <1>2 DEF Good, Untouched
<1>13. Good(p, less, {})
  BY <1>2, <1>12 DEF Good
<1>14. ~ Complete(s, b) => Good(s, less, {})
  BY <1>11 DEF Good, Announced
<1>15. Complete(s, b) => Good(Finish(s, b), less, {}) /\ Good(QcComplete(s, b), less, {})
  BY <1>3, <1>4, <1>11, FinishGood, QcCompleteGood
<1>16. Good(p', less, {})
  <2> HIDE DEF less
  <2> QED BY <1>1, <1>13, <1>14, <1>15
<1> QED BY <1>1, <1>16 DEF Inv

(* The invariant of the proposer's queues and waiting beats holds          *)
(* throughout.                                                             *)
THEOREM PipelineInvariance == Spec => []Inv
<1>1. Inv /\ [Next]_vars => Inv'
  <2> SUFFICES ASSUME Inv, [Next]_vars PROVE Inv'
    OBVIOUS
  <2>1. CASE UNCHANGED vars
    BY <2>1 DEF vars, Inv, Good, Typed, Announced, Untouched, Complete
  <2>2. CASE Handle
    BY <2>2, ArriveKeeps, VerifiedKeeps DEF Handle
  <2> QED BY <2>1, <2>2, BeatKeeps, LatencyElapsesKeeps DEF Next
<1> QED BY <1>1, InitInv, PTL DEF Spec

(* No wake-up is lost, for every tree below the root, every quorum, every  *)
(* pipeline depth, every number of blocks and every order of the messages: *)
(* schedule_next never makes a beat wait for a QC that on_qc_finish has    *)
(* announced, and a QC that is complete has been announced or its block is *)
(* in rdy_queue.                                                           *)
THEOREM WakeupsAreNotLost == Spec => []NoLostWakeup
<1>1. Inv => NoLostWakeup
  BY DEF Inv, Good, Announced, NoLostWakeup
<1> QED BY <1>1, PipelineInvariance, PTL

-----------------------------------------------------------------------------
(* What the blocks look like: parents are older, heights are numbers.      *)
Shape(s) ==
    /\ DOMAIN s = Fields
    /\ s.n \in Blocks
    /\ s.piped \in Seq(1..s.n) /\ s.rdy \in Seq(1..s.n)
    /\ DOMAIN s.parents = Blocks /\ DOMAIN s.height = Blocks
    /\ DOMAIN s.qc_ref = Blocks
    /\ \A b \in 0..s.n : s.height[b] \in 0..s.n
    /\ \A b \in 1..s.n : Range(s.parents[b]) \subseteq 0..(b - 1)

(* What is delivered: all that is neither in piped_queue nor due, and all  *)
(* that the proposer holds on to.                                          *)
Held(s, due) ==
    /\ s.delivered \subseteq 0..s.n
    /\ 0..s.n \subseteq s.delivered \cup Range(s.piped) \cup due
    /\ {0, s.hqc, s.tail, s.last_proposed} \cup s.tails \cup Range(s.rdy) \subseteq s.delivered
    /\ \A b \in 1..s.n : s.qc_ref[b] \in s.delivered
    /\ s.failed # "parent not delivered"

Linked(s, due) == Shape(s) /\ Held(s, due)

(* Among finitely many blocks one is highest.                              *)
LEMMA HighestExists ==
    ASSUME NEW n \in Nat, NEW A, A \subseteq 0..n, A # {}, NEW h,
           \A b \in 0..n : h[b] \in 0..n
    PROVE  \E t \in A : \A u \in A : h[u] <= h[t]
<1> DEFINE S == {k \in 0..n : \E t \in A : k = n - h[t]}
<1>1. PICK a \in A : TRUE
  OBVIOUS
<1>2. ASSUME NEW t \in A PROVE n - h[t] \in S /\ h[t] \in 0..n
  <2>1. h[t] \in 0..n
    OBVIOUS
  <2> QED BY <2>1
<1>3. S # {} /\ S \in SUBSET Nat
  BY <1>1, <1>2
<1>4. PICK m \in S : \A k \in S : m <= k
  <2> HIDE DEF S
  <2> QED BY <1>3, LeastNumber
<1>5. PICK t \in A : m = n - h[t]
  BY <1>4
<1>6. ASSUME NEW u \in A PROVE h[u] <= h[t]
  <2>1. m <= n - h[u]
    BY <1>2, <1>4
  <2>2. h[u] \in 0..n /\ h[t] \in 0..n
    BY <1>2
  <2> QED BY <1>5, <2>1, <2>2
<1> QED BY <1>6

(* Max and Min of finitely many numbers are among them.                    *)
LEMMA MaxMinAmong ==
    ASSUME NEW n \in Nat, NEW A, A \subseteq 0..n, A # {}
    PROVE  Max(A) \in A /\ Min(A) \in A
<1> DEFINE h == [b \in 0..n |-> b]
<1>1. \A b \in 0..n : h[b] \in 0..n
  OBVIOUS
<1>2. \E t \in A : \A u \in A : h[u] <= h[t]
  <2> HIDE DEF h
  <2> QED BY <1>1, HighestExists
<1>3. \E t \in A : \A u \in A : u <= t
  BY <1>2
<1>4. \E t \in A : \A u \in A : t >= u
  BY <1>3
<1>5. \E t \in A : \A u \in A : t <= u
  <2>1. A \in SUBSET Nat
    OBVIOUS
  <2> QED BY <2>1, LeastNumber
<1> QED BY <1>4, <1>5 DEF Max, Min

(* What depends on nothing else: the fields that Linked looks at.          *)
Keeps(s, t) ==
    /\ DOMAIN t = Fields
    /\ t.n = s.n /\ t.parents = s.parents /\ t.height = s.height
    /\ t.qc_ref = s.qc_ref /\ t.piped = s.piped /\ t.rdy = s.rdy
    /\ t.delivered = s.delivered /\ t.hqc = s.hqc /\ t.tail = s.tail
    /\ t.tails = s.tails /\ t.last_proposed = s.last_proposed
    /\ t.failed # "parent not delivered"

(* Steps that touch none of these fields.                                  *)
LEMMA KeepsLinked ==
    ASSUME NEW s, NEW t, NEW due, Linked(s, due), Keeps(s, t)
    PROVE  Linked(t, due)
<1>1. Shape(t)
  BY DEF Linked, Keeps, Shape
<1>2. Held(t, due)
  BY DEF Linked, Keeps, Held
<1> QED BY <1>1, <1>2 DEF Linked

(* update_hqc makes a delivered block the hqc and a delivered one the      *)
(* next parent.                                                            *)
LEMMA UpdateHqcLinked ==
    ASSUME NEW s, NEW due, NEW b \in s.delivered, Linked(s, due)
    PROVE  Linked(UpdateHqc(s, b), due)
<1> DEFINE above == {t \in s.tails : b \in s.branch[t] /\ s.height[t] > s.height[b]}
           highest == {t \in above : \A u \in above : s.height[u] <= s.height[t]}
           x == IF above = {} THEN b
                ELSE IF s.newest_first THEN Max(highest) ELSE Min(highest)
           r == [s EXCEPT !.hqc = b, !.tail = x]
<1>1. s.n \in Nat /\ s.tails \subseteq s.delivered /\ s.delivered \subseteq 0..s.n
  <2>1. s.n \in Nat
    BY PipelineAssumption DEF Linked, Shape, Blocks
  <2> QED BY <2>1 DEF Linked, Held
<1>2. x \in s.delivered
  <2>1. CASE above = {}
    BY <2>1
  <2>2. CASE above # {}
    <3>1. above \subseteq 0..s.n /\ above \subseteq s.delivered
      BY <1>1
    <3>2. \A c \in 0..s.n : s.height[c] \in 0..s.n
      BY DEF Linked, Shape
    <3>3. highest # {} /\ highest \subseteq above
      <4>1. \E t \in above : \A u \in above : s.height[u] <= s.height[t]
        <5> DEFINE h == s.height
                   n == s.n
        <5>1. n \in Nat /\ above \subseteq 0..n /\ \A c \in 0..n : h[c] \in 0..n
          BY <1>1, <3>1, <3>2
        <5>2. \E t \in above : \A u \in above : h[u] <= h[t]
          <6> HIDE DEF above, h, n
          <6> QED BY <2>2, <5>1, HighestExists
        <5> QED BY <5>2
      <4> QED BY <4>1
    <3> HIDE DEF highest, above
    <3>4. Max(highest) \in highest /\ Min(highest) \in highest
      BY <1>1, <3>1, <3>3, MaxMinAmong
    <3> QED BY <2>2, <3>1, <3>3, <3>4
  <2> QED BY <2>1, <2>2
<1>3. UpdateHqc(s, b) = IF s.height[b] <= s.height[s.hqc] THEN s ELSE r
  BY Zenon DEF UpdateHqc
<1> HIDE DEF x
<1>4. Linked(r, due)
  <2>1. /\ DOMAIN r = Fields
        /\ r.n = s.n /\ r.parents = s.parents /\ r.height = s.height
        /\ r.qc_ref = s.qc_ref /\ r.piped = s.piped /\ r.rdy = s.rdy
        /\ r.delivered = s.delivered /\ r.hqc = b /\ r.tail = x
        /\ r.tails = s.tails /\ r.last_proposed = s.last_proposed
        /\ r.failed = s.failed
    BY DEF Linked, Shape, Fields
  <2> HIDE DEF r
  <2>2. Shape(r)
    BY <2>1 DEF Linked, Shape
  <2>3. Held(r, due)
    BY <1>2, <2>1 DEF Linked, Held
  <2> QED BY <2>2, <2>3 DEF Linked
<1> QED BY <1>3, <1>4

(* The commit touches b_exec and the decisions.                            *)
LEMMA CommitLinked ==
    ASSUME NEW s, NEW b, NEW due, Linked(s, due)
    PROVE  Linked(Commit(s, b), due)
<1>1. CASE Commit(s, b) = s
  BY <1>1
<1>2. CASE Commit(s, b) = Fail(s, "safety breached")
  <2>1. Keeps(s, Fail(s, "safety breached"))
    BY DEF Keeps, Fail, Linked, Shape, Fields
  <2> QED BY <1>2, <2>1, KeepsLinked
<1>3. CASE \E x, y : Commit(s, b) = [s EXCEPT !.b_exec = x, !.decided = y]
  <2>1. PICK x, y : Commit(s, b) = [s EXCEPT !.b_exec = x, !.decided = y]
    BY <1>3
  <2>2. Keeps(s, [s EXCEPT !.b_exec = x, !.decided = y])
    BY DEF Keeps, Linked, Shape, Held, Fields
  <2> QED BY <2>1, <2>2, KeepsLinked
<1> QED BY <1>1, <1>2, <1>3 DEF Commit

(* on_deliver_blk finds the parents of b.                                  *)
LEMMA OnDeliverLinked ==
    ASSUME NEW s, NEW b, b \in 1..s.n, Linked(s, {b})
    PROVE  /\ Linked(OnDeliverBlk(s, b), {})
           /\ OnDeliverBlk(s, b).delivered = s.delivered \cup {b}
           /\ OnDeliverBlk(s, b).n = s.n
           /\ OnDeliverBlk(s, b).qc_ref = s.qc_ref
<1> DEFINE d == [s EXCEPT !.delivered = @ \cup {b},
                          !.tails = (@ \ Range(s.parents[b])) \cup {b}]
<1>1. s.n \in Nat
  BY PipelineAssumption DEF Linked, Shape, Blocks
<1>2. ASSUME NEW c \in Range(s.parents[b]) PROVE Piped(s, c) \/ c \in s.delivered
  <2>1. c \in 0..(b - 1)
    BY DEF Linked, Shape
  <2>2. c \in 0..s.n /\ c # b
    BY <1>1, <2>1
  <2> QED BY <2>2 DEF Linked, Held, Piped
<1>3. OnDeliverBlk(s, b) = d
  BY <1>2, Zenon DEF OnDeliverBlk
<1>4. /\ DOMAIN d = Fields
      /\ d.n = s.n /\ d.parents = s.parents /\ d.height = s.height
      /\ d.qc_ref = s.qc_ref /\ d.piped = s.piped /\ d.rdy = s.rdy
      /\ d.delivered = s.delivered \cup {b} /\ d.hqc = s.hqc /\ d.tail = s.tail
      /\ d.tails = (s.tails \ Range(s.parents[b])) \cup {b}
      /\ d.last_proposed = s.last_proposed /\ d.failed = s.failed
  BY DEF Linked, Shape, Fields
<1> HIDE DEF d
<1>5. Shape(d)
  BY <1>4 DEF Linked, Shape
<1>6. Held(d, {})
  <2>1. b \in 0..s.n
    BY <1>1
  <2> QED BY <1>4, <2>1 DEF Linked, Held
<1> QED BY <1>3, <1>4, <1>5, <1>6 DEF Linked

(* process_block for a block that is proposed: it does not throw about a   *)
(* parent, and what it makes hqc, parent or current proposal is delivered. *)
LEMMA ProcessBlockLinked ==
    ASSUME NEW s, NEW b, NEW adjustHeight, b \in 1..s.n, Linked(s, {b})
    PROVE  Linked(ProcessBlock(s, b, adjustHeight), {})
<1> DEFINE q == s.qc_ref[b]
           d == OnDeliverBlk(s, b)
           h == UpdateHqc(d, q)
           u == Commit(h, q)
           w == [u EXCEPT !.vheight = IF adjustHeight THEN u.height[b] ELSE @]
           o == OnPropose_(w, b)
           f == Fail(u, "new block should be higher than vheight")
           t == ProcessBlock(s, b, adjustHeight)
<1>1. Linked(d, {}) /\ d.delivered = s.delivered \cup {b} /\ DOMAIN d = Fields
  BY OnDeliverLinked DEF Linked, Shape
<1>2. q \in s.delivered
  BY DEF Linked, Held
<1> HIDE DEF d, q
<1>3. Linked(h, {}) /\ Same(d, h)
  BY <1>1, <1>2, UpdateHqcLinked, UpdateHqcKeeps
<1> HIDE DEF h
<1>4. Linked(u, {}) /\ Same(h, u)
  BY <1>3, CommitLinked, CommitKeeps DEF Linked, Shape
<1> HIDE DEF u
<1>5. b \in u.delivered /\ DOMAIN u = Fields
  BY <1>1, <1>3, <1>4 DEF Same
<1>6. Linked(f, {})
  <2>1. Keeps(u, f)
    BY <1>5 DEF Keeps, Fail, Fields
  <2> HIDE DEF f
  <2> QED BY <1>4, <2>1, KeepsLinked
<1>7. Linked(w, {}) /\ b \in w.delivered /\ DOMAIN w = Fields
  <2>1. Keeps(u, w)
    BY <1>4, <1>5 DEF Keeps, Fields, Linked, Held
  <2> HIDE DEF w
  <2> QED BY <1>4, <1>5, <2>1, KeepsLinked DEF Keeps
<1> HIDE DEF w
<1>8. Linked(o, {})
  <2>1. /\ DOMAIN o = Fields
        /\ o.n = w.n /\ o.parents = w.parents /\ o.height = w.height
        /\ o.qc_ref = w.qc_ref /\ o.piped = w.piped /\ o.rdy = w.rdy
        /\ o.delivered = w.delivered /\ o.hqc = w.hqc /\ o.tail = b
        /\ o.tails = w.tails /\ o.last_proposed = b /\ o.failed = w.failed
    BY <1>7 DEF OnPropose_, Fields
  <2> HIDE DEF o
  <2>2. Shape(o)
    BY <1>7, <2>1 DEF Linked, Shape
  <2>3. Held(o, {})
    BY <1>7, <2>1 DEF Linked, Held
  <2> QED BY <2>2, <2>3 DEF Linked
<1>9. t \in {d, u, f, o}
  BY Zenon DEF ProcessBlock, d, h, u, w, q
<1> HIDE DEF t, o, f
<1>10. Linked(t, {})
  BY <1>1, <1>4, <1>6, <1>8, <1>9
<1> QED BY <1>10 DEF t

(* A new block on older ones is neither delivered nor in piped_queue yet.  *)
LEMMA NewBlockLinked ==
    ASSUME NEW s, NEW ps, Linked(s, {}), s.n + 1 <= MaxBlocks,
           ps[1] \in 0..s.n, Range(ps) \subseteq 0..s.n
    PROVE  /\ Linked(NewBlock(s, ps), {s.n + 1})
           /\ NewBlock(s, ps).n = s.n + 1
           /\ NewBlock(s, ps).piped = s.piped
<1> DEFINE b == s.n + 1
           t == NewBlock(s, ps)
<1>1. s.n \in Nat /\ MaxBlocks \in Nat /\ b \in Blocks /\ b \in Nat /\ 0..s.n \subseteq Blocks
  BY PipelineAssumption DEF Linked, Shape, Blocks
<1>2. /\ DOMAIN t = Fields /\ t.n = b
      /\ t.parents = [s.parents EXCEPT ![b] = ps]
      /\ t.height = [s.height EXCEPT ![b] = s.height[ps[1]] + 1]
      /\ t.qc_ref = [s.qc_ref EXCEPT ![b] = s.hqc]
      /\ t.piped = s.piped /\ t.rdy = s.rdy
      /\ t.delivered = s.delivered /\ t.hqc = s.hqc /\ t.tail = s.tail
      /\ t.tails = s.tails /\ t.last_proposed = s.last_proposed
      /\ t.failed = s.failed
  BY DEF Linked, Shape, NewBlock, Fields
<1> HIDE DEF t
<1>3. /\ 0..b = 0..s.n \cup {b} /\ 1..b = 1..s.n \cup {b} /\ b \notin 0..s.n
      /\ b - 1 = s.n /\ 1..s.n \subseteq 1..b /\ 1..s.n \subseteq 0..s.n
      /\ b \notin 1..s.n
  BY <1>1
<1> HIDE DEF b
<1>4. /\ DOMAIN t.parents = Blocks /\ DOMAIN t.height = Blocks /\ DOMAIN t.qc_ref = Blocks
      /\ t.parents[b] = ps /\ t.height[b] = s.height[ps[1]] + 1 /\ t.qc_ref[b] = s.hqc
      /\ \A x \in 0..s.n : /\ t.parents[x] = s.parents[x] /\ t.height[x] = s.height[x]
                           /\ t.qc_ref[x] = s.qc_ref[x]
  BY <1>1, <1>2, <1>3 DEF Linked, Shape
<1>5. Shape(t)
  <2>1. \A x \in 0..b : t.height[x] \in 0..b
    <3>1. s.height[ps[1]] \in 0..s.n
      BY DEF Linked, Shape
    <3>2. t.height[b] \in 0..b
      <4> DEFINE k == s.height[ps[1]]
      <4>1. k \in 0..s.n /\ t.height[b] = k + 1
        BY <1>4, <3>1
      <4> HIDE DEF k
      <4> QED BY <1>1, <4>1 DEF b
    <3>3. ASSUME NEW x \in 0..s.n PROVE t.height[x] \in 0..b
      <4>1. s.height[x] \in 0..s.n
        BY DEF Linked, Shape
      <4> QED BY <1>3, <1>4, <4>1
    <3> QED BY <1>3, <3>2, <3>3
  <2>2. \A x \in 1..b : Range(t.parents[x]) \subseteq 0..(x - 1)
    <3>1. Range(t.parents[b]) \subseteq 0..(b - 1)
      BY <1>3, <1>4
    <3>2. ASSUME NEW x \in 1..s.n PROVE Range(t.parents[x]) \subseteq 0..(x - 1)
      <4>1. Range(s.parents[x]) \subseteq 0..(x - 1)
        BY DEF Linked, Shape
      <4> QED BY <1>3, <1>4, <4>1
    <3> QED BY <1>3, <3>1, <3>2
  <2>3. t.piped \in Seq(1..b) /\ t.rdy \in Seq(1..b)
    BY <1>2, <1>3 DEF Linked, Shape
  <2> QED BY <1>1, <1>2, <1>4, <2>1, <2>2, <2>3 DEF Shape
<1>6. Held(t, {b})
  <2>1. s.hqc \in s.delivered /\ \A x \in 1..s.n : s.qc_ref[x] \in s.delivered
    BY DEF Linked, Held
  <2>2. \A x \in 1..b : t.qc_ref[x] \in t.delivered
    BY <1>2, <1>3, <1>4, <2>1
  <2> QED BY <1>2, <1>3, <2>2 DEF Linked, Held
<1>7. Linked(t, {b}) /\ t.n = b /\ t.piped = s.piped
  BY <1>2, <1>5, <1>6 DEF Linked
<1> QED BY <1>7 DEF b, t

(* on_propose delivers what it proposes.                                   *)
LEMMA OnProposeLinked ==
    ASSUME NEW s, Linked(s, {}), s.n + 1 <= MaxBlocks
    PROVE  Linked(OnPropose(s), {})
<1> DEFINE back == Last(s.piped)
           ps == IF s.piped # <<>> /\ s.height[s.tail] <= s.height[back]
                 THEN <<back, s.tail>> ELSE <<s.tail>>
           new == NewBlock(s, ps)
           m == [new EXCEPT !.b_normal_height = new.height[new.n]]
<1>1. s.n \in Nat /\ s.piped \in Seq(1..s.n) /\ s.tail \in 0..s.n
  <2>1. s.n \in Nat /\ s.piped \in Seq(1..s.n)
    BY PipelineAssumption DEF Linked, Shape, Blocks
  <2> QED BY <2>1 DEF Linked, Held
<1>2. s.piped # <<>> => back \in 0..s.n
  <2>1. s.piped # <<>> => Len(s.piped) \in 1..Len(s.piped)
    BY <1>1, LenProperties, EmptySeq
  <2>2. s.piped # <<>> => back \in 1..s.n
    BY <1>1, <2>1, LenProperties DEF Last
  <2> QED BY <1>1, <2>2
<1>3. ps[1] \in 0..s.n /\ Range(ps) \subseteq 0..s.n
  <2> HIDE DEF back
  <2>1. CASE s.piped # <<>> /\ s.height[s.tail] <= s.height[back]
    <3>1. ps = <<back, s.tail>>
      BY <2>1
    <3> QED BY <1>1, <1>2, <2>1, <3>1 DEF Range
  <2>2. CASE ~ (s.piped # <<>> /\ s.height[s.tail] <= s.height[back])
    <3>1. ps = <<s.tail>>
      BY <2>2
    <3> QED BY <1>1, <3>1 DEF Range
  <2> QED BY <2>1, <2>2
<1>4. OnPropose(s) = ProcessBlock(m, new.n, TRUE)
  BY Zenon DEF OnPropose
<1> HIDE DEF ps
<1>5. Linked(new, {new.n}) /\ new.n = s.n + 1
  BY <1>3, NewBlockLinked
<1> HIDE DEF new
<1>6. Linked(m, {new.n}) /\ m.n = new.n
  <2>1. Keeps(new, m)
    BY <1>5 DEF Keeps, Linked, Shape, Held, Fields
  <2> HIDE DEF m
  <2> QED BY <1>5, <2>1, KeepsLinked DEF Keeps
<1> HIDE DEF m
<1>7. new.n \in 1..m.n
  BY <1>1, <1>5, <1>6
<1> QED BY <1>4, <1>6, <1>7, ProcessBlockLinked

(* The pipelined branch of beat builds on a block that is proposed and     *)
(* puts the new one into piped_queue.                                      *)
LEMMA ProposePipedLinked ==
    ASSUME NEW s, Linked(s, {}), s.n + 1 <= MaxBlocks
    PROVE  Linked(ProposePiped(s), {})
<1> DEFINE current == s.last_proposed
           higher == {b \in Range(s.piped) : s.height[b] > s.height[current]}
           top == {b \in higher : \A c \in higher : s.height[c] <= s.height[b]}
           highest == IF higher = {} THEN current ELSE Min(top)
           ps == IF s.height[s.tail] < s.height[highest]
                 THEN <<highest, s.tail>> ELSE <<s.tail>>
           new == NewBlock(s, ps)
           t == [new EXCEPT !.piped = Append(@, new.n), !.stale_front = 0,
                            !.recent = TRUE, !.piped_submitted = FALSE]
<1>1. s.n \in Nat /\ s.piped \in Seq(1..s.n) /\ s.tail \in 0..s.n /\ s.last_proposed \in 0..s.n
  <2>1. s.n \in Nat /\ s.piped \in Seq(1..s.n)
    BY PipelineAssumption DEF Linked, Shape, Blocks
  <2> QED BY <2>1 DEF Linked, Held
<1>2. higher \subseteq 0..s.n
  <2>1. Range(s.piped) \subseteq 1..s.n
    BY <1>1, RangeOfSeq
  <2> QED BY <1>1, <2>1
<1>3. \A b \in 0..s.n : s.height[b] \in 0..s.n
  BY DEF Linked, Shape
<1>4. highest \in 0..s.n
  <2>1. CASE higher = {}
    BY <1>1, <2>1
  <2>2. CASE higher # {}
    <3>1. top # {} /\ top \subseteq higher
      <4> DEFINE h == s.height
                 n == s.n
      <4>1. n \in Nat /\ higher \subseteq 0..n /\ \A c \in 0..n : h[c] \in 0..n
        BY <1>1, <1>2, <1>3
      <4>2. \E a \in higher : \A b \in higher : h[b] <= h[a]
        <5> HIDE DEF higher, h, n
        <5> QED BY <2>2, <4>1, HighestExists
      <4> QED BY <4>2
    <3> HIDE DEF top, higher
    <3>2. Min(top) \in top
      BY <1>1, <1>2, <3>1, MaxMinAmong
    <3> QED BY <1>2, <2>2, <3>1, <3>2
  <2> QED BY <2>1, <2>2
<1>5. ps[1] \in 0..s.n /\ Range(ps) \subseteq 0..s.n
  <2>1. highest \in 0..s.n
    BY <1>4
  <2> HIDE DEF highest
  <2>2. CASE s.height[s.tail] < s.height[highest]
    <3>1. ps = <<highest, s.tail>>
      BY <2>2
    <3> QED BY <1>1, <2>1, <3>1 DEF Range
  <2>3. CASE ~ (s.height[s.tail] < s.height[highest])
    <3>1. ps = <<s.tail>>
      BY <2>3
    <3> QED BY <1>1, <3>1 DEF Range
  <2> QED BY <2>2, <2>3
<1>6. ProposePiped(s) = t
  BY Zenon DEF ProposePiped
<1> HIDE DEF ps
<1>7. Linked(new, {new.n}) /\ new.n = s.n + 1
  BY <1>5, NewBlockLinked
<1> HIDE DEF new
<1>8. /\ DOMAIN t = Fields
      /\ t.n = new.n /\ t.parents = new.parents /\ t.height = new.height
      /\ t.qc_ref = new.qc_ref /\ t.piped = Append(new.piped, new.n) /\ t.rdy = new.rdy
      /\ t.delivered = new.delivered /\ t.hqc = new.hqc /\ t.tail = new.tail
      /\ t.tails = new.tails /\ t.last_proposed = new.last_proposed
      /\ t.failed = new.failed
  BY <1>7 DEF Linked, Shape, Fields
<1> HIDE DEF t
<1>9. t.piped \in Seq(1..new.n) /\ Range(t.piped) = Range(new.piped) \cup {new.n}
  <2>1. new.n \in 1..new.n /\ new.piped \in Seq(1..new.n)
    BY <1>1, <1>7 DEF Linked, Shape
  <2>2. t.piped \in Seq(1..new.n) /\ Range(t.piped) \subseteq Range(new.piped) \cup {new.n}
    BY <1>8, <2>1 DEF Range
  <2>3. Range(new.piped) \cup {new.n} \subseteq Range(t.piped)
    <3> DEFINE q == new.piped
               e == Len(q)
               a == Append(q, new.n)
    <3>1. /\ e \in Nat /\ DOMAIN q = 1..e /\ DOMAIN a = 1..(e + 1)
          /\ a[e + 1] = new.n /\ \A k \in 1..e : a[k] = q[k]
      BY <2>1, LenProperties, AppendProperties
    <3> HIDE DEF e, a, q
    <3>2. e + 1 \in DOMAIN a /\ DOMAIN q \subseteq DOMAIN a
      BY <3>1
    <3>3. Range(q) \cup {new.n} \subseteq Range(a)
      BY <3>1, <3>2 DEF Range
    <3> QED BY <1>8, <3>3 DEF a, q
  <2> QED BY <2>2, <2>3
<1>10. Shape(t)
  BY <1>7, <1>8, <1>9 DEF Linked, Shape
<1>11. Held(t, {})
  BY <1>7, <1>8, <1>9 DEF Linked, Held
<1> QED BY <1>6, <1>10, <1>11 DEF Linked

(* The callback of a beat.                                                 *)
LEMMA BeatBodyLinked ==
    ASSUME NEW s, Linked(s, {})
    PROVE  Linked(BeatBody(s), {})
<1> DEFINE r == [s EXCEPT !.recent = TRUE]
<1>1. MaxBlocks \in Nat /\ s.n \in Nat /\ s.n <= MaxBlocks
  BY PipelineAssumption DEF Linked, Shape, Blocks
<1>2. Keeps(s, r) /\ r.n = s.n
  BY DEF Keeps, Linked, Shape, Held, Fields
<1> HIDE DEF r
<1>3. Linked(r, {})
  BY <1>2, KeepsLinked
<1>4. s.n # MaxBlocks => Linked(ProposePiped(s), {}) /\ Linked(OnPropose(r), {})
  BY <1>1, <1>2, <1>3, ProposePipedLinked, OnProposeLinked
<1>5. \/ BeatBody(s) = s
      \/ s.n # MaxBlocks /\ BeatBody(s) \in {ProposePiped(s), OnPropose(r)}
  BY Zenon DEF BeatBody, r
<1> QED BY <1>4, <1>5

(* update_hqc and on_qc_finish for a delivered block.                      *)
LEMMA FinishLinked ==
    ASSUME NEW s, NEW b \in s.delivered, Linked(s, {})
    PROVE  Linked(Finish(s, b), {})
<1> DEFINE f == [s EXCEPT !.finished = @ \cup {b}]
           u == UpdateHqc(f, b)
           w == [u EXCEPT !.qc_waiting = @ \ {b}]
<1>1. Keeps(s, f)
  BY DEF Keeps, Linked, Shape, Held, Fields
<1>2. Finish(s, b) = IF b \in u.qc_waiting THEN BeatBody(w) ELSE u
  BY Zenon DEF Finish
<1> HIDE DEF f
<1>3. Linked(f, {}) /\ b \in f.delivered
  BY <1>1, KeepsLinked DEF Keeps
<1>4. Linked(u, {})
  BY <1>3, UpdateHqcLinked
<1> HIDE DEF u
<1>5. Keeps(u, w)
  BY <1>4 DEF Keeps, Linked, Shape, Held, Fields
<1> HIDE DEF w
<1>6. Linked(BeatBody(w), {})
  BY <1>4, <1>5, KeepsLinked, BeatBodyLinked
<1> QED BY <1>2, <1>4, <1>6

(* What is taken out of piped_queue together with an element of rdy_queue, *)
(* be it the element itself or a neighbour, is delivered.                  *)
LEMMA EraseRdyLinked ==
    ASSUME NEW s, NEW i \in 1..Len(s.rdy), Linked(s, {})
    PROVE  Linked(EraseRdy(s, i), {}) /\ s.rdy[i] \in EraseRdy(s, i).delivered
<1> DEFINE len == Len(s.rdy)
           j == IF i - 1 < len \div 2
                THEN IF i = 1 THEN i ELSE i - 1
                ELSE IF i = len THEN i ELSE i + 1
           hash == IF i - 1 < len \div 2
                   THEN s.rdy[IF i = 1 THEN i ELSE i - 1]
                   ELSE s.rdy[IF i = len THEN i ELSE i + 1]
           e == [s EXCEPT !.rdy = RemoveAt(@, i), !.piped = RemoveFirst(@, hash),
                          !.stale_front = IF Len(s.piped) = 1 THEN hash ELSE 0]
           f == Fail(s, "erase at end of piped_queue")
           t == EraseRdy(s, i)
<1>1. /\ DOMAIN s = Fields /\ s.rdy \in Seq(1..s.n) /\ s.piped \in Seq(1..s.n)
      /\ Range(s.rdy) \subseteq s.delivered
  BY DEF Linked, Shape, Held
<1>2. len \in Nat /\ DOMAIN s.rdy = 1..len /\ i \in 1..len
  BY <1>1, LenProperties
<1>3. s.rdy[i] \in s.delivered
  BY <1>1, <1>2 DEF Range
<1>4. hash \in s.delivered
  <2>1. hash = s.rdy[j]
    BY Zenon
  <2>2. j \in 1..len
    <3> DEFINE half == len \div 2
    <3> HIDE DEF half, len
    <3> QED BY <1>2
  <2> HIDE DEF hash, j
  <2> QED BY <1>1, <1>2, <2>1, <2>2 DEF Range
<1>5. t = IF Piped(s, hash) THEN e ELSE f
  BY Zenon DEF EraseRdy
<1> HIDE DEF hash
<1>6. Piped(s, hash) => Linked(e, {}) /\ s.rdy[i] \in e.delivered
  <2> SUFFICES ASSUME Piped(s, hash) PROVE Linked(e, {}) /\ s.rdy[i] \in e.delivered
    OBVIOUS
  <2>1. /\ DOMAIN e = Fields
        /\ e.n = s.n /\ e.parents = s.parents /\ e.height = s.height
        /\ e.qc_ref = s.qc_ref /\ e.piped = RemoveFirst(s.piped, hash)
        /\ e.rdy = RemoveAt(s.rdy, i)
        /\ e.delivered = s.delivered /\ e.hqc = s.hqc /\ e.tail = s.tail
        /\ e.tails = s.tails /\ e.last_proposed = s.last_proposed
        /\ e.failed = s.failed
    BY <1>1 DEF Fields
  <2> HIDE DEF e
  <2>2. /\ e.piped \in Seq(1..s.n) /\ Range(s.piped) \subseteq Range(e.piped) \cup {hash}
    BY <1>1, <2>1, RemoveFirstFacts DEF Piped
  <2>3. e.rdy \in Seq(1..s.n) /\ Range(e.rdy) \subseteq Range(s.rdy)
    BY <1>1, <2>1, RemoveAtFacts
  <2>4. Shape(e)
    BY <2>1, <2>2, <2>3 DEF Linked, Shape
  <2>5. Held(e, {})
    BY <1>4, <2>1, <2>2, <2>3 DEF Linked, Held
  <2> QED BY <1>3, <2>1, <2>4, <2>5 DEF Linked
<1>7. Linked(f, {}) /\ s.rdy[i] \in f.delivered
  <2>1. Keeps(s, f)
    BY <1>1 DEF Keeps, Fail, Fields
  <2> HIDE DEF f
  <2> QED BY <1>3, <2>1, KeepsLinked DEF Keeps
<1>8. Linked(t, {}) /\ s.rdy[i] \in t.delivered
  <2> HIDE DEF t, e, f
  <2> QED BY <1>5, <1>6, <1>7
<1> QED BY <1>8 DEF t

(* Draining rdy_queue takes only delivered blocks out of piped_queue.      *)
LEMMA DrainRdyLinked ==
    ASSUME NEW s, NEW b, Linked(s, {})
    PROVE  Linked(DrainRdy(s, b), {})
<1> DEFINE M == Len(s.rdy)
           a == <<s, b>>
<1>1. M \in Nat
  BY LenProperties DEF Linked, Shape
<1>2. PICK go : DrainLoop(go, M, a) /\ DrainRdy(s, b) = go[M][1]
  BY <1>1, DrainRdyRuns
<1>3. ASSUME NEW y, Linked(y[1], {}) PROVE Linked(DrainStep(y)[1], {})
  <2>1. y[1].rdy \in Seq(1..y[1].n)
    BY <1>3 DEF Linked, Shape
  <2>2. ASSUME NEW i \in 1..Len(y[1].rdy)
        PROVE  Linked(Finish(EraseRdy(y[1], i), y[1].rdy[i]), {})
    <3> DEFINE t == y[1]
    <3>1. Linked(t, {}) /\ i \in 1..Len(t.rdy)
      BY <1>3
    <3> HIDE DEF t
    <3>2. Linked(EraseRdy(t, i), {}) /\ t.rdy[i] \in EraseRdy(t, i).delivered
      BY <3>1, EraseRdyLinked
    <3>3. Linked(Finish(EraseRdy(t, i), t.rdy[i]), {})
      BY <3>2, FinishLinked
    <3> QED BY <3>3 DEF t
  <2>3. \/ DrainStep(y) = y
        \/ \E i \in 1..Len(y[1].rdy) :
              DrainStep(y)[1] = Finish(EraseRdy(y[1], i), y[1].rdy[i])
    BY <2>1, DrainStepFinishes
  <2> QED BY <1>3, <2>2, <2>3
<1> DEFINE S == {k \in 0..M : ~ Linked(go[k][1], {})}
<1>4. S = {}
  <2> SUFFICES ASSUME S # {} PROVE FALSE
    OBVIOUS
  <2>1. PICK m \in S : \A k \in S : m <= k
    <3>1. S \in SUBSET Nat
      OBVIOUS
    <3> HIDE DEF S
    <3> QED BY <3>1, LeastNumber
  <2> HIDE DEF M
  <2>2. m # 0
    <3>1. 0 \in 0..M /\ go[0] = a
      BY <1>1, <1>2 DEF DrainLoop
    <3> QED BY <2>1, <3>1
  <2>3. m \in 0..M /\ m - 1 \in 0..M /\ m - 1 \notin S
    BY <1>1, <2>1, <2>2
  <2>4. Linked(go[m - 1][1], {})
    BY <2>3
  <2>5. go[m] = DrainStep(go[m - 1])
    BY <1>2, <2>2, <2>3 DEF DrainLoop
  <2> QED BY <1>3, <2>1, <2>4, <2>5
<1>5. M \in 0..M
  BY <1>1
<1> QED BY <1>2, <1>4, <1>5

(* Popping a delivered block from piped_queue.                             *)
LEMMA PopLinked ==
    ASSUME NEW s, Linked(s, {}), s.piped # <<>>, Head(s.piped) \in s.delivered
    PROVE  Linked([s EXCEPT !.piped = Tail(@)], {})
<1> DEFINE t == [s EXCEPT !.piped = Tail(@)]
<1>1. /\ DOMAIN t = Fields
      /\ t.n = s.n /\ t.parents = s.parents /\ t.height = s.height
      /\ t.qc_ref = s.qc_ref /\ t.piped = Tail(s.piped) /\ t.rdy = s.rdy
      /\ t.delivered = s.delivered /\ t.hqc = s.hqc /\ t.tail = s.tail
      /\ t.tails = s.tails /\ t.last_proposed = s.last_proposed
      /\ t.failed = s.failed
  BY DEF Linked, Shape, Fields
<1>2. t.piped \in Seq(1..s.n) /\ Range(s.piped) \subseteq Range(t.piped) \cup {Head(s.piped)}
  <2> DEFINE q == s.piped
             l == Len(q)
             r == Tail(q)
  <2>1. q \in Seq(1..s.n) /\ q # <<>>
    BY DEF Linked, Shape
  <2> HIDE DEF q
  <2>2. /\ r \in Seq(1..s.n) /\ Len(r) = l - 1 /\ Head(q) = q[1]
        /\ \A k \in 1..Len(r) : r[k] = q[k + 1]
    BY <2>1, HeadTailProperties
  <2>3. l \in Nat /\ DOMAIN q = 1..l /\ DOMAIN r = 1..Len(r)
    BY <2>1, <2>2, LenProperties
  <2> HIDE DEF l, r
  <2>4. ASSUME NEW k \in DOMAIN q PROVE q[k] \in Range(r) \cup {Head(q)}
    <3>1. CASE k = 1
      BY <2>2, <3>1
    <3>2. CASE k # 1
      <4>1. k - 1 \in 1..Len(r) /\ (k - 1) + 1 = k
        BY <2>2, <2>3, <3>2
      <4>2. r[k - 1] = q[k]
        BY <2>2, <4>1
      <4> QED BY <2>3, <4>1, <4>2 DEF Range
    <3> QED BY <3>1, <3>2
  <2>5. Range(q) \subseteq Range(r) \cup {Head(q)}
    BY <2>4 DEF Range
  <2> QED BY <1>1, <2>2, <2>5 DEF q, r
<1> HIDE DEF t
<1>3. Shape(t)
  BY <1>1, <1>2 DEF Linked, Shape
<1>4. Held(t, {})
  BY <1>1, <1>2 DEF Linked, Held
<1>5. Linked(t, {})
  BY <1>3, <1>4 DEF Linked
<1> QED BY <1>5 DEF t

(* A QC that a relay completes.                                            *)
LEMMA QcCompleteLinked ==
    ASSUME NEW s, NEW b \in s.delivered, b \in 1..s.n, Linked(s, {})
    PROVE  Linked(QcComplete(s, b), {})
<1> DEFINE t == [s EXCEPT !.piped = Tail(@)]
           r == [s EXCEPT !.rdy = Append(@, b)]
<1>1. s.piped # <<>> /\ b = Head(s.piped) => Linked(DrainRdy(Finish(t, b), b), {})
  <2> SUFFICES ASSUME s.piped # <<>>, b = Head(s.piped)
               PROVE  Linked(DrainRdy(Finish(t, b), b), {})
    OBVIOUS
  <2>1. Linked(t, {})
    BY PopLinked
  <2>2. b \in t.delivered
    BY DEF Linked, Shape, Fields
  <2> HIDE DEF t
  <2> QED BY <2>1, <2>2, FinishLinked, DrainRdyLinked
<1>2. Linked(r, {})
  <2>1. /\ DOMAIN r = Fields
        /\ r.n = s.n /\ r.parents = s.parents /\ r.height = s.height
        /\ r.qc_ref = s.qc_ref /\ r.piped = s.piped /\ r.rdy = Append(s.rdy, b)
        /\ r.delivered = s.delivered /\ r.hqc = s.hqc /\ r.tail = s.tail
        /\ r.tails = s.tails /\ r.last_proposed = s.last_proposed
        /\ r.failed = s.failed
    BY DEF Linked, Shape, Fields
  <2> HIDE DEF r
  <2>2. r.rdy \in Seq(1..s.n) /\ Range(r.rdy) \subseteq Range(s.rdy) \cup {b}
    BY <2>1 DEF Linked, Shape, Range
  <2>3. Shape(r)
    BY <2>1, <2>2 DEF Linked, Shape
  <2>4. Held(r, {})
    BY <2>1, <2>2 DEF Linked, Held
  <2> QED BY <2>3, <2>4 DEF Linked
<1>3. Linked(Finish(s, b), {})
  BY FinishLinked
<1> QED BY <1>1, <1>2, <1>3, Zenon DEF QcComplete

(* A relay that comes late, for a block that is delivered.                 *)
LEMMA LateRelayLinked ==
    ASSUME NEW s, NEW b \in s.delivered, Linked(s, {})
    PROVE  Linked(LateRelay(s, b), {})
<1> DEFINE f == Fail(s, "pop from empty piped_queue")
           t == [s EXCEPT !.piped = Tail(@)]
<1>1. Linked(f, {})
  <2>1. Keeps(s, f)
    BY DEF Keeps, Fail, Linked, Shape, Fields
  <2> HIDE DEF f
  <2> QED BY <2>1, KeepsLinked
<1>2. s.piped # <<>> /\ b = Head(s.piped) => Linked(DrainRdy(t, b), {})
  <2>1. s.piped # <<>> /\ b = Head(s.piped) => Linked(t, {})
    BY PopLinked
  <2> HIDE DEF t
  <2> QED BY <2>1, DrainRdyLinked
<1> QED BY <1>1, <1>2, Zenon DEF LateRelay

-----------------------------------------------------------------------------
(* Genesis is delivered, and nothing else is there.                        *)
LEMMA InitLinked == Init => Linked(p, {})
<1> SUFFICES ASSUME Init PROVE Linked(p, {})
  OBVIOUS
<1>1. /\ DOMAIN p = Fields /\ p.n = 0 /\ p.last_proposed = 0
      /\ p.parents = [b \in Blocks |-> <<0>>] /\ p.height = [b \in Blocks |-> 0]
      /\ p.qc_ref = [b \in Blocks |-> 0]
      /\ p.piped = <<>> /\ p.rdy = <<>> /\ p.delivered = {0} /\ p.hqc = 0
      /\ p.tail = 0 /\ p.tails = {0} /\ p.failed = "no"
  BY DEF Init, Fields
<1>2. 0 \in Blocks /\ 1..0 = {} /\ 0..0 = {0} /\ Range(<<>>) = {}
  BY PipelineAssumption DEF Blocks, Range
<1>3. Shape(p)
  BY <1>1, <1>2 DEF Shape
<1>4. Held(p, {})
  BY <1>1, <1>2 DEF Held
<1> QED BY <1>3, <1>4 DEF Linked

(* A beat, the one that schedule_next runs or the one that it lets wait.   *)
LEMMA BeatLinked ==
    ASSUME Linked(p, {}), Beat
    PROVE  Linked(p', {})
<1> DEFINE q == [p EXCEPT !.pending = @ + 1]
           a == [q EXCEPT !.pending = @ - 1]
           x == [a EXCEPT !.piped_submitted = TRUE]
           l == [a EXCEPT !.locked = TRUE]
           w == [a EXCEPT !.locked = TRUE, !.qc_waiting = @ \cup {q.last_proposed}]
           r == ScheduleNext(q)
           t == [r EXCEPT !.pending = IF @ > MaxPending THEN MaxPending ELSE @]
<1>1. p' = t
  BY DEF Beat, AfterBeat
<1>2. r \in {q, BeatBody(x), BeatBody(l), w}
  BY Zenon DEF ScheduleNext
<1>3. Linked(q, {})
  <2>1. Keeps(p, q)
    BY DEF Keeps, Linked, Shape, Held, Fields
  <2> HIDE DEF q
  <2> QED BY <2>1, KeepsLinked
<1> HIDE DEF q
<1>4. Keeps(q, x) /\ Keeps(q, l) /\ Keeps(q, w)
  BY <1>3 DEF Keeps, Linked, Shape, Held, Fields
<1> HIDE DEF x, l, w
<1>5. Linked(r, {})
  <2>1. Linked(x, {}) /\ Linked(l, {}) /\ Linked(w, {})
    BY <1>3, <1>4, KeepsLinked
  <2> HIDE DEF r
  <2> QED BY <1>2, <1>3, <2>1, BeatBodyLinked
<1> HIDE DEF r
<1>6. Keeps(r, t)
  BY <1>5 DEF Keeps, Linked, Shape, Held, Fields
<1> HIDE DEF t
<1> QED BY <1>1, <1>5, <1>6, KeepsLinked

(* The first half of a vote handler: after it the block is delivered.      *)
LEMMA ArriveLinked ==
    ASSUME Inv, Linked(p, {}), NEW c \in Children, NEW b \in Blocks, Arrive(c, b)
    PROVE  Linked(p', {})
<1> DEFINE d == ProcessBlock(p, b, FALSE)
           s == IF Piped(p, b) /\ b \notin p.delivered THEN d ELSE p
<1>1. /\ p.failed = "no" /\ b \in 1..p.n
      /\ p' = s \/ (s.failed = "no" /\ p' = LateRelay(s, b))
  BY Zenon DEF Arrive
<1>2. Linked(s, {}) /\ (s.failed = "no" => b \in s.delivered)
  <2>1. CASE Piped(p, b) /\ b \notin p.delivered
    <3>1. Linked(p, {b})
      BY DEF Linked, Held
    <3>2. Linked(d, {})
      BY <1>1, <3>1, ProcessBlockLinked
    <3>3. Processed(p, d, b)
      BY ProcessBlockKeeps DEF Inv, Good, Typed
    <3> HIDE DEF d
    <3>4. d.failed = "no" => b \in d.delivered
      BY <3>3 DEF Processed
    <3> QED BY <2>1, <3>2, <3>4
  <2>2. CASE ~ (Piped(p, b) /\ b \notin p.delivered)
    <3>1. b \in 0..p.n
      BY <1>1, PipelineAssumption DEF Linked, Shape, Blocks
    <3>2. b \in p.delivered
      BY <2>2, <3>1 DEF Linked, Held, Piped
    <3> QED BY <2>2, <3>2
  <2> QED BY <2>1, <2>2
<1> HIDE DEF s
<1> QED BY <1>1, <1>2, LateRelayLinked

(* The continuation: what waits for the threads is delivered.              *)
LEMMA VerifiedLinked ==
    ASSUME Inv, Linked(p, {}), NEW c \in Children, NEW b \in Blocks, Verified(c, b)
    PROVE  Linked(p', {})
<1> DEFINE s == [p EXCEPT !.cert[b] = @ \cup {c}]
<1>1. /\ p.failed = "no" /\ <<c, b>> \in verifying
      /\ p' \in {p, s, Finish(s, b), QcComplete(s, b)}
  BY Zenon DEF Verified
<1>2. Untouched(p, verifying) /\ p.failed = "no"
  BY <1>1 DEF Inv, Good
<1>3. <<c, b>>[2] = b /\ b \in 1..p.n /\ b \notin Range(p.piped) \ p.delivered
  BY <1>1, <1>2 DEF Untouched
<1>4. b \in p.delivered
  <2>1. b \in 0..p.n
    BY <1>3, PipelineAssumption DEF Linked, Shape, Blocks
  <2> QED BY <1>3, <2>1 DEF Linked, Held
<1>5. Keeps(p, s)
  BY DEF Keeps, Linked, Shape, Held, Fields
<1> HIDE DEF s
<1>6. Linked(s, {}) /\ b \in s.delivered /\ b \in 1..s.n
  BY <1>3, <1>4, <1>5, KeepsLinked DEF Keeps
<1> QED BY <1>1, <1>6, FinishLinked, QcCompleteLinked

(* For every tree below the root, quorum, pipeline depth, number of blocks *)
(* and order of messages: get_delivered_blk never throws in                *)
(* on_deliver_blk, since a block is delivered or in piped_queue as long as *)
(* the proposer runs, and whatever the proposer builds on, certifies or    *)
(* holds back is delivered.                                                *)
THEOREM ParentsAreFound == Spec => []ParentsFound
<1>1. Inv /\ Linked(p, {}) /\ [Next]_vars => Linked(p, {})'
  <2> SUFFICES ASSUME Inv, Linked(p, {}), [Next]_vars PROVE Linked(p', {})
    BY DEF Linked, Shape, Held
  <2>1. CASE UNCHANGED vars
    BY <2>1 DEF vars
  <2>2. CASE Handle
    BY <2>2, ArriveLinked, VerifiedLinked DEF Handle
  <2>3. CASE LatencyElapses
    <3> DEFINE t == [p EXCEPT !.recent = FALSE]
    <3>1. p' = t
      BY <2>3 DEF LatencyElapses
    <3>2. Keeps(p, t)
      BY DEF Keeps, Linked, Shape, Held, Fields
    <3> HIDE DEF t
    <3> QED BY <3>1, <3>2, KeepsLinked
  <2> QED BY <2>1, <2>2, <2>3, BeatLinked DEF Next
<1>2. Linked(p, {}) => ParentsFound
  <2> SUFFICES ASSUME Linked(p, {}) PROVE ParentsFound
    OBVIOUS
  <2>1. p.n \in Nat /\ 1..p.n \subseteq 0..p.n
    BY PipelineAssumption DEF Linked, Shape, Blocks
  <2> QED BY <2>1 DEF Linked, Held, ParentsFound
<1> QED BY <1>1, <1>2, InitLinked, PipelineInvariance, PTL DEF Spec
=============================================================================
