---------------------------- MODULE HotStuffCore ----------------------------
(***************************************************************************)
(* The consensus core of src/src/consensus.cpp (class HotStuffCore, the    *)
(* three-step build) with the parent selection of PMHighTail in            *)
(* src/include/hotstuff/liveness.h, run by a set of replicas over an       *)
(* asynchronous network that may delay, reorder, duplicate and lose        *)
(* proposals and votes, and in which any replica may stop for ever.        *)
(* Pipelined blocks (piped_queue) are the subject of module Pipeline; here *)
(* piped_queue is empty, the program with async_blocks = 0.                *)
(***************************************************************************)
EXTENDS Integers, FiniteSets

CONSTANTS
    Replica,    \* the replicas of config.replica_map
    Proposer,   \* those the pacemaker may ever return from get_proposer()
    nfaulty,    \* the argument of HotStuffCore::on_init
    Block,      \* the hashes blocks can have
    b0          \* the genesis block

ASSUME ReplicaAssumption ==
    /\ IsFiniteSet(Replica)
    /\ Proposer \subseteq Replica
    /\ nfaulty \in Nat
    /\ 2 * nfaulty < Cardinality(Replica)

ASSUME BlockAssumption == b0 \in Block

(* config.nmajority, and the sets of voters a quorum certificate can have. *)
nmajority == Cardinality(Replica) - nfaulty
Quorum == {Q \in SUBSET Replica : Cardinality(Q) >= nmajority}

VARIABLES
    blocks,     \* the blocks broadcast so far, and b0
    parent,     \* parent[b]: parents[0] of b
    qc_ref,     \* qc_ref[b]: the block that the certificate in b certifies
    height,     \* height[b]
    branch,     \* branch[b]: the blocks a walk along parents[0] meets from b
    votes,      \* the pairs <<r, b>> for which r has signed a part of b's QC
    delivered,  \* delivered[r]: the blocks r has marked delivered
    decided,    \* decided[r]: the blocks with decision = 1 at r
    hqc,        \* hqc[r]: hqc.first of r
    b_lock,     \* b_lock[r]
    b_exec,     \* b_exec[r]
    vheight,    \* vheight[r]
    hqc_tail,   \* hqc_tail[r]: the parent PMHighTail offers next
    failed      \* the replicas that died of an exception

tree == <<blocks, parent, qc_ref, height, branch>>
vars == <<tree, votes, delivered, decided, hqc, b_lock, b_exec, vheight,
          hqc_tail, failed>>

-----------------------------------------------------------------------------
(* check_ancestry, and the walk of the voting rule: going up from b along  *)
(* parents[0] until the height is not above a's ends at a.                 *)
Extends(b, a) == a \in branch[b]

(* A quorum of replicas signed b: a QC for b can be assembled.             *)
Certified(b) ==
    \/ b = b0
    \/ \E Q \in Quorum : \A r \in Q : <<r, b>> \in votes

(* get_tails() of a replica that has delivered D: on_deliver_blk removes a *)
(* block's parents from tails and adds the block.                          *)
Tails(D) == {b \in D : \A c \in D \ {b0} : parent[c] # b}

(* Wrong variants of HighTails: hqc_tail is left null (-1) when no tail is *)
(* above the new hqc; the ancestry of the tails is not checked.            *)
HighTailsNull(h, D) ==
    LET above == {t \in Tails(D) : Extends(t, h) /\ height[t] > height[h]}
    IN  IF above = {} THEN {-1}
        ELSE {t \in above : \A u \in above : height[u] <= height[t]}

HighTailsAnyFork(h, D) ==
    LET above == {t \in Tails(D) : height[t] > height[h]}
    IN  IF above = {} THEN {h}
        ELSE {t \in above : \A u \in above : height[u] <= height[t]}

(* What reg_hqc_update may leave in hqc_tail when hqc becomes h: a highest *)
(* tail above h that extends it (tails is an unordered set), or h itself.  *)
HighTails(h, D) ==
    LET above == {t \in Tails(D) : Extends(t, h) /\ height[t] > height[h]}
    IN  IF above = {} THEN {h}
        ELSE {t \in above : \A u \in above : height[u] <= height[t]}

-----------------------------------------------------------------------------
(* Wrong variant: hqc follows every proposal.                              *)
NewHqcUnordered(r, blk2) ==
    IF blk2 \notin decided[r] THEN blk2 ELSE hqc[r]

(* update(nblk), for a block whose qc_ref is blk2: the values it gives to  *)
(* hqc, b_lock, b_exec and the decisions of r.                             *)
NewHqc(r, blk2) ==
    IF blk2 \notin decided[r] /\ height[blk2] > height[hqc[r]]
    THEN blk2 ELSE hqc[r]

(* Wrong variant: the lock goes to the block that is committed, one QC     *)
(* later than it should.                                                   *)
NewLockLate(r, blk2) ==
    LET blk == qc_ref[qc_ref[blk2]]
    IN  IF blk2 \notin decided[r] /\ height[blk] > height[b_lock[r]]
        THEN blk ELSE b_lock[r]

NewLock(r, blk2) ==
    LET blk1 == qc_ref[blk2]
    IN  IF /\ blk2 \notin decided[r]
           /\ blk1 \notin decided[r]
           /\ height[blk1] > height[b_lock[r]]
        THEN blk1 ELSE b_lock[r]

(* update gets past its early returns and the direct-parent test.          *)
Commits(r, blk2) ==
    LET blk1 == qc_ref[blk2]
        blk  == qc_ref[blk1]
    IN  /\ {blk2, blk1, blk} \cap decided[r] = {}
        /\ parent[blk2] = blk1
        /\ parent[blk1] = blk

NewExec(r, blk2) ==
    IF Commits(r, blk2) THEN qc_ref[qc_ref[blk2]] ELSE b_exec[r]

(* Wrong variant: only the last block of the commit queue is decided.      *)
NewDecidedHeadOnly(r, blk2) == decided[r] \cup {NewExec(r, blk2)}

(* The commit queue: the walk from the new b_exec down to the old one.     *)
NewDecided(r, blk2) ==
    decided[r] \cup {c \in branch[NewExec(r, blk2)] :
                        height[c] > height[b_exec[r]]}

(* The walk does not end at b_exec: "safety breached" is thrown. No action *)
(* models the throw: for the block of a QC that a replica has it is        *)
(* unreachable (lemma NoBreach of HotStuffCoreProofs), so the guards       *)
(* ~ Breach(...) below take nothing away.                                  *)
Breach(r, blk2) ==
    /\ Commits(r, blk2)
    /\ ~ Extends(qc_ref[qc_ref[blk2]], b_exec[r])

(* Wrong variant: a second vote at the height of the last one is allowed.  *)
OpinionNotStrict(r, b) ==
    LET lock == NewLock(r, qc_ref[b])
    IN  /\ height[b] >= vheight[r]
        /\ height[qc_ref[b]] > height[lock] \/ Extends(b, lock)

(* Wrong variant: the lock is not looked at.                               *)
OpinionNoLock(r, b) == height[b] > vheight[r]

(* The voting rule of on_receive_proposal, applied after update(b).        *)
Opinion(r, b) ==
    LET lock == NewLock(r, qc_ref[b])
    IN  /\ height[b] > vheight[r]
        /\ \/ height[qc_ref[b]] > height[lock]
           \/ Extends(b, lock)

-----------------------------------------------------------------------------
Init ==
    /\ blocks = {b0}
    /\ parent = [b \in Block |-> b0]
    /\ qc_ref = [b \in Block |-> b0]
    /\ height = [b \in Block |-> 0]
    /\ branch = [b \in Block |-> {b0}]
    /\ votes = {}
    /\ delivered = [r \in Replica |-> {b0}]
    /\ decided = [r \in Replica |-> {b0}]
    /\ hqc = [r \in Replica |-> b0]
    /\ b_lock = [r \in Replica |-> b0]
    /\ b_exec = [r \in Replica |-> b0]
    /\ vheight = [r \in Replica |-> 0]
    /\ hqc_tail = [r \in Replica |-> b0]
    /\ failed = {}

(* on_propose(cmds, get_parents()) creates b on hqc_tail with hqc as its   *)
(* QC; process_block delivers it, runs update, votes for it and tells the  *)
(* pacemaker (reg_proposal); then b is broadcast.                          *)
Propose(r, b) ==
    LET p == hqc_tail[r]
        q == hqc[r]
    IN  /\ r \in Proposer \ failed
        /\ b \in Block \ blocks
        /\ height[p] + 1 > vheight[r]
        /\ ~ Breach(r, q)
        /\ blocks' = blocks \cup {b}
        /\ parent' = [parent EXCEPT ![b] = p]
        /\ qc_ref' = [qc_ref EXCEPT ![b] = q]
        /\ height' = [height EXCEPT ![b] = height[p] + 1]
        /\ branch' = [branch EXCEPT ![b] = branch[p] \cup {b}]
        /\ delivered' = [delivered EXCEPT ![r] = @ \cup {b}]
        /\ b_lock' = [b_lock EXCEPT ![r] = NewLock(r, q)]
        /\ b_exec' = [b_exec EXCEPT ![r] = NewExec(r, q)]
        /\ decided' = [decided EXCEPT ![r] = NewDecided(r, q)]
        /\ vheight' = [vheight EXCEPT ![r] = height[p] + 1]
        /\ votes' = votes \cup {<<r, b>>}
        /\ hqc_tail' = [hqc_tail EXCEPT ![r] = b]
        /\ UNCHANGED <<hqc, failed>>

(* The same call when the new block would not be above vheight: update has *)
(* run when process_block throws, nothing is signed or sent, and nothing   *)
(* catches the exception. The new block exists at r alone and dies with    *)
(* it.                                                                     *)
ProposeThrows(r) ==
    LET q == hqc[r]
    IN  /\ r \in Proposer \ failed
        /\ height[hqc_tail[r]] + 1 <= vheight[r]
        /\ ~ Breach(r, q)
        /\ b_lock' = [b_lock EXCEPT ![r] = NewLock(r, q)]
        /\ b_exec' = [b_exec EXCEPT ![r] = NewExec(r, q)]
        /\ decided' = [decided EXCEPT ![r] = NewDecided(r, q)]
        /\ failed' = failed \cup {r}
        /\ UNCHANGED <<tree, votes, delivered, hqc, vheight, hqc_tail>>

(* on_deliver_blk(b): the block, its parent and the block of its QC have   *)
(* been fetched and the parent delivered.                                  *)
DeliverBlk(r, b) ==
    /\ r \in Replica \ failed
    /\ b \in blocks \ delivered[r]
    /\ parent[b] \in delivered[r]
    /\ delivered' = [delivered EXCEPT ![r] = @ \cup {b}]
    /\ UNCHANGED <<tree, votes, decided, hqc, b_lock, b_exec, vheight,
                   hqc_tail, failed>>

(* on_receive_proposal for a delivered block: update, the voting rule,     *)
(* reg_receive_proposal of the pacemaker, do_vote.                         *)
ReceiveProposal(r, b) ==
    LET q == qc_ref[b]
        h == NewHqc(r, q)
    IN  /\ r \in Replica \ failed
        /\ b \in delivered[r] \ {b0}
        /\ ~ Breach(r, q)
        /\ hqc' = [hqc EXCEPT ![r] = h]
        /\ b_lock' = [b_lock EXCEPT ![r] = NewLock(r, q)]
        /\ b_exec' = [b_exec EXCEPT ![r] = NewExec(r, q)]
        /\ decided' = [decided EXCEPT ![r] = NewDecided(r, q)]
        /\ \E t \in IF h = hqc[r] THEN {hqc_tail[r]}
                    ELSE HighTails(h, delivered[r]) :
              hqc_tail' = [hqc_tail EXCEPT ![r] =
                  IF Extends(b, h) /\ height[b] > height[t] THEN b ELSE t]
        /\ IF Opinion(r, b)
           THEN /\ vheight' = [vheight EXCEPT ![r] = height[b]]
                /\ votes' = votes \cup {<<r, b>>}
           ELSE UNCHANGED <<vheight, votes>>
        /\ UNCHANGED <<tree, delivered, failed>>

(* The part of a vote that completes a QC for b reaches a proposer:        *)
(* update_hqc(b, qc) and, from it, reg_hqc_update.                         *)
QcFinish(r, b) ==
    /\ r \in Proposer \ failed
    /\ b \in delivered[r]
    /\ Certified(b)
    /\ height[b] > height[hqc[r]]
    /\ hqc' = [hqc EXCEPT ![r] = b]
    /\ \E t \in HighTails(b, delivered[r]) :
          hqc_tail' = [hqc_tail EXCEPT ![r] = t]
    /\ UNCHANGED <<tree, votes, delivered, decided, b_lock, b_exec, vheight,
                   failed>>

Next ==
    \/ \E r \in Replica, b \in Block :
          \/ Propose(r, b)
          \/ DeliverBlk(r, b)
          \/ ReceiveProposal(r, b)
          \/ QcFinish(r, b)
    \/ \E r \in Replica : ProposeThrows(r)

Spec == Init /\ [][Next]_vars

-----------------------------------------------------------------------------
(* Every variable has its type.                                            *)
TypeOK ==
    /\ blocks \subseteq Block
    /\ parent \in [Block -> Block]
    /\ qc_ref \in [Block -> Block]
    /\ height \in [Block -> Nat]
    /\ branch \in [Block -> SUBSET Block]
    /\ votes \subseteq Replica \X Block
    /\ delivered \in [Replica -> SUBSET Block]
    /\ decided \in [Replica -> SUBSET Block]
    /\ hqc \in [Replica -> Block]
    /\ b_lock \in [Replica -> Block]
    /\ b_exec \in [Replica -> Block]
    /\ vheight \in [Replica -> Nat]
    /\ hqc_tail \in [Replica -> Block]
    /\ failed \subseteq Replica

(* update never throws "safety breached" (consensus.cpp:174), at any       *)
(* replica and for any proposal it may still process.                      *)
NoSafetyBreach ==
    \A r \in Replica \ failed : \A b \in delivered[r] : ~ Breach(r, qc_ref[b])

(* Of any two replicas, what one has executed (decision = 1, do_consensus, *)
(* do_decide) is a prefix of what the other has: replicas that skip        *)
(* proposals, catch up or follow different forks never decide differently. *)
Agreement ==
    \A r, s \in Replica :
        decided[r] \subseteq decided[s] \/ decided[s] \subseteq decided[r]

(* A replica's vheight lets it sign at most one block of each height, its  *)
(* own proposals included.                                                 *)
OneVotePerHeight ==
    \A u, v \in votes :
        u[1] = v[1] /\ height[u[2]] = height[v[2]] => u[2] = v[2]

(* What PMHighTail offers as parent always extends the hqc that the new    *)
(* block will carry, so a block's QC is for one of its own ancestors; the  *)
(* delivery code does not check it and the voting rule depends on it.      *)
ParentExtendsHqc ==
    /\ \A r \in Replica : Extends(hqc_tail[r], hqc[r])
    /\ \A b \in blocks : Extends(b, qc_ref[b])

(* What has been decided at a replica is exactly the executed branch, and  *)
(* nothing at or above the lock has been executed except b0.               *)
DecidedIsExecuted ==
    \A r \in Replica :
        /\ decided[r] = branch[b_exec[r]]
        /\ b_exec[r] # b0 => height[b_exec[r]] < height[b_lock[r]]
        /\ height[b_lock[r]] <= height[hqc[r]]

(* A replica's lock, hqc, vote height and executed branch only advance,    *)
(* however late or often proposals and QCs arrive.                         *)
Advance(r) ==
    /\ height'[b_lock'[r]] >= height[b_lock[r]]
    /\ height'[hqc'[r]] >= height[hqc[r]]
    /\ vheight'[r] >= vheight[r]
    /\ b_exec[r] \in branch'[b_exec'[r]]

OnlyAdvances == [][\A r \in Replica : Advance(r)]_vars

(* The core implements AgreedChains: the blocks with decision = 1 are the  *)
(* decided chain of a replica, and every handler is a step of it or none.  *)
Chains == INSTANCE AgreedChains WITH chain <- decided

RefinesChains == Chains!Spec
=============================================================================
