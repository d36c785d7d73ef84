------------------------------ MODULE Pipeline ------------------------------
(***************************************************************************)
(* The proposer of a Kauri tree: HotStuffBase::beat and the proposer's     *)
(* side of vote_handler and vote_relay_handler in src/src/hotstuff.cpp,    *)
(* on_propose and process_block in src/src/consensus.cpp, and the          *)
(* pacemaker PMHighTail + PMWaitQC in src/include/hotstuff/liveness.h.     *)
(* Beats come from client commands; every child of the root answers each   *)
(* broadcast block with one message, at any time and in any order, which   *)
(* the handler receives, hands to the verification threads and finishes in *)
(* a continuation, again in any order.                                     *)
(*                                                                         *)
(* The handlers call one another (a QC resolves a promise, the promise     *)
(* proposes a block, the proposal resolves promises), so the proposer's    *)
(* state is one record and each piece of code an operator from records to  *)
(* records; an action applies the whole of what a handler runs.            *)
(***************************************************************************)
EXTENDS Integers, Sequences, FiniteSets, SequencesExt

CONSTANTS
    Children,       \* the children of the root
    Leaf,           \* those that send MsgVote; the others send MsgRelay
    Need,           \* how many of them complete a QC (config.nmajority)
    async_blocks,   \* config.async_blocks, the pipeline depth
    RecoveryLag,    \* the literal 10 of PMWaitQC::schedule_next
    MaxBlocks,      \* bound on the blocks proposed
    MaxPending      \* bound on the beats that wait in pending_beats

ASSUME PipelineAssumption ==
    /\ IsFiniteSet(Children) /\ Leaf \subseteq Children
    /\ Need \in 1..Cardinality(Children)
    /\ {async_blocks, RecoveryLag, MaxBlocks, MaxPending} \subseteq Nat

(* Blocks are numbered in the order of their creation; 0 is genesis.       *)
Blocks == 0..MaxBlocks

VARIABLES
    p,          \* the proposer
    arrived,    \* the pairs <<c, b>> whose message has reached the handler
    verifying   \* those that wait for the verification threads

vars == <<p, arrived, verifying>>

-----------------------------------------------------------------------------
(* async_qc_finish: the block's own certificate has its majority (genesis  *)
(* has everybody in voted).                                                *)
Complete(s, b) == b = 0 \/ Cardinality(s.cert[b]) >= Need

Piped(s, b) == b \in Range(s.piped)

Fail(s, why) == [s EXCEPT !.failed = why]

(* new Block(parents, ..., hqc): delivery sets qc_ref to the block that    *)
(* the hqc of this moment certifies, and height from parents[0].           *)
NewBlock(s, parents) ==
    LET b == s.n + 1
    IN  [s EXCEPT !.n = b,
                  !.parents[b] = parents,
                  !.height[b] = s.height[parents[1]] + 1,
                  !.branch[b] = s.branch[parents[1]] \cup {b},
                  !.qc_ref[b] = s.hqc]

(* update_hqc, and reg_hqc_update of the pacemaker. Among tails of equal   *)
(* height the first in std::set<block_t> wins, which is ordered by         *)
(* address: newest_first fixes one of two such orders for a behaviour.     *)
UpdateHqc(s, b) ==
    LET above == {t \in s.tails : b \in s.branch[t] /\ s.height[t] > s.height[b]}
        highest == {t \in above : \A u \in above : s.height[u] <= s.height[t]}
    IN  IF s.height[b] <= s.height[s.hqc] THEN s
        ELSE [s EXCEPT !.hqc = b,
                       !.tail = IF above = {} THEN b
                                ELSE IF s.newest_first THEN Max(highest)
                                ELSE Min(highest)]

(* The commit of update(nblk), where blk2 = nblk->qc_ref.                  *)
Commit(s, blk2) ==
    LET blk1 == s.qc_ref[blk2]
        blk  == s.qc_ref[blk1]
    IN  IF \/ {blk2, blk1, blk} \cap s.decided # {}
           \/ s.parents[blk2][1] # blk1
           \/ s.parents[blk1][1] # blk
        THEN s
        ELSE IF s.b_exec \notin s.branch[blk] THEN Fail(s, "safety breached")
        ELSE [s EXCEPT !.b_exec = blk, !.decided = @ \cup s.branch[blk]]

(* Mutant of OnDeliverBlk: piped_queue is not searched for the parents.    *)
OnDeliverBlkStrict(s, b) ==
    IF \E c \in Range(s.parents[b]) : c \notin s.delivered
    THEN Fail(s, "parent not delivered")
    ELSE [s EXCEPT !.delivered = @ \cup {b},
                   !.tails = (@ \ Range(s.parents[b])) \cup {b}]

(* on_deliver_blk: a parent is delivered or still in piped_queue.          *)
OnDeliverBlk(s, b) ==
    IF \E c \in Range(s.parents[b]) : ~ Piped(s, c) /\ c \notin s.delivered
    THEN Fail(s, "parent not delivered")
    ELSE [s EXCEPT !.delivered = @ \cup {b},
                   !.tails = (@ \ Range(s.parents[b])) \cup {b}]

(* on_propose_: reg_proposal makes b the next parent; update_last_proposed *)
(* unlocks the pacemaker, and schedule_next lets a waiting beat wait for   *)
(* b's QC, which cannot be complete yet.                                   *)
OnPropose_(s, b) ==
    [s EXCEPT !.tail = b,
              !.last_proposed = b,
              !.locked = s.pending > 0,
              !.pending = IF s.pending > 0 THEN @ - 1 ELSE @,
              !.qc_waiting = IF s.pending > 0 THEN @ \cup {b} ELSE @]

(* process_block(b, adjustHeight).                                         *)
ProcessBlock(s, b, adjustHeight) ==
    LET d == OnDeliverBlk(s, b)
        u == Commit(UpdateHqc(d, s.qc_ref[b]), s.qc_ref[b])
    IN  IF d.failed # "no" THEN d
        ELSE IF u.failed # "no" THEN u
        ELSE IF adjustHeight /\ u.height[b] <= u.vheight
             THEN Fail(u, "new block should be higher than vheight")
        ELSE OnPropose_([u EXCEPT !.vheight =
                            IF adjustHeight THEN u.height[b] ELSE @], b)

(* on_propose(cmds, {hqc_tail}).                                           *)
OnPropose(s) ==
    LET back    == Last(s.piped)
        parents == IF s.piped # <<>> /\ s.height[s.tail] <= s.height[back]
                   THEN <<back, s.tail>> ELSE <<s.tail>>
        new     == NewBlock(s, parents)
    IN  ProcessBlock([new EXCEPT !.b_normal_height = new.height[new.n]],
                     new.n, TRUE)

(* The pipelined branch of beat: a block on the current proposal, or on    *)
(* the first of the highest blocks in the queue if those are higher,       *)
(* broadcast but neither delivered nor voted for.                          *)
ProposePiped(s) ==
    LET current == s.last_proposed
        higher  == {b \in Range(s.piped) : s.height[b] > s.height[current]}
        highest == IF higher = {} THEN current
                   ELSE Min({b \in higher :
                               \A c \in higher : s.height[c] <= s.height[b]})
        parents == IF s.height[s.tail] < s.height[highest]
                   THEN <<highest, s.tail>> ELSE <<s.tail>>
        new     == NewBlock(s, parents)
    IN  [new EXCEPT !.piped = Append(@, new.n),
                    !.stale_front = 0,
                    !.recent = TRUE,
                    !.piped_submitted = FALSE]

(* The callback that HotStuffBase::beat attaches to the pacemaker's beat.  *)
(* At MaxBlocks it does nothing.                                           *)
BeatBody(s) ==
    IF s.n = MaxBlocks \/ Len(s.piped) > async_blocks + 1 THEN s
    ELSE IF Len(s.piped) < async_blocks /\ s.last_proposed # 0
         THEN IF s.piped = <<>> /\ s.recent THEN s ELSE ProposePiped(s)
    ELSE OnPropose([s EXCEPT !.recent = TRUE])

(* Mutant of ScheduleNext: a beat always waits, also for a QC that is      *)
(* complete already and will not be announced again.                       *)
ScheduleNextLostWakeup(s) ==
    IF s.locked THEN s
    ELSE [s EXCEPT !.pending = @ - 1, !.locked = TRUE,
                   !.qc_waiting = @ \cup {s.last_proposed}]

(* PMWaitQC::beat: the new beat joins the queue and schedule_next runs.    *)
ScheduleNext(s) ==
    LET popped == [s EXCEPT !.pending = @ - 1]
        back   == Last(s.piped)
        extra  == Len(s.piped) < async_blocks /\ ~ s.piped_submitted
        recovery == /\ s.piped # <<>>
                    /\ s.b_normal_height > 0
                    /\ s.height[back] > async_blocks + RecoveryLag
                    /\ s.b_normal_height < s.height[back] - (async_blocks + RecoveryLag)
    IN  IF s.locked
        THEN IF ~ s.recent /\ (extra \/ recovery)
             THEN BeatBody([popped EXCEPT !.piped_submitted = TRUE])
             ELSE s
        ELSE IF Complete(s, s.last_proposed)
             THEN BeatBody([popped EXCEPT !.locked = TRUE])
             ELSE [popped EXCEPT !.locked = TRUE,
                                 !.qc_waiting = @ \cup {s.last_proposed}]

-----------------------------------------------------------------------------
(* update_hqc and on_qc_finish for a block whose QC is complete.           *)
Finish(s, b) ==
    LET u == UpdateHqc([s EXCEPT !.finished = @ \cup {b}], b)
    IN  IF b \in u.qc_waiting
        THEN BeatBody([u EXCEPT !.qc_waiting = @ \ {b}]) ELSE u

(* rdy_queue.erase(find(hash)); piped_queue.erase(find(hash)), where hash  *)
(* is a reference into rdy_queue: after the first erase it refers to what  *)
(* std::deque moved into the erased slot. An erase that empties            *)
(* piped_queue leaves the hash in the slot that front() reads.             *)
EraseRdy(s, i) ==
    LET len  == Len(s.rdy)
        hash == IF i - 1 < len \div 2
                THEN s.rdy[IF i = 1 THEN i ELSE i - 1]
                ELSE s.rdy[IF i = len THEN i ELSE i + 1]
    IN  IF Piped(s, hash)
        THEN [s EXCEPT !.rdy = RemoveAt(@, i), !.piped = RemoveFirst(@, hash),
                       !.stale_front = IF Len(s.piped) = 1 THEN hash ELSE 0]
        ELSE Fail(s, "erase at end of piped_queue")

(* The while (foundChildren) loop after b left piped_queue: finish the     *)
(* blocks in rdy_queue that continue the chain from b.                     *)
DrainRdy(s, b) ==
    LET next(t, c) == SelectInSeq(t.rdy, LAMBDA x : t.parents[x][1] = c)
        loop[k \in 0..Len(s.rdy)] ==
            IF k = 0 THEN <<s, b>>
            ELSE LET t == loop[k - 1][1]
                     i == next(t, loop[k - 1][2])
                 IN  IF i = 0 \/ t.failed # "no" THEN loop[k - 1]
                     ELSE <<Finish(EraseRdy(t, i), t.rdy[i]), t.rdy[i]>>
    IN  loop[Len(s.rdy)][1]

(* A QC of b was completed by a relay: piped blocks finish in queue order. *)
QcComplete(s, b) ==
    IF s.piped # <<>> /\ b = Head(s.piped)
    THEN DrainRdy(Finish([s EXCEPT !.piped = Tail(@)], b), b)
    ELSE IF Piped(s, b) THEN [s EXCEPT !.rdy = Append(@, b)]
    ELSE Finish(s, b)

-----------------------------------------------------------------------------
Init ==
    /\ \E newest_first \in BOOLEAN :
       p = [n |-> 0, newest_first |-> newest_first,
            parents |-> [b \in Blocks |-> <<0>>],
            height |-> [b \in Blocks |-> 0],
            branch |-> [b \in Blocks |-> {0}],
            qc_ref |-> [b \in Blocks |-> 0],
            cert |-> [b \in Blocks |-> {}],
            delivered |-> {0}, decided |-> {0}, finished |-> {0},
            hqc |-> 0, b_exec |-> 0, vheight |-> 0, tails |-> {0}, tail |-> 0,
            piped |-> <<>>, rdy |-> <<>>, stale_front |-> 0,
            b_normal_height |-> 0, piped_submitted |-> FALSE, recent |-> FALSE,
            last_proposed |-> 0, locked |-> FALSE, pending |-> 0,
            qc_waiting |-> {}, failed |-> "no"]
    /\ arrived = {}
    /\ verifying = {}

(* A client command arrives with final_buffer full: HotStuffBase::beat.    *)
(* Waiting beats carry nothing, so more than MaxPending of them count as   *)
(* MaxPending.                                                             *)
AfterBeat ==
    LET s == ScheduleNext([p EXCEPT !.pending = @ + 1])
    IN  [s EXCEPT !.pending = IF @ > MaxPending THEN MaxPending ELSE @]

Beat ==
    /\ p.failed = "no"
    /\ p' = AfterBeat
    /\ UNCHANGED <<arrived, verifying>>

(* piped_latency elapses after last_block_time.                            *)
LatencyElapses ==
    /\ p.failed = "no"
    /\ p.recent
    /\ p' = [p EXCEPT !.recent = FALSE]
    /\ UNCHANGED <<arrived, verifying>>

(* The early return of vote_relay_handler, for a block that has its QC:    *)
(* pop it if it is piped_queue.front(), which is read without a test for   *)
(* the empty queue.                                                        *)
LateRelay(s, b) ==
    IF s.piped = <<>>
    THEN IF b = s.stale_front THEN Fail(s, "pop from empty piped_queue") ELSE s
    ELSE IF b = Head(s.piped)
         THEN DrainRdy([s EXCEPT !.piped = Tail(@)], b) ELSE s

(* vote_handler or vote_relay_handler runs for the message of c about b:   *)
(* a piped block is processed at its first message.                        *)
Arrive(c, b) ==
    LET s == IF Piped(p, b) /\ b \notin p.delivered
             THEN ProcessBlock(p, b, FALSE) ELSE p
    IN  /\ p.failed = "no"
        /\ b \in 1..p.n
        /\ <<c, b>> \notin arrived
        /\ arrived' = arrived \cup {<<c, b>>}
        /\ IF s.failed = "no" /\ Complete(s, b)
           THEN /\ p' = IF c \in Leaf THEN s ELSE LateRelay(s, b)
                /\ UNCHANGED verifying
           ELSE /\ p' = s
                /\ verifying' = verifying \cup {<<c, b>>}

(* The continuation, when the verification threads are done.               *)
Verified(c, b) ==
    LET s == [p EXCEPT !.cert[b] = @ \cup {c}]
    IN  /\ p.failed = "no"
        /\ <<c, b>> \in verifying
        /\ verifying' = verifying \ {<<c, b>>}
        /\ p' = IF c \in Leaf
                THEN IF Complete(s, b) THEN Finish(s, b) ELSE s
                ELSE IF Complete(p, b) THEN p
                ELSE IF Complete(s, b) THEN QcComplete(s, b)
                ELSE s
        /\ UNCHANGED arrived

Handle == \E c \in Children, b \in Blocks : Arrive(c, b) \/ Verified(c, b)

Next == Beat \/ LatencyElapses \/ Handle

Spec == Init /\ [][Next]_vars

-----------------------------------------------------------------------------
(* The loop of update that walks from the committed block back to b_exec   *)
(* meets it: "safety breached :(" is never thrown, whatever forks late     *)
(* votes for pipelined blocks make the proposer build ("safety is always   *)
(* guaranteed by HotStuffCore", consensus.h).                              *)
CommitsExtendExec == p.failed # "safety breached"

(* A block leaves piped_queue delivered, by whatever path it leaves, so    *)
(* that get_delivered_blk finds each parent that on_deliver_blk does not   *)
(* find in piped_queue; and nothing undelivered becomes hqc, hqc_tail or   *)
(* last_proposed or gets into rdy_queue.                                   *)
ParentsFound ==
    /\ p.failed # "parent not delivered"
    /\ 1..p.n \subseteq p.delivered \cup Range(p.piped)
    /\ {p.hqc, p.tail, p.last_proposed} \cup Range(p.rdy) \subseteq p.delivered

(* Pipelined blocks finish (update_hqc, on_qc_finish) in the order of      *)
(* piped_queue, none before one that was proposed earlier: "Don't finish   *)
(* this block until the previous one was finished" (vote_relay_handler).   *)
FinishInOrder ==
    [][\A i, j \in DOMAIN p.piped :
          i < j /\ p.piped[j] \in p'.finished => p.piped[i] \in p'.finished]_vars

(* A beat never waits in qc_waiting for a QC that on_qc_finish has already *)
(* announced, and a completed QC is announced or its block is in           *)
(* rdy_queue: no wake-up is lost.                                          *)
NoLostWakeup ==
    /\ p.qc_waiting \cap p.finished = {}
    /\ \A b \in 1..p.n : Complete(p, b) => b \in p.finished \cup Range(p.rdy)

(* beat "omits" a proposal while the pacemaker is locked and piped_queue   *)
(* empty, and piped_submitted, which a recovery block leaves set, rules    *)
(* the extra blocks out: no beat is ever resolved again.                   *)
Stalled ==
    p.locked /\ p.piped = <<>> /\ p.piped_submitted /\ p.qc_waiting = {}

(* The pipeline never stops: beats lead to proposals until the bound,      *)
(* unless an exception ends the proposer or it stalls in the one way above *)
(* (liveness.h:143-187, hotstuff.cpp:898-958).                             *)
AllProposed == <>(p.n = MaxBlocks \/ p.failed # "no" \/ Stalled)
=============================================================================
