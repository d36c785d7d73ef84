----------------------------- MODULE RoundRobin -----------------------------
(***************************************************************************)
(* PMRoundRobinProposer and PaceMakerRR of src/include/hotstuff/liveness.h *)
(* at replica 0, without pipelining. It is the replica that clients send   *)
(* to and everybody's first proposer, the only one whose decision_waiting  *)
(* is ever filled and therefore the only one that impeaches: the others go *)
(* on voting for its blocks and never propose. The replica's blocks form   *)
(* one chain, 1, 2, ...; a block carries the highest QC there is when it   *)
(* is made and commits by the three-chain rule.                            *)
(*                                                                         *)
(* Timers, QCs, commands and the call that stop_rotate defers come in any  *)
(* order; how long a timer runs is left out. Callbacks nest, so the state  *)
(* is one record and each function an operator on it.                      *)
(***************************************************************************)
EXTENDS Integers, Sequences, Functions

CONSTANTS
    nreplicas,  \* config.nreplicas
    blk_size,   \* how many commands fill final_buffer
    MaxBlocks,  \* bound on the blocks proposed
    MaxPending  \* bound on the beats that wait in pending_beats

ASSUME RoundRobinAssumption ==
    {nreplicas, blk_size} \subseteq Nat \ {0} /\ {MaxBlocks, MaxPending} \subseteq Nat

me == 0
Blocks == 1..MaxBlocks

(* A callback that waits for a QC is a beat, or the x of do_new_consensus. *)
beat == -1

VARIABLES
    pm,     \* the replica
    raced   \* history: a deferred call proposed in a later rotation

vars == <<pm, raced>>

-----------------------------------------------------------------------------
(* reject() of a promise that async_qc_finish(b) returned: the promise is  *)
(* the one in qc_waiting, so everybody who waits for b's QC loses it.      *)
Reject(s, b) ==
    IF b \in s.finished \cup {0} THEN s
    ELSE [s EXCEPT !.rejected = @ \cup {b},
                   !.callbacks = [s.callbacks EXCEPT ![b] = <<>>]]

(* async_qc_finish(b).then(callback) for a QC that is not complete; a      *)
(* promise that was rejected stays in qc_waiting and calls nobody.         *)
WaitQc(s, b, callback) ==
    IF b \in s.rejected THEN s
    ELSE [s EXCEPT !.callbacks = [s.callbacks EXCEPT ![b] = Append(@, callback)]]

(* stop_rotate, which defers a call; deferred counts those outstanding.    *)
StopRotate(s) ==
    LET t == Reject(Reject(s, s.pm_qc_finish), s.pm_qc_manual)
    IN  [t EXCEPT !.timer = "none", !.rotating = FALSE, !.locked = FALSE,
                  !.last_proposed = 0, !.pm_wait_propose = TRUE,
                  !.deferred = IF s.proposer = me THEN @ + 1 ELSE @]

(* on_consensus(b).                                                        *)
OnConsensus(s, b) ==
    LET t == [s EXCEPT !.timer = "none"]
    IN  IF s.proposer = me /\ s.prop_blk = b THEN StopRotate(t) ELSE t

(* A block becomes decided: on_consensus and do_decide of its commands.    *)
Decide(s, b) ==
    [OnConsensus(s, b) EXCEPT !.decided = b,
                              !.decision_waiting = @ \ s.carries[b]]

(* update(b): the blocks that become decided, in turn.                     *)
Commit(s, b) ==
    LET blk2 == s.qc[b]
        blk1 == s.qc[blk2]
        blk  == s.qc[blk1]
        go[k \in 0..MaxBlocks] ==
            IF k <= s.decided THEN s ELSE Decide(go[k - 1], k)
    IN  IF blk > s.decided /\ blk1 = blk2 - 1 /\ blk = blk1 - 1 THEN go[blk] ELSE s

(* proposer_schedule_next for a last_proposed that has no QC yet.          *)
ScheduleNext(s) ==
    IF s.pending = 0 \/ s.locked THEN s
    ELSE WaitQc([Reject(s, s.pm_qc_finish) EXCEPT
                    !.pending = @ - 1, !.locked = TRUE,
                    !.pm_qc_finish = s.last_proposed],
                s.last_proposed, beat)

(* A block on the last one, with the highest QC.                           *)
Extend(s, b, cmds) ==
    [s EXCEPT !.nblk = b, !.qc = [s.qc EXCEPT ![b] = s.hqc],
              !.carries = [s.carries EXCEPT ![b] = cmds]]

(* Mutant of OnPropose: the pacemaker stays locked after a proposal.       *)
OnProposeLocked(s, cmds) ==
    LET b == s.nblk + 1
        t == Commit(Extend(s, b, cmds), b)
        r == IF t.reg_proposal
             THEN [t EXCEPT !.prop_blk = IF t.prop_blk = 0 THEN b ELSE t.prop_blk,
                            !.reg_proposal = t.rotating] ELSE t
    IN  IF ~ r.pm_wait_propose THEN r
        ELSE ScheduleNext([r EXCEPT !.last_proposed = b])

(* on_propose: a block on the last one, what it commits, and the           *)
(* callbacks on async_wait_proposal: reg_proposal notes the first block of *)
(* a rotation, proposer_update_last_proposed lets the next beat wait.      *)
OnPropose(s, cmds) ==
    LET b == s.nblk + 1
        t == Commit(Extend(s, b, cmds), b)
        r == IF t.reg_proposal
             THEN [t EXCEPT !.prop_blk = IF t.prop_blk = 0 THEN b ELSE t.prop_blk,
                            !.reg_proposal = t.rotating] ELSE t
    IN  IF ~ r.pm_wait_propose THEN r
        ELSE ScheduleNext([r EXCEPT !.last_proposed = b, !.locked = FALSE])

(* Mutant of DoNewConsensus: the chain before is not given up.             *)
DoNewConsensusTwice(s, x, cmds) ==
    LET t == OnPropose(s, cmds)
    IN  WaitQc([t EXCEPT !.pm_qc_manual = t.nblk], t.nblk, x)

(* do_new_consensus(x, cmds).                                              *)
DoNewConsensus(s, x, cmds) ==
    LET t == OnPropose(s, cmds)
    IN  WaitQc([Reject(t, t.pm_qc_manual) EXCEPT !.pm_qc_manual = t.nblk], t.nblk, x)

(* The callback of HotStuffBase::beat when its promise is resolved.        *)
BeatBody(s) == IF s.proposer = me THEN OnPropose(s, 1..blk_size) ELSE s

(* Mutant of Rotate: the promises of the old role are kept.                *)
RotateKeeps(s) ==
    [s EXCEPT !.reg_proposal = TRUE, !.prop_blk = 0, !.rotating = TRUE,
              !.proposer = (@ + 1) % nreplicas,
              !.pm_wait_propose = FALSE, !.timer = "exp"]

(* rotate().                                                               *)
Rotate(s) ==
    [Reject(Reject(s, s.pm_qc_finish), s.pm_qc_manual) EXCEPT
        !.reg_proposal = TRUE, !.prop_blk = 0, !.rotating = TRUE,
        !.proposer = (@ + 1) % nreplicas,
        !.pm_wait_propose = FALSE, !.timer = "exp"]

-----------------------------------------------------------------------------
(* init: exp_timeout and stop_rotate, which defers its first call.         *)
Init ==
    /\ pm = [proposer |-> 0, rotating |-> FALSE, timer |-> "none",
             prop_blk |-> 0, reg_proposal |-> FALSE, pending |-> 0,
             last_proposed |-> 0, locked |-> FALSE, pm_wait_propose |-> TRUE,
             pm_qc_finish |-> 0, pm_qc_manual |-> 0, deferred |-> 1,
             decision_waiting |-> {}, buffered |-> 0,
             nblk |-> 0, hqc |-> 0, decided |-> 0, finished |-> {}, rejected |-> {},
             qc |-> [b \in 0..MaxBlocks |-> 0],
             carries |-> [b \in Blocks |-> {}],
             callbacks |-> [b \in Blocks |-> <<>>]]
    /\ raced = FALSE

(* A handler leaves the replica in state s, if that is within the bounds.  *)
Update(s) ==
    /\ s.nblk <= MaxBlocks /\ s.pending <= MaxPending
    /\ pm' = s

(* There is room for the blocks that one handler may propose.              *)
Room == pm.nblk + 2 <= MaxBlocks

(* beat() outside rotations. If last_proposed has its QC the first waiting *)
(* beat is resolved: the new one proposes when it has returned, one left   *)
(* from before a rotation at once, and then locked is set.                 *)
Beat(s) ==
    LET t == [Reject(s, s.pm_qc_finish) EXCEPT !.pm_qc_finish = 0]
    IN  IF s.locked \/ s.last_proposed \notin s.finished \cup {0}
        THEN ScheduleNext([s EXCEPT !.pending = @ + 1])
        ELSE IF s.pending = 0 THEN BeatBody([t EXCEPT !.locked = TRUE])
        ELSE [BeatBody(t) EXCEPT !.locked = TRUE]

(* The handler of cmd_pending: a command is dropped in another's turn; the *)
(* first blk_size of them make up every block. In a rotation the beat of a *)
(* command is resolved at once.                                            *)
Command ==
    LET n == pm.buffered + 1
        s == IF n > blk_size THEN pm
             ELSE [pm EXCEPT !.buffered = n, !.decision_waiting = @ \cup {n}]
    IN  /\ pm.proposer = me
        /\ Room
        /\ Update(IF s.buffered < blk_size THEN s
                  ELSE IF pm.rotating THEN BeatBody(s) ELSE Beat(s))
        /\ UNCHANGED raced

(* What waits for a QC: a beat, or do_new_consensus with its next x.       *)
Callback(s, x) ==
    IF x = beat THEN BeatBody(s)
    ELSE IF x >= 3 THEN s ELSE DoNewConsensus(s, x + 1, {})

(* The callbacks run in the order in which they were attached.             *)
Callbacks(s, cbs) ==
    LET go[k \in 0..Len(cbs)] == IF k = 0 THEN s ELSE Callback(go[k - 1], cbs[k])
    IN  go[Len(cbs)]

(* The QC of b completes: update_hqc and on_qc_finish.                     *)
QcFinish(b) ==
    LET s == [pm EXCEPT !.finished = @ \cup {b},
                        !.hqc = IF b > pm.hqc THEN b ELSE pm.hqc,
                        !.callbacks = [pm.callbacks EXCEPT ![b] = <<>>]]
    IN  /\ b \in 1..pm.nblk \ pm.finished
        /\ Room
        /\ Update(Callbacks(s, pm.callbacks[b]))
        /\ UNCHANGED raced

(* The impeachment timer of the application.                               *)
Impeach ==
    /\ pm.decision_waiting # {} /\ ~ pm.rotating
    /\ Update(Rotate(pm))
    /\ UNCHANGED raced

(* Mutant of OnExpTimeout: the next timer is started for a block only.     *)
OnExpTimeoutOnce ==
    LET s == IF pm.proposer = me
             THEN [DoNewConsensus(pm, 0, {}) EXCEPT !.timer = "rotate"]
             ELSE [pm EXCEPT !.timer = "none"]
    IN  /\ pm.timer = "exp"
        /\ Room \/ pm.proposer # me
        /\ Update(s)
        /\ UNCHANGED raced

(* on_exp_timeout.                                                         *)
OnExpTimeout ==
    LET s == IF pm.proposer = me THEN DoNewConsensus(pm, 0, {}) ELSE pm
    IN  /\ pm.timer = "exp"
        /\ Room \/ pm.proposer # me
        /\ Update([s EXCEPT !.timer = "rotate"])
        /\ UNCHANGED raced

(* The timer that on_exp_timeout starts.                                   *)
RotateTimeout ==
    /\ pm.timer = "rotate"
    /\ Update(Rotate(pm))
    /\ UNCHANGED raced

(* A call that stop_rotate deferred: pending commands are proposed.        *)
Reproposes == pm.deferred > 0 /\ pm.decision_waiting # {}

DeferredCall ==
    LET s == [pm EXCEPT !.deferred = @ - 1]
    IN  /\ pm.deferred > 0
        /\ Room
        /\ Update(IF Reproposes THEN DoNewConsensus(s, 0, s.decision_waiting) ELSE s)
        /\ raced' = (raced \/ (Reproposes /\ pm.rotating))

Next ==
    \/ Command \/ Impeach \/ OnExpTimeout \/ RotateTimeout \/ DeferredCall
    \/ \E b \in Blocks : QcFinish(b)

Spec == Init /\ [][Next]_vars

(* Timers fire: weak fairness of OnExpTimeout and RotateTimeout, each of   *)
(* which disables itself, so that only its guard is left of it.            *)
FairSpec ==
    /\ Spec
    /\ []<>(pm.timer # "exp" \/ (pm.proposer = me /\ ~ Room))
    /\ []<>(pm.timer # "rotate")

-----------------------------------------------------------------------------
(* A rotation in another replica's turn always has a timer that goes on to *)
(* the next replica; without one the pacemaker is dead, because impeach    *)
(* does nothing in a rotation and commands are dropped. Only the deferred  *)
(* call, when it comes after a new impeachment, can take the timer away.   *)
DeadOnlyByRace ==
    pm.rotating /\ pm.proposer # me /\ pm.timer = "none" => raced

(* At most one chain of do_new_consensus calls is waiting for a QC.        *)
OneManualChain ==
    \A b, c \in Blocks : \A i \in DOMAIN pm.callbacks[b], j \in DOMAIN pm.callbacks[c] :
        pm.callbacks[b][i] # beat /\ pm.callbacks[c][j] # beat => b = c /\ i = j

(* Outside rotations a locked pacemaker has a beat waiting for the QC of   *)
(* last_proposed, on a promise that nobody has rejected.                   *)
LockedWaits ==
    pm.locked /\ ~ pm.rotating =>
        /\ pm.last_proposed \in Blocks \ pm.finished
        /\ beat \in Range(pm.callbacks[pm.last_proposed])

(* The replica proposes in its own turn only: a QC that completes in       *)
(* another's turn makes no block. Again the deferred call, when it comes   *)
(* after a new impeachment, and the chain that it starts, are excepted.    *)
OwnTurn == [][pm'.nblk > pm.nblk => pm.proposer = me \/ raced']_vars

(* A rotation comes round: again and again it is the replica's own turn,   *)
(* whatever QCs and commands come or fail to come, except after that race. *)
ComesRound == []<>(pm.proposer = me \/ raced)
=============================================================================
