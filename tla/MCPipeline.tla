----------------------------- MODULE MCPipeline -----------------------------
(***************************************************************************)
(* The proposer of Pipeline with the messages that its children really     *)
(* send. In RelaySpec they answer every block at any time. In VotingSpec   *)
(* they answer the blocks that a replica votes for which receives every    *)
(* proposal in the order of the broadcasts, and the answers come back in   *)
(* that order too, but for the one that is delayed. The children in Late   *)
(* answer about a few blocks only, and after those have their QC.          *)
(***************************************************************************)
EXTENDS Pipeline

CONSTANTS
    Late,           \* the children that are slow
    LateBlocks,     \* the blocks they answer about
    Delayed,        \* the block whose messages are late
    DelayedUntil    \* the number of blocks that are proposed before they come

OnTime(c, b) == c \in Late => b \in LateBlocks /\ Complete(p, b)

Relays ==
    \E c \in Children, b \in Blocks :
        OnTime(c, b) /\ (Arrive(c, b) \/ Verified(c, b))

RelaysDone ==
    /\ verifying = {}
    /\ \A c \in Children, b \in 1..p.n : OnTime(c, b) => <<c, b>> \in arrived

RelayNext == Beat \/ LatencyElapses \/ Relays

(* Clients keep sending commands, time passes, and no message is lost or   *)
(* stays in a queue for ever. Each conjunct is the weak fairness of its    *)
(* action, with ENABLED written out: TLC evaluates it much faster so.      *)
Fairness ==
    /\ []<>(p.failed # "no" \/ AfterBeat = p) \/ []<><<Beat>>_vars
    /\ []<>(p.failed # "no" \/ ~ p.recent) \/ []<><<LatencyElapses>>_vars
    /\ []<>(p.failed # "no" \/ RelaysDone) \/ []<><<Relays>>_vars

RelaySpec == Init /\ [][RelayNext]_vars /\ Fairness

-----------------------------------------------------------------------------
(* on_receive_proposal for the blocks 1, 2, ... at a child: update moves   *)
(* b_lock and commits, then the voting rule; a child that throws is gone.  *)
OnReceiveProposal(s) ==
    LET receive[b \in 0..s.n] ==
            IF b = 0
            THEN [core |-> [s EXCEPT !.b_exec = 0, !.decided = {0}, !.vheight = 0],
                  b_lock |-> 0, votes |-> {}]
            ELSE LET c    == receive[b - 1]
                     blk2 == s.qc_ref[b]
                     blk1 == s.qc_ref[blk2]
                     u    == Commit(c.core, blk2)
                     lock == IF /\ {blk2, blk1} \cap c.core.decided = {}
                                /\ s.height[blk1] > s.height[c.b_lock]
                             THEN blk1 ELSE c.b_lock
                     opinion == /\ s.height[b] > u.vheight
                                /\ \/ s.height[blk2] > s.height[lock]
                                   \/ lock \in s.branch[b]
                 IN  IF u.failed # "no" THEN [c EXCEPT !.core = u]
                     ELSE IF ~ opinion THEN [c EXCEPT !.core = u, !.b_lock = lock]
                     ELSE [core |-> [u EXCEPT !.vheight = s.height[b]],
                           b_lock |-> lock, votes |-> c.votes \cup {b}]
    IN  receive[s.n]

(* Nothing that should come before a message of b is still on its way.     *)
InTurn(votes, b) ==
    /\ b = Delayed => p.n >= DelayedUntil
    /\ \A a \in votes \ {Delayed}, c \in Children \ Late :
          a < b => <<c, a>> \in arrived \ verifying

HandleVotes ==
    LET votes == OnReceiveProposal(p).votes
    IN  \E c \in Children :
           \/ \E b \in votes :
                 /\ OnTime(c, b)
                 /\ c \in Late \/ InTurn(votes, b)
                 /\ Arrive(c, b)
           \/ \E b \in Blocks : Verified(c, b)

VotingNext == Beat \/ LatencyElapses \/ HandleVotes

VotingSpec == Init /\ [][VotingNext]_vars
=============================================================================
