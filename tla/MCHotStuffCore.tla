--------------------------- MODULE MCHotStuffCore ---------------------------
(***************************************************************************)
(* Scenarios of HotStuffCore for TLC. A history in which two branches      *)
(* compete for a commit takes some ten blocks, too many for every order of *)
(* every step. A scenario is therefore a sequence of steps that a          *)
(* behaviour begins with, each of them an action of HotStuffCore, and what *)
(* may happen after it: any steps of the replicas in live, of which those  *)
(* in proposers make blocks, up to limit blocks altogether. Blocks are     *)
(* numbered in the order of their creation and 0 is genesis.               *)
(***************************************************************************)
EXTENDS HotStuffCore, Sequences

CONSTANTS r1, r2, r3

VARIABLES
    scenario,
    at          \* how many of its first steps have been taken

(* r makes block b; s gets it and votes for it, and r has the QC.          *)
Round(r, s, b) ==
    << <<"Propose", r, b>>, <<"DeliverBlk", s, b>>,
       <<"ReceiveProposal", s, b>>, <<"QcFinish", r, b>> >>

(* Two proposers have made a block each, of one height.                    *)
Forked ==
    [steps |-> << <<"Propose", r1, 1>>, <<"Propose", r2, 2>> >>,
     live |-> {r1, r2, r3}, proposers |-> {r1, r2}, limit |-> 5]

(* One block is certified, and r2 has not seen it.                         *)
Ahead ==
    [steps |-> Round(r1, r3, 1),
     live |-> {r1, r2, r3}, proposers |-> {r1, r2}, limit |-> 5]

(* r2 has built a branch by itself; r1 and r3 have certified three blocks  *)
(* of another, r1 has committed the first of them and stops. r2 brings its *)
(* branch, the higher of the two or not, to r3 and goes on with it.        *)
Locked ==
    [steps |-> << <<"Propose", r2, 1>>, <<"Propose", r2, 2>>, <<"Propose", r2, 3>> >>
               \o Round(r1, r3, 4) \o Round(r1, r3, 5) \o Round(r1, r3, 6)
               \o << <<"Propose", r1, 7>> >>,
     live |-> {r2, r3}, proposers |-> {r2}, limit |-> 12]

Step(act, r, b) ==
    \/ act = "Propose" /\ Propose(r, b)
    \/ act = "DeliverBlk" /\ DeliverBlk(r, b)
    \/ act = "ReceiveProposal" /\ ReceiveProposal(r, b)
    \/ act = "QcFinish" /\ QcFinish(r, b)

Scripted ==
    /\ at < Len(scenario.steps)
    /\ at' = at + 1
    /\ LET s == scenario.steps[at'] IN Step(s[1], s[2], s[3])

Free ==
    /\ at = Len(scenario.steps)
    /\ UNCHANGED at
    /\ \E r \in scenario.live :
          \/ /\ r \in scenario.proposers
             /\ \/ /\ Cardinality(blocks) < scenario.limit
                   /\ Propose(r, Cardinality(blocks))
                \/ ProposeThrows(r)
                \/ \E b \in blocks : QcFinish(r, b)
          \/ \E b \in blocks : DeliverBlk(r, b) \/ ReceiveProposal(r, b)

MCInit == Init /\ at = 0 /\ scenario \in {Forked, Ahead, Locked}

MCNext == (Scripted \/ Free) /\ UNCHANGED scenario

MCSpec == MCInit /\ [][MCNext]_<<vars, at, scenario>>
=============================================================================
