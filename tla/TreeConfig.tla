----------------------------- MODULE TreeConfig -----------------------------
(***************************************************************************)
(* The tree that HotStuffBase::start lays over the list of replicas: three *)
(* nested loops over the levels, the parents of a level and the children   *)
(* of a parent. Every replica runs them over the same list and keeps what  *)
(* concerns its own id; the model keeps the result of all of them.         *)
(***************************************************************************)
EXTENDS Integers, FiniteSets, FiniteSetsExt

CONSTANTS
    Sizes,      \* the numbers of replicas to try
    Fanouts     \* the values of config.fanout to try

ASSUME ConfigAssumption ==
    /\ Sizes \subseteq Nat \ {0} /\ Fanouts \subseteq Nat \ {0}
    /\ \E m \in Sizes : \A n \in Sizes : n <= m

(* Replica ids, and the parent of a replica that was given none.           *)
Ids == 0..(Max(Sizes) - 1)
NoParent == -1

VARIABLES
    size, fanout,
    i,                  \* the replica whose children are assigned next
    processesOnLevel,
    remaining, curr_fanout, start, counter,
    done,
    pc,                 \* at the head of the outer loop, of the next one, or after
    childPeers, parentPeer,
    children,           \* the set whose size becomes numberOfChildren
    overrun             \* replicas[size] was read

loop == <<size, fanout, i, processesOnLevel, remaining, curr_fanout, start,
          counter, done, pc>>
tree == <<childPeers, parentPeer, children>>
vars == <<loop, tree, overrun>>

Least(a, b) == IF a < b THEN a ELSE b

-----------------------------------------------------------------------------
Init ==
    /\ size \in Sizes /\ fanout \in Fanouts
    /\ i = 0 /\ processesOnLevel = 1 /\ done = FALSE
    /\ remaining = 0 /\ curr_fanout = 0 /\ start = 0 /\ counter = 0
    /\ pc = "level"
    /\ childPeers = [n \in Ids |-> {}]
    /\ children = [n \in Ids |-> {}]
    /\ parentPeer = [n \in Ids |-> NoParent]
    /\ overrun = FALSE

(* Mutant of FanoutOn: the replicas of the level are not among those that  *)
(* remain, and the division still rounds down.                             *)
FanoutOnShort(rest) == Least((rest - processesOnLevel) \div processesOnLevel, fanout)

(* max_fanout is computed by an integer division (inside ceil).            *)
FanoutOn(rest) == Least(rest \div processesOnLevel, fanout)

(* Mutant of FirstChild: the children are taken from the level itself.     *)
FirstChildOnLevel == i + 1

(* The first replica below the level of i.                                 *)
FirstChild == i + processesOnLevel

(* The head of while (i < size).                                           *)
Level ==
    /\ pc = "level" /\ i < size /\ ~ done
    /\ remaining' = size - i
    /\ curr_fanout' = FanoutOn(size - i)
    /\ start' = FirstChild
    /\ counter' = 1
    /\ pc' = "parents"
    /\ UNCHANGED <<size, fanout, i, processesOnLevel, done, tree, overrun>>

(* Mutant of Adopted: only a replica's own children are counted.           *)
AdoptedDirect(n, new) == IF n = i THEN new ELSE {}

(* What replica n adds to children while i is given the children new.      *)
Adopted(n, new) == IF n = i \/ i \in childPeers[n] THEN new ELSE {}

(* One run of the loop over the parents of a level, with the loop over j.  *)
(* The last assignment reads replicas[i] for the i of the next run.        *)
Adopt ==
    LET new == {j \in start..(start + curr_fanout - 1) : j < size}
    IN  /\ pc = "parents" /\ counter <= processesOnLevel /\ ~ done
        /\ childPeers' = [childPeers EXCEPT ![i] = @ \cup new]
        /\ parentPeer' = [n \in Ids |-> IF n \in new THEN i ELSE parentPeer[n]]
        /\ children' = [n \in Ids |-> children[n] \cup Adopted(n, new)]
        /\ done' = (start + curr_fanout > size)
        /\ start' = start + curr_fanout
        /\ i' = i + 1
        /\ counter' = counter + 1
        /\ overrun' = (overrun \/ i + 1 >= size)
        /\ UNCHANGED <<size, fanout, processesOnLevel, remaining, curr_fanout, pc>>

(* The end of a level.                                                     *)
EndLevel ==
    /\ pc = "parents" /\ (counter > processesOnLevel \/ done)
    /\ processesOnLevel' = Least(curr_fanout * processesOnLevel, remaining)
    /\ pc' = "level"
    /\ UNCHANGED <<size, fanout, i, remaining, curr_fanout, start, counter, done,
                   tree, overrun>>

Stop ==
    /\ pc = "level" /\ (i >= size \/ done)
    /\ pc' = "stop"
    /\ UNCHANGED <<size, fanout, i, processesOnLevel, remaining, curr_fanout,
                   start, counter, done, tree, overrun>>

Next == Level \/ Adopt \/ EndLevel \/ Stop

Spec == Init /\ [][Next]_vars

-----------------------------------------------------------------------------
Replicas == 0..(size - 1)

Descendants(n) ==
    LET below[k \in 0..size] ==
            IF k = 0 THEN childPeers[n]
            ELSE LET b == below[k - 1] IN b \cup UNION {childPeers[c] : c \in b}
    IN  below[size]

(* The loops end with a tree on all replicas: everyone but 0 has a parent, *)
(* which it is a child of, and hangs below 0; no parent has more children  *)
(* than the fanout.                                                        *)
Spanning ==
    pc = "stop" =>
        /\ Descendants(0) = Replicas \ {0}
        /\ \A n \in Replicas, c \in Replicas :
              c \in childPeers[n] <=> parentPeer[c] = n
        /\ parentPeer[0] = NoParent
        /\ \A n \in Replicas : Cardinality(childPeers[n]) <= fanout

(* The first replica four levels below 0, that is the number of replicas   *)
(* that four full levels hold.                                             *)
Level4 == 1 + fanout + fanout * fanout + fanout * (fanout * fanout)

(* numberOfChildren, the number of votes that a replica other than the     *)
(* proposer waits for, is meant as "total children", all its descendants;  *)
(* the loops count children and grandchildren. That comes to the same for  *)
(* everyone if and only if the tree has at most four levels: with one      *)
(* replica more, one below the proposer waits for too few votes.           *)
CountsSubtree ==
    pc = "stop" =>
        ((\A n \in Replicas \ {0} : children[n] = Descendants(n)) <=> size <= Level4)

(* The list of replicas is not read beyond its end.                        *)
InRange == ~ overrun
=============================================================================
