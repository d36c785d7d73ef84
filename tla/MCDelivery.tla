----------------------------- MODULE MCDelivery -----------------------------
(***************************************************************************)
(* Instances of Delivery: a chain of replicas r - a - l, and two branches  *)
(* of blocks where the QC of a block may be for the branch that it does    *)
(* not extend, as a pipelining proposer makes them. In the settings either *)
(* one replica is sent all the blocks, or two are sent some of them, the   *)
(* proposals of the others being lost for all; a certificate fails in the  *)
(* middle of the chain, or none does.                                      *)
(***************************************************************************)
EXTENDS Delivery, TLC

CONSTANTS r, a, l

ChainOfReplicas == (a :> r) @@ (l :> a)

Fork == 1 :> {0} @@ 2 :> {0} @@ 3 :> {2} @@ 4 :> {3, 1}
QcOfOtherBranch == 1 :> 0 @@ 2 :> 0 @@ 3 :> 1 @@ 4 :> 2

Setting(below, offered, b) == [below |-> below, offered |-> offered, bad |-> b]

OneOrTwo ==
    {Setting({a}, 1..4, b) : b \in {{}, {3}}}
      \cup {Setting({a, l}, {3}, b) : b \in {{}, {2}}}
      \cup {Setting({a, l}, {2, 3}, {})}
=============================================================================
