---------------------------- MODULE AgreedChains ----------------------------
(***************************************************************************)
(* What the consensus core promises its users, without blocks' contents,   *)
(* votes or locks: every replica has a set of decided blocks that only     *)
(* grows, and the sets of any two replicas are comparable.                 *)
(***************************************************************************)
CONSTANTS Replica, Block, b0

VARIABLE chain      \* chain[r]: the blocks r has decided

Init == chain = [r \in Replica |-> {b0}]

(* r decides some more blocks, and ends behind or ahead of every other     *)
(* replica but never beside it.                                            *)
Decide(r) ==
    /\ chain[r] \subseteq chain'[r]
    /\ chain'[r] \subseteq Block
    /\ \A s \in Replica \ {r} :
          chain'[r] \subseteq chain[s] \/ chain[s] \subseteq chain'[r]
    /\ chain' = [chain EXCEPT ![r] = chain'[r]]

Next == \E r \in Replica : Decide(r)

Spec == Init /\ [][Next]_chain
=============================================================================
