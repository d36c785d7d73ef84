---------------------------- MODULE MCTreeVotes ----------------------------
(***************************************************************************)
(* Instances of TreeVotes: trees that start() lays out, as module          *)
(* TreeConfig shows them. A star of four replicas (fanout 3); five and     *)
(* eight replicas at fanout 2, the first with a leaf below the proposer,   *)
(* the second with a relay that is merged into a relay.                    *)
(***************************************************************************)
EXTENDS TreeVotes, TLC

CONSTANTS n0, n1, n2, n3, n4, n5, n6, n7

Star4 == (n1 :> n0) @@ (n2 :> n0) @@ (n3 :> n0)
Tree4 == (n1 :> n0) @@ (n2 :> n0) @@ (n3 :> n1)
Tree5 == Tree4 @@ (n4 :> n1)
Tree8 == Tree5 @@ (n5 :> n2) @@ (n6 :> n2) @@ (n7 :> n3)

Trees == {Star4, Tree5, Tree8}
SmallTree == {Tree4}

ASSUME ShallowAssumption == ShallowLayouts
=============================================================================
