----------------------------- MODULE MCVeriPool -----------------------------
(***************************************************************************)
(* Instances of VeriPool: two blocks, the second with one signature, and   *)
(* a relay for the second with two more.                                   *)
(***************************************************************************)
EXTENDS VeriPool

TwoBlocks == <<0, 1>>
ForTheSecond == [r \in Relays |-> [blk |-> 2, sigs |-> 2]]

(* The relay and the proposal in either order, or a pacemaker that gives   *)
(* up while a proposal is delivered.                                       *)
RelayOrWait == {[proposed |-> {2}, relays |-> Relays, waits |-> 0],
                [proposed |-> {1}, relays |-> {}, waits |-> 2]}
=============================================================================
