----------------------------- MODULE QuorumCert -----------------------------
(***************************************************************************)
(* The two quorum certificates of src/include/hotstuff/crypto.h and        *)
(* src/src/crypto.cpp: QuorumCertSecp256k1, a map of signatures, which the *)
(* application is built with, and QuorumCertAggBLS, whose signatures are   *)
(* added up with the PopSchemeMPL of src/bls/src/schemes.cpp.              *)
(*                                                                         *)
(* A certificate is a record; obj_hash is the block it is kept under, so   *)
(* it is left out. BLS keys and signatures of one block are points of      *)
(* groups in which the signers' points are independent: a point is the     *)
(* number of times that each signer's is in the sum.                       *)
(***************************************************************************)
EXTENDS Integers, FiniteSets

CONSTANT Nodes      \* the replicas of config.replica_map

Kinds == {"secp", "bls"}

Points == [Nodes -> Nat]

Infinity == [n \in Nodes |-> 0]

PlusPoint(p, q) == [n \in Nodes |-> p[n] + q[n]]

(* PopSchemeMPL::Sign, the share of one signer; CoreMPL::Aggregate over    *)
(* the public keys of a set of signers.                                    *)
Sign(n) == [m \in Nodes |-> IF m = n THEN 1 ELSE 0]
AggregateKeys(S) == [m \in Nodes |-> IF m \in S THEN 1 ELSE 0]

(* PopSchemeMPL::FastAggregateVerify: the pairing of the aggregated key    *)
(* with the message equals that of the generator with the signature.       *)
FastAggregateVerify(S, sig) == S # {} /\ sig = AggregateKeys(S)

-----------------------------------------------------------------------------
(* theSig is {} for nullptr. sigs stands for the sum of the vector, which  *)
(* is Infinity just when the vector is empty, and for the keys of the map  *)
(* of a secp certificate.                                                  *)
Certs == [kind : Kinds, rids : SUBSET Nodes, theSig : SUBSET Points,
          sigs : Points, n : Nat]

create_quorum_cert(kind) ==
    [kind |-> kind, rids |-> {}, theSig |-> {}, sigs |-> Infinity, n |-> 0]

(* Where add_part and merge_quorum of a BLS certificate start: an          *)
(* aggregate that is alone goes back into the vector.                      *)
Reopen(qc) ==
    IF qc.kind = "bls" /\ qc.sigs = Infinity /\ qc.theSig # {}
    THEN [qc EXCEPT !.sigs = CHOOSE p \in qc.theSig : TRUE, !.theSig = {}]
    ELSE qc

calculateN(qc) ==
    [qc EXCEPT !.n = IF qc.kind = "bls" THEN Cardinality(qc.rids) ELSE 0]

add_part(qc, rid) ==
    LET o == Reopen(qc)
    IN  calculateN([o EXCEPT !.rids = @ \cup {rid},
                             !.sigs = IF qc.kind = "bls"
                                      THEN PlusPoint(@, Sign(rid))
                                      ELSE [@ EXCEPT ![rid] = 1]])

(* The signatures a certificate holds, aggregated or not.                  *)
AllSigs(qc) ==
    LET p == IF qc.theSig = {} THEN Infinity ELSE CHOOSE q \in qc.theSig : TRUE
    IN  PlusPoint(qc.sigs, p)

merge_quorum(qc, other) ==
    LET o == Reopen(qc)
    IN  calculateN([o EXCEPT !.rids = @ \cup other.rids,
                             !.sigs = IF qc.kind = "bls"
                                      THEN PlusPoint(@, AllSigs(other))
                                      ELSE [m \in Nodes |->
                                              IF other.sigs[m] = 1 THEN 1 ELSE @[m]]])

has_n(qc, t) ==
    IF qc.kind = "bls" THEN qc.n >= t
    ELSE Cardinality({m \in Nodes : qc.sigs[m] = 1}) >= t

(* Mutant of compute: the parts stay in the vector.                        *)
computeKeepsParts(qc) ==
    IF qc.kind = "bls" /\ qc.theSig = {} THEN [qc EXCEPT !.theSig = {qc.sigs}]
    ELSE qc

compute(qc) ==
    IF qc.kind = "bls" /\ qc.theSig = {}
    THEN [qc EXCEPT !.theSig = {qc.sigs}, !.sigs = Infinity]
    ELSE qc

verify(qc) ==
    IF qc.kind = "bls"
    THEN \E p \in qc.theSig : FastAggregateVerify(qc.rids, p)
    ELSE \A m \in qc.rids : qc.sigs[m] = 1

(* The copy constructors: the BLS one copies rids and theSig only.         *)
clone(qc) ==
    IF qc.kind = "bls" THEN [qc EXCEPT !.sigs = Infinity, !.n = 0] ELSE qc

(* serialize throws "sigs not aggregated before sending!", or the at() of  *)
(* a map without the signature does.                                       *)
SerializeThrows(qc) ==
    IF qc.kind = "bls" THEN qc.theSig # {} /\ qc.sigs # Infinity
    ELSE \E m \in qc.rids : qc.sigs[m] = 0

(* What unserialize makes of what serialize writes.                        *)
Wire(qc) ==
    IF qc.kind = "bls" THEN calculateN([qc EXCEPT !.sigs = Infinity])
    ELSE [qc EXCEPT !.sigs = [m \in Nodes |-> IF m \in qc.rids THEN @[m] ELSE 0]]
=============================================================================
