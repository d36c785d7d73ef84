------------------------------ MODULE TreeVotes ------------------------------
(***************************************************************************)
(* Dissemination and aggregation in a Kauri tree: propose_handler,         *)
(* do_vote, vote_handler and vote_relay_handler of src/src/hotstuff.cpp    *)
(* at every replica. A proposal travels down the tree; leaves answer with  *)
(* MsgVote, and an internal replica collects the signatures of its subtree *)
(* in the block's self_qc and sends them up as one MsgRelay. Certificates  *)
(* are those of module QuorumCert, of either kind.                         *)
(*                                                                         *)
(* Blocks are proposals of one height, so a replica's voting rule accepts  *)
(* only the first one that it delivers. More than one is what a proposer   *)
(* broadcasts when a late vote sets its pipeline back (module Pipeline).   *)
(* A handler runs at once; its continuation runs when the verification     *)
(* threads are done and the block is delivered, in any order.              *)
(***************************************************************************)
EXTENDS QuorumCert

CONSTANTS
    Root,           \* the proposer
    Layouts,        \* the trees: parentPeer of every replica below the root
    Blocks,         \* the proposals
    NoBlock,        \* none of them
    MaxCrashes      \* bound on the replicas that crash

ASSUME TreeAssumption ==
    /\ IsFiniteSet(Nodes) /\ Root \in Nodes
    /\ \A parent \in Layouts :
          /\ Root \notin DOMAIN parent /\ DOMAIN parent \subseteq Nodes
          /\ \A n \in DOMAIN parent : parent[n] \in DOMAIN parent \cup {Root}
          /\ \A S \in SUBSET DOMAIN parent : S # {} => \E n \in S : parent[n] \notin S
    /\ NoBlock \notin Blocks
    /\ MaxCrashes \in Nat

VARIABLES
    kind,       \* the certificate type the program is built with
    parent,     \* the tree that start() laid out
    known,      \* the blocks whose MsgPropose a replica has parsed
    delivered,  \* those it has delivered
    voted,      \* the one its voting rule accepted, or NoBlock
    self_qc,    \* the certificate it holds for each block, {} for nullptr
    msgs,       \* the votes and relays sent so far
    handled,    \* those whose handler has run
    verifying,  \* those whose continuation has not run yet
    crashed,    \* the replicas that crashed
    failed      \* those that an exception or a null pointer ended

build == <<kind, parent>>
vars == <<build, known, delivered, voted, self_qc, msgs, handled, verifying,
          crashed, failed>>

Replicas == DOMAIN parent \cup {Root}

down == crashed \cup failed

childPeers(n) == {c \in DOMAIN parent : parent[c] = n}

(* The set children that start() fills: two levels of the tree.            *)
numberOfChildren(n) ==
    Cardinality(childPeers(n) \cup UNION {childPeers(c) : c \in childPeers(n)})

(* The trees whose replicas below the root have no more than two levels    *)
(* under them: three levels below the root.                                *)
ShallowLayouts ==
    \A p \in Layouts : \A n \in DOMAIN p :
        p[n] \in DOMAIN p /\ p[p[n]] \in DOMAIN p => p[p[p[n]]] = Root

(* config.nmajority, with the nfaulty that the application passes.         *)
nmajority == Cardinality(Replicas) - (Cardinality(Replicas) - 1) \div 3

nullptr == {}

(* The certificate behind a pointer that is not null.                      *)
Deref(ptr) == CHOOSE qc \in ptr : TRUE

(* create_quorum_cert and the replica's own part.                          *)
OwnCert(n) == {add_part(create_quorum_cert(kind), n)}

(* MsgVote has the part certificate of its sender, MsgRelay a certificate. *)
Vote(n, b) == [from |-> n, to |-> parent[n], blk |-> b, cert |-> nullptr]

VoteRelay(n, b, qc) ==
    [from |-> n, to |-> parent[n], blk |-> b, cert |-> {Wire(qc)}]

isVote(m) == m.cert = nullptr

-----------------------------------------------------------------------------
(* The proposer's self-vote in process_block and on_receive_vote: it is    *)
(* left out when the certificate that the block carries, of an ancestor,   *)
(* has its majority. (It is a majority where there is no other replica.)   *)
SelfVote(carried) ==
    IF has_n(carried, nmajority) THEN {create_quorum_cert(kind)}
    ELSE {IF has_n(qc, nmajority) THEN compute(qc) ELSE qc : qc \in OwnCert(Root)}

(* What the next block carries: hqc.second->clone(), where hqc.second is a *)
(* clone of the certificate.                                               *)
Carried(qc) == clone(clone(qc))

(* The certificate of everybody, completed and computed at the proposer.   *)
FullCert(k) ==
    compute(merge_quorum(create_quorum_cert(k),
                         [create_quorum_cert(k) EXCEPT !.rids = Replicas,
                                                       !.sigs = AggregateKeys(Replicas)]))

(* The proposer has broadcast every block and has processed it; the blocks *)
(* carry the certificate of genesis, which is empty, or a complete one.    *)
Init ==
    /\ kind \in Kinds
    /\ parent \in Layouts
    /\ \E qc \in {create_quorum_cert(kind), FullCert(kind)} :
          self_qc = [n \in Replicas |-> [b \in Blocks |->
                       IF n = Root THEN SelfVote(Carried(qc)) ELSE nullptr]]
    /\ known = [n \in Replicas |-> IF n = Root THEN Blocks ELSE {}]
    /\ delivered = known
    /\ voted = [n \in Replicas |-> NoBlock]
    /\ msgs = {} /\ handled = {} /\ verifying = {}
    /\ crashed = {} /\ failed = {}

(* propose_handler: the message is passed on to the children in the same   *)
(* run of the handler that parses it, before anything is verified.         *)
ProposeHandler(n, b) ==
    /\ n \notin down /\ n # Root
    /\ b \in known[parent[n]] \ known[n]
    /\ known' = [known EXCEPT ![n] = @ \cup {b}]
    /\ UNCHANGED <<build, delivered, voted, self_qc, msgs, handled, verifying,
                   crashed, failed>>

(* Mutant of doVote: an internal replica sends its own vote up as well.    *)
doVoteTwice(n, b) ==
    /\ msgs' = msgs \cup {Vote(n, b)}
    /\ self_qc' = [self_qc EXCEPT ![n][b] = IF @ = nullptr THEN OwnCert(n) ELSE @]

(* do_vote.                                                                *)
doVote(n, b) ==
    IF childPeers(n) = {}
    THEN msgs' = msgs \cup {Vote(n, b)} /\ UNCHANGED self_qc
    ELSE /\ self_qc' = [self_qc EXCEPT ![n][b] = IF @ = nullptr THEN OwnCert(n) ELSE @]
         /\ UNCHANGED msgs

(* The block is verified and delivered, and on_receive_proposal decides:   *)
(* the height must be above vheight, the height of the last vote.          *)
Deliver(n, b) ==
    /\ n \notin down
    /\ b \in known[n] \ delivered[n]
    /\ delivered' = [delivered EXCEPT ![n] = @ \cup {b}]
    /\ IF voted[n] = NoBlock
       THEN voted' = [voted EXCEPT ![n] = b] /\ doVote(n, b)
       ELSE UNCHANGED <<voted, self_qc, msgs>>
    /\ UNCHANGED <<build, known, handled, verifying, crashed, failed>>

(* vote_handler and vote_relay_handler: a block that is not delivered yet  *)
(* gets its self_qc here, signed; has_n is called on the pointer untested. *)
Handle(m) ==
    LET n   == m.to
        b   == m.blk
        ptr == IF b \notin delivered[n] /\ self_qc[n][b] = nullptr
               THEN OwnCert(n) ELSE self_qc[n][b]
    IN  /\ m \in msgs \ handled
        /\ n \notin down
        /\ handled' = handled \cup {m}
        /\ self_qc' = [self_qc EXCEPT ![n][b] = ptr]
        /\ IF ptr = nullptr
           THEN failed' = failed \cup {n} /\ UNCHANGED verifying
           ELSE /\ verifying' = IF has_n(Deref(ptr), nmajority)
                                THEN verifying ELSE verifying \cup {m}
                /\ UNCHANGED failed
        /\ UNCHANGED <<build, known, delivered, voted, msgs, crashed>>

(* Mutants of Ready: the replica's own signature is not counted in, or it  *)
(* is counted twice.                                                       *)
ReadyEarly(n, qc) == has_n(qc, numberOfChildren(n))
ReadyNever(n, qc) == has_n(qc, numberOfChildren(n) + 2)

(* The signatures that an internal replica holds are enough to send them.  *)
Ready(n, qc) == has_n(qc, numberOfChildren(n) + 1)

Merge(qc, m) ==
    IF isVote(m) THEN add_part(qc, m.from) ELSE merge_quorum(qc, Deref(m.cert))

(* The continuations return at once: at the proposer a vote never does.    *)
TooLate(n, qc, m) ==
    \/ n # Root /\ Ready(n, qc)
    \/ ~ isVote(m) /\ has_n(qc, nmajority)

(* The continuation of the two handlers: the signatures of an internal     *)
(* replica go up once they are enough. A certificate that does not verify  *)
(* is not sent by vote_handler and makes vote_relay_handler throw; at the  *)
(* proposer, replica 0, it is only tested for relays.                      *)
Verified(m) ==
    LET n   == m.to
        b   == m.blk
        old == Deref(self_qc[n][b])
        mrg == Merge(old, m)
        qc  == IF has_n(mrg, IF n = Root THEN nmajority ELSE numberOfChildren(n) + 1)
               THEN compute(mrg) ELSE mrg
        up  == n # Root /\ Ready(n, mrg)
    IN  /\ m \in verifying
        /\ n \notin down
        /\ b \in delivered[n]
        /\ verifying' = verifying \ {m}
        /\ IF TooLate(n, old, m) THEN UNCHANGED <<self_qc, msgs, failed>>
           ELSE /\ self_qc' = [self_qc EXCEPT ![n][b] = {qc}]
                /\ msgs' = IF up /\ verify(qc) /\ ~ SerializeThrows(clone(qc))
                           THEN msgs \cup {VoteRelay(n, b, clone(qc))} ELSE msgs
                /\ failed' = IF up /\ \/ ~ isVote(m) /\ ~ verify(qc)
                                      \/ verify(qc) /\ SerializeThrows(clone(qc))
                             THEN failed \cup {n} ELSE failed
        /\ UNCHANGED <<build, known, delivered, voted, handled, crashed>>

(* A replica other than the proposer crashes.                              *)
Crash(n) ==
    /\ n \in Replicas \ ({Root} \cup down)
    /\ Cardinality(crashed) < MaxCrashes
    /\ crashed' = crashed \cup {n}
    /\ UNCHANGED <<build, known, delivered, voted, self_qc, msgs, handled,
                   verifying, failed>>

Progress ==
    \/ \E n \in Replicas, b \in Blocks : ProposeHandler(n, b) \/ Deliver(n, b)
    \/ \E m \in msgs : Handle(m) \/ Verified(m)

Next == Progress \/ \E n \in Replicas : Crash(n)

Spec == Init /\ [][Next]_vars

(* No message between live replicas is lost and every live replica's event *)
(* loop and verification threads run: nothing that can happen waits for    *)
(* ever. Crashes need not happen.                                          *)
FairSpec == Spec /\ WF_vars(Progress)

-----------------------------------------------------------------------------
(* The replicas below n in the tree p and n itself: those in every set     *)
(* that has n in it and, with a replica, its children.                     *)
SubtreeOf ==
    [p \in Layouts |-> [n \in DOMAIN p \cup {Root} |->
        {m \in DOMAIN p \cup {Root} :
            \A S \in SUBSET (DOMAIN p \cup {Root}) :
                n \in S /\ (\A c \in DOMAIN p : p[c] \in S => c \in S) => m \in S}]]

Subtree(n) == SubtreeOf[parent][n]

(* "total children": an internal replica relays a block's signatures when  *)
(* it has those of its whole subtree, and so relays them once.             *)
RelayCoversSubtree ==
    \A m \in msgs : ~ isVote(m) => Deref(m.cert).rids = Subtree(m.from)

(* The certificates that replicas hold contain the signature of each of    *)
(* their rids exactly once, aggregated or not, whatever order parts,       *)
(* relays and compute came in; has_n counts them. A signature that is      *)
(* merged twice would make the aggregate invalid.                          *)
EachSignatureOnce ==
    \A n \in Replicas, b \in Blocks : \A qc \in self_qc[n][b] :
        /\ AllSigs(qc) = AggregateKeys(qc.rids)
        /\ \A k \in {numberOfChildren(n) + 1, nmajority} :
              has_n(qc, k) <=> Cardinality(qc.rids) >= k

(* A certificate that completes at the proposer is carried by the next     *)
(* blocks: the clone can be sent, the replicas that parse it verify it,    *)
(* and it still has a majority.                                            *)
CarriedVerifies ==
    \A b \in Blocks : \A qc \in self_qc[Root][b] : has_n(qc, nmajority) =>
        /\ ~ SerializeThrows(Carried(qc))
        /\ verify(Wire(Carried(qc)))
        /\ has_n(Wire(Carried(qc)), nmajority)

(* No replica is ended by the null pointer of hotstuff.cpp:268, by "sigs   *)
(* not aggregated before sending!" or by "Invalid Sigs in intermediate     *)
(* signature!".                                                            *)
NoException == failed = {}

(* vheight is the "height of the block last voted for": the signature of a *)
(* replica other than the proposer is found on at most one block of the    *)
(* height.                                                                 *)
OneSignaturePerHeight ==
    \A n \in Replicas \ {Root}, x, y \in Replicas, b, c \in Blocks :
        /\ \E qc \in self_qc[x][b] : n \in qc.rids
        /\ \E qc \in self_qc[y][c] : n \in qc.rids
        => b = c

(* The signatures that can still reach the proposer are a majority: those  *)
(* it has and those of the subtrees without a crash.                       *)
Enough(b) ==
    LET whole == {c \in childPeers(Root) : Subtree(c) \cap down = {}}
    IN  Cardinality(Deref(self_qc[Root][b]).rids \cup UNION {Subtree(c) : c \in whole})
            >= nmajority

(* A crash costs the proposer the subtree of the child it happened under   *)
(* and no more: as long as the others and what has arrived are a majority, *)
(* it completes a certificate.                                             *)
Certifies ==
    \A b \in Blocks :
        []Enough(b) => <>has_n(Deref(self_qc[Root][b]), nmajority)
=============================================================================
