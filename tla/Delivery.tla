------------------------------ MODULE Delivery ------------------------------
(***************************************************************************)
(* Fetching and delivering blocks: propose_handler, async_fetch_blk,       *)
(* on_fetch_blk, async_deliver_blk, on_deliver_blk, req_blk_handler and    *)
(* resp_blk_handler of src/src/hotstuff.cpp with FetchContext of           *)
(* src/include/hotstuff/hotstuff.h, at the replicas of a tree whose root   *)
(* has proposed and delivered every block. Proposals, requests and         *)
(* responses may be lost; a FetchContext asks again when its timer fires.  *)
(* The certificate in a block may fail its verification: vote_handler adds *)
(* a part to a certificate also when it has logged it as invalid.          *)
(*                                                                         *)
(* A handler runs promises that are already resolved on the spot, so it    *)
(* may start, and finish, the delivery of several blocks. Each piece of    *)
(* code is an operator on the record of one replica; its field out holds   *)
(* the messages that the handler sends.                                    *)
(***************************************************************************)
EXTENDS Integers, FiniteSets

CONSTANTS
    Nodes,      \* the replicas
    Root,       \* the proposer
    Parent,     \* Parent[n]: the peer that relays proposals to n
    MaxBlock,   \* blocks are 0..MaxBlock, parents first; 0 is genesis
    ParentOf,   \* ParentOf[b]: the parents of b
    QcRef,      \* QcRef[b]: the block that the QC in b is for
    Settings    \* records: the replicas below the root that are up, the
                \* blocks whose proposals may arrive, the blocks whose
                \* certificate fails its verification

Blocks == 1..MaxBlock

ASSUME DeliveryAssumption ==
    /\ IsFiniteSet(Nodes) /\ Root \in Nodes /\ MaxBlock \in Nat
    /\ Parent \in [Nodes \ {Root} -> Nodes]
    /\ \A b \in Blocks : ParentOf[b] \subseteq 0..(b - 1) /\ QcRef[b] \in 0..(b - 1)
    /\ Settings \subseteq [below : SUBSET (Nodes \ {Root}),
                          offered : SUBSET Blocks, bad : SUBSET Blocks]

VARIABLES
    rep,    \* the replicas
    net,    \* the requests and responses on their way
    setting \* the member of Settings that the behaviour is about

vars == <<rep, net, setting>>

bad == setting.bad

Req(n, to, b) == [type |-> "req", from |-> n, to |-> to, blk |-> b]
Resp(n, to, b) == [type |-> "resp", from |-> n, to |-> to, blk |-> b]

-----------------------------------------------------------------------------
(* async_fetch_blk(b, peer) of replica n when b is not in the storage; who *)
(* is {peer}, or {} for nullptr. The first peer of the context is asked.   *)
AsyncFetchBlk(s, n, b, who) ==
    [s EXCEPT !.blk_fetch_waiting = @ \cup {b},
              !.replicas = [s.replicas EXCEPT ![b] = @ \cup who],
              !.out = IF s.replicas[b] = {}
                      THEN @ \cup {Req(n, p, b) : p \in who} ELSE @]

(* Mutant of StartDelivery: the block of the QC is not fetched.            *)
StartDeliveryNoQc(s, n, b, peer) == [s EXCEPT !.started = @ \cup {b}]

(* The continuation of async_deliver_blk once b is fetched, without the    *)
(* parents: b goes to the verification threads and its qc_ref is fetched.  *)
StartDelivery(s, n, b, peer) ==
    LET t == [s EXCEPT !.started = @ \cup {b}]
    IN  IF QcRef[b] \in s.fetched THEN t
        ELSE AsyncFetchBlk([t EXCEPT !.qc_pending = @ \cup {b}],
                           n, QcRef[b], {peer})

(* async_deliver_blk(b, peer) if it is due: not for a block that is        *)
(* delivered or whose delivery is under way. The parents of a block whose  *)
(* delivery starts are due next.                                           *)
DeliverDue(t, due, n, b, peer) ==
    LET w == [t EXCEPT !.blk_delivery_waiting = @ \cup {b}]
    IN  IF b \notin due \/ b \in t.delivered \cup t.blk_delivery_waiting
        THEN <<t, due>>
        ELSE IF b \in t.fetched
        THEN <<StartDelivery(w, n, b, peer), due \cup ParentOf[b]>>
        ELSE <<AsyncFetchBlk(w, n, b, {peer}), due>>

(* It runs for every b in todo and on the way down to their ancestors.     *)
AsyncDeliverBlk(s, n, todo, peer) ==
    LET go[k \in 0..MaxBlock] ==
          IF k = 0 THEN <<s, todo>>
          ELSE DeliverDue(go[k - 1][1], go[k - 1][2], n, MaxBlock + 1 - k, peer)
    IN  go[MaxBlock][1]

(* promise::all of async_deliver_blk is resolved and values[0] is true. If *)
(* it is false a warning is logged and the context stays as it is.         *)
Deliverable(s, b) ==
    /\ b \notin bad
    /\ b \in s.blk_delivery_waiting
    /\ b \in s.started \cap s.verified
    /\ b \notin s.qc_pending
    /\ ParentOf[b] \subseteq s.delivered

(* on_deliver_blk.                                                         *)
DeliverDone(t, b) ==
    IF Deliverable(t, b)
    THEN [t EXCEPT !.delivered = @ \cup {b}, !.blk_delivery_waiting = @ \ {b}]
    ELSE t

(* It runs for all blocks it resolves the promises of in turn.             *)
OnDeliverBlk(s) ==
    LET go[b \in 0..MaxBlock] == IF b = 0 THEN s ELSE DeliverDone(go[b - 1], b)
    IN  go[MaxBlock]

(* Mutant of OnFetchBlk: only the first who waits for the block is told.   *)
OnFetchBlkForgets(s, n, b) ==
    LET t == [s EXCEPT !.blk_fetch_waiting = @ \ {b}]
    IN  IF b \in s.blk_delivery_waiting \ s.started
        THEN AsyncDeliverBlk(StartDelivery(t, n, b, Parent[n]), n,
                             ParentOf[b], Parent[n])
        ELSE t

(* Mutant of OnFetchBlk: the context is erased and never resolved.         *)
OnFetchBlkUnresolved(s, n, b) ==
    [s EXCEPT !.blk_fetch_waiting = @ \ {b}, !.replicas[b] = {}]

(* on_fetch_blk(b): everyone who waits for b goes on, and the context is   *)
(* erased.                                                                 *)
OnFetchBlk(s, n, b) ==
    LET asked == {x \in s.req_waiting : x[2] = b}
        t == [s EXCEPT !.blk_fetch_waiting = @ \ {b},
                       !.replicas = [s.replicas EXCEPT ![b] = {}],
                       !.qc_pending = {c \in @ : QcRef[c] # b},
                       !.req_waiting = @ \ asked,
                       !.out = @ \cup {Resp(n, x[1], b) : x \in asked}]
    IN  IF b \notin s.blk_fetch_waiting THEN s
        ELSE IF b \in s.blk_delivery_waiting \ s.started
        THEN AsyncDeliverBlk(StartDelivery(t, n, b, Parent[n]), n,
                             ParentOf[b], Parent[n])
        ELSE t

-----------------------------------------------------------------------------
Init ==
    /\ setting \in Settings
    /\ rep = [n \in Nodes |->
                [fetched |-> IF n = Root THEN 0..MaxBlock ELSE {0},
                 delivered |-> IF n = Root THEN 0..MaxBlock ELSE {0},
                 proposed |-> IF n = Root THEN setting.offered ELSE {},
                 blk_fetch_waiting |-> {}, blk_delivery_waiting |-> {},
                 replicas |-> [b \in 0..MaxBlock |-> {}],
                 started |-> {}, verified |-> {}, qc_pending |-> {},
                 req_waiting |-> {}, out |-> {}]]
    /\ net = {}

(* The handler at n leaves the record s, having taken the messages in.     *)
Update(n, s, in) ==
    /\ rep' = [rep EXCEPT ![n] = [s EXCEPT !.out = {}]]
    /\ net' = (net \ in) \cup s.out
    /\ UNCHANGED setting

(* propose_handler: parsing puts the block in the storage, on_fetch_blk is *)
(* not called.                                                             *)
ProposeHandler(n, b) ==
    /\ n \in setting.below
    /\ b \in rep[Parent[n]].proposed \ rep[n].proposed
    /\ LET s == [rep[n] EXCEPT !.proposed = @ \cup {b}, !.fetched = @ \cup {b}]
       IN  Update(n, OnDeliverBlk(AsyncDeliverBlk(s, n, {b}, Parent[n])), {})

(* The verification threads are done with b.                               *)
Verified(n, b) ==
    /\ b \in rep[n].started \ rep[n].verified
    /\ Update(n, OnDeliverBlk([rep[n] EXCEPT !.verified = @ \cup {b}]), {})

(* req_blk_handler: answers now, or when the block is fetched.             *)
ReqBlkHandler(m) ==
    LET n == m.to
        b == m.blk
        s == rep[n]
    IN  /\ m \in net /\ m.type = "req"
        /\ Update(n, IF b \in s.fetched
                     THEN [s EXCEPT !.out = {Resp(n, m.from, b)}]
                     ELSE AsyncFetchBlk([s EXCEPT !.req_waiting = @ \cup {<<m.from, b>>}],
                                        n, b, {}),
                     {m})

(* resp_blk_handler.                                                       *)
RespBlkHandler(m) ==
    LET n == m.to
        s == [rep[n] EXCEPT !.fetched = @ \cup {m.blk}]
    IN  /\ m \in net /\ m.type = "resp"
        /\ Update(n, OnDeliverBlk(OnFetchBlk(s, n, m.blk)), {m})

(* timeout_cb of the FetchContext of b: all its replicas are asked again.  *)
TimeoutCb(n, b) ==
    /\ b \in rep[n].blk_fetch_waiting
    /\ Update(n, [rep[n] EXCEPT !.out = {Req(n, p, b) : p \in rep[n].replicas[b]}], {})

(* A message is lost with its connection.                                  *)
Lose(m) == m \in net /\ net' = net \ {m} /\ UNCHANGED <<rep, setting>>

Next ==
    \/ \E n \in Nodes, b \in Blocks :
          ProposeHandler(n, b) \/ Verified(n, b) \/ TimeoutCb(n, b)
    \/ \E m \in net : ReqBlkHandler(m) \/ RespBlkHandler(m) \/ Lose(m)

Spec == Init /\ [][Next]_vars

(* Threads and timers run, and of the messages that a replica sends again  *)
(* and again, or is sent, some get through; proposals may all be lost. The *)
(* first conjunct is weak fairness of Verified and TimeoutCb, each of      *)
(* which disables itself; the others are strong fairness of the handlers,  *)
(* with ENABLED written out. TLC evaluates them much faster so.            *)
Fairness ==
    \A n \in Nodes \ {Root} :
        /\ \A b \in Blocks : /\ []<>(b \notin rep[n].started \ rep[n].verified)
                             /\ []<>(\/ rep[n].replicas[b] = {}
                                     \/ Req(n, Parent[n], b) \in net)
        /\ \/ <>[](\A m \in net : m.type = "req" => m.from # n)
           \/ []<><<\E m \in net : m.from = n /\ ReqBlkHandler(m)>>_vars
        /\ \/ <>[](\A m \in net : m.type = "resp" => m.to # n)
           \/ []<><<\E m \in net : m.to = n /\ RespBlkHandler(m)>>_vars

FairSpec == Spec /\ Fairness

-----------------------------------------------------------------------------
(* "A block is only delivered if itself is fetched, the block for the      *)
(* contained qc is fetched and all parents are delivered": the assertion   *)
(* of HotStuffBase::on_deliver_blk and the throw of the core's never fire. *)
(* Below the proposer its certificate has been verified too, so nothing is *)
(* delivered that rests on a bad block.                                    *)
DeliveredClosed ==
    \A n \in Nodes : \A b \in rep[n].delivered \ {0} :
        /\ n = Root \/ b \notin bad
        /\ {b, QcRef[b]} \subseteq rep[n].fetched
        /\ ParentOf[b] \subseteq rep[n].delivered

(* Whatever a delivery waits for is under way: its block is being fetched  *)
(* from somebody or has started, a QC's block is being fetched, a parent   *)
(* is being delivered. A context that only req_blk_handler opened asks     *)
(* nobody.                                                                 *)
WaitsForSomething ==
    \A n \in Nodes : LET s == rep[n] IN
        /\ \A b \in s.blk_delivery_waiting \ s.started :
              b \in s.blk_fetch_waiting /\ s.replicas[b] # {}
        /\ \A b \in s.qc_pending :
              QcRef[b] \in s.blk_fetch_waiting /\ s.replicas[QcRef[b]] # {}
        /\ \A b \in s.blk_delivery_waiting \cap s.started :
              ParentOf[b] \subseteq s.delivered \cup s.blk_delivery_waiting

(* The blocks that a block rests on, itself included.                      *)
Ancestry(b) ==
    LET up[c \in 0..MaxBlock] ==
          IF c = 0 THEN {0} ELSE {c} \cup UNION {up[d] : d \in ParentOf[c]}
    IN  up[b]

(* Again and again all proposals that have reached a replica are delivered *)
(* there with their ancestors (and delivered blocks stay so), whatever     *)
(* proposals, requests and responses were lost and whatever other blocks   *)
(* are stuck, if the certificates of the block and its ancestors verify.   *)
ProposedDelivered ==
    []<>(\A n \in Nodes : \A b \in rep[n].proposed :
            Ancestry(b) \cap bad = {} => Ancestry(b) \subseteq rep[n].delivered)
=============================================================================
