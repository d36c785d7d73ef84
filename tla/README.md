# A TLA+ model of Kauri

Kauri is a BFT state machine replication prototype that derives from libhotstuff. It replaces
HotStuff's star by a tree: the proposer's blocks travel down the tree, signatures are aggregated
on the way up, and the proposer pipelines several blocks to hide the tree's latency. This
directory holds TLA+ modules translated from the C++ code, TLC configurations that check them on
small instances, and TLAPS proofs, for every value of the constants, about each of the modelled
components. `PROJECT.json` maps definitions to source lines and lists runs, mutants, hazards,
findings and theorems.

Paths below are relative to the repository: `consensus.cpp` and `hotstuff.cpp` are under
`src/src`, headers under `src/include/hotstuff`.

## 1. Inventory

| Part | State | Operations | What makes it correct |
|---|---|---|---|
| Consensus core, `HotStuffCore` (`consensus.cpp`) | `hqc`, `b_lock`, `b_exec`, `vheight`, `tails`, the block tree, each block's `delivered`, `decision`, `voted`, `self_qc`; waiting promises | `on_propose`, `process_block`, `on_deliver_blk`, `update`, `update_hqc`, `on_receive_proposal`, `on_receive_vote`, `on_qc_finish`, `async_*` | all replicas execute one branch; one vote per height; state only advances |
| Pacemaker `PMHighTail` + `PMWaitQC` (`liveness.h`) | `hqc_tail`, `last_proposed`, `locked`, `pending_beats` | `beat`, `schedule_next`, callbacks on hqc updates and proposals | a proposal extends the hqc it carries; no beat is lost |
| Proposer pipeline (`hotstuff.cpp`, `beat` and the vote handlers) | `piped_queue`, `rdy_queue`, `last_block_time`, `piped_submitted`, `b_normal_height` | pipelined and regular proposals; finishing blocks in queue order | order, no stall, queues that agree, no exception |
| Tree (`start`) | `parentPeer`, `childPeers`, `numberOfChildren` | three nested loops over the replica list | a spanning tree; the count is the size of the subtree |
| Dissemination and aggregation (`propose_handler`, `do_vote`, `vote_handler`, `vote_relay_handler`) | `self_qc` of each block, votes waiting for the verification threads | relay a proposal, sign, merge, relay signatures | a relay covers its subtree once; certificates complete |
| Delivery (`async_fetch_blk`, `async_deliver_blk`, `FetchContext`) | `blk_fetch_waiting`, `blk_delivery_waiting`, storage, timers | fetch, retry, deliver parents first | a delivered block is complete; a received proposal is delivered |
| Commands and clients (`exec_command`, the handler in `start`, `hotstuff_app.cpp`, `hotstuff_client.cpp`) | `cmd_pending`, `cmd_pending_buffer`, `final_buffer`, `decision_waiting`, the client's window | enqueue, fill a block, answer | each command is decided and answered once |
| Quorum certificates (`crypto.h`, `crypto.cpp`) | `rids`, `sigs`, `n`, the aggregate `theSig` | `add_part`, `merge_quorum`, `compute`, `clone`, `has_n`, `verify`, `serialize`, `unserialize` | each signature is in once, `has_n` counts signers, what a block carries verifies |
| Round-robin pacemaker (`liveness.h`) | `proposer`, `rotating`, `prop_blk`, timers, promises shared with `qc_waiting` | `rotate`, `stop_rotate`, `do_new_consensus`, `on_exp_timeout`, `impeach` | a rotation comes round; proposals in one's own turn only |
| Promises (`promise.hpp`), `VeriPool` (`task.h`), storage (`entity.h`) | callbacks; two queues and a map; maps with reference counts | resolve, reject, `all`; enqueue, verify; add, find, release | callbacks run once; each task is answered once |

How they interact: one event loop runs every handler of a replica to its end. `VeriPool`'s
threads verify signatures; their results come back to the loop as resolved promises, so the
continuation of a handler runs later and in any order relative to other handlers. Promises run
callbacks on the spot, which nests handlers deeply: a completed QC resolves a waiting beat, the
beat proposes a block, the proposal resolves the pacemaker's promises. Replicas talk through
`MsgPropose` (down), `MsgVote` and `MsgRelay` (up), `MsgReqBlock` and `MsgRespBlock`.

What is hard: votes for several pipelined blocks that return in any order; state that a handler
reads before verification and a continuation uses after it; references and iterators kept across
nested callbacks; cached choices (`hqc_tail`, `last_proposed`); waiting for *all* descendants
without a timeout; lost proposals and fetches; integer arithmetic in the tree layout. The list
`hazards` in `PROJECT.json` gives the lines, and the properties that watch each.

## 2. Modules

| Module | Models |
|---|---|
| `HotStuffCore` | the core and `PMHighTail` at every replica, without pipelining |
| `AgreedChains` | what the core promises: growing decided sets, pairwise comparable |
| `HotStuffCoreProofs` | the theorems about `HotStuffCore` |
| `CommandsProofs`, `TreeVotesProofs`, `DeliveryProofs`, `RoundRobinProofs`, `TreeConfigProofs`, `PipelineProofs`, `VeriPoolProofs` | the theorems about the module of that name |
| `Pipeline` | the proposer: core, pacemaker, `beat`, both queues, its vote handlers |
| `QuorumCert` | both certificate types, as operators |
| `TreeVotes` | proposals and signatures in the tree, at every replica, with the certificates of `QuorumCert` and crashes |
| `TreeConfig` | the loops of `start` that lay out the tree |
| `Delivery` | fetching and delivering blocks over a network that loses messages |
| `Commands` | clients, the application's threads, the command queue and its batches |
| `RoundRobin` | the round-robin pacemaker at the replica that clients send to |
| `VeriPool` | promises callback by callback, the verification threads, and the handlers that wait for them |
| `MCPipeline` | the proposer with the messages that its children send: any, or those of children that obey the voting rule; some of them late |
| `MCHotStuffCore` | three scenarios with forks, as first steps of a behaviour, for TLC |
| `MCTreeVotes`, `MCDelivery`, `MCVeriPool` | constants and symmetry for TLC |

**HotStuffCore.** The block tree is global (`blocks`, `parent`, `qc_ref`, `height`, `branch`);
each replica has the fields of the class under their names. `branch[b]` is the set of blocks a
walk along `parents[0]` meets, so a loop over parents becomes a membership test. Actions:
`Propose` (all of `on_propose` and `process_block`, the pacemaker's callback included),
`ProposeThrows` (the same up to the exception about `vheight`, after `update` has locked and
committed), `DeliverBlk`, `ReceiveProposal` (`update`, the voting rule, the pacemaker,
`do_vote`), `QcFinish` (the vote that completes a QC). Votes are pairs <<replica, block>> that are
never withdrawn; a QC is the fact that a quorum has voted, so delay, loss and duplication of
votes need no action of their own. A replica that stops is one that takes no more steps. A
proposal can be processed again and again, as a repeated message. All replicas follow the code:
Byzantine behaviour is not modelled. No action throws "safety breached": it would need a state in which
`Breach` holds, and the lemma `NoBreach` shows that no reachable state is one. Here a replica votes only through its voting rule; that the
tree code can sign a block earlier is shown in `TreeVotes`.

**Pipeline.** The proposer is one record `p` and every function of the code an operator from
records to records, because the code nests them. `Beat` is a client command arriving with
`final_buffer` full; `LatencyElapses` the clock passing `piped_latency`; `Arrive` the start of a
vote handler for the message of a child; `Verified` its continuation. `Leaf` children send
`MsgVote`, the others `MsgRelay`, whose handlers treat the queues differently. An uncaught
exception, or an operation on a deque that has no defined result, ends the proposer and is
recorded in `p.failed`. `EraseRdy` gives the reference that line 512 uses after the erase of line
511 the value that libstdc++'s `std::deque::erase` leaves in that slot (it moves the shorter side);
`stale_front` is what `front()` reads after the queue was emptied by `erase`. `newest_first`
picks one of two orders of block addresses, which decide ties in `PMHighTail`. `Need` is how many
children's messages complete a QC; when it is less than the number of children, the messages of
the others come late, for a block that has its QC. `b_lock` plays no part at the proposer and is left out. The literal 10 of
`schedule_next` is `RecoveryLag`, so that small instances reach the recovery branch. In `Pipeline` the
children answer every block. `MCPipeline` restricts that in two ways, and its behaviours are behaviours of
`Pipeline`. In both, the children in `Late` answer only about `LateBlocks`, and after those have their QC.
`RelaySpec` leaves the others as they are and adds the fairness. `VotingSpec` adds the children's side
(`OnReceiveProposal`: the commits, `b_lock` and the voting rule of a replica that gets every proposal in order)
and lets only the blocks it votes for be answered, in order but for one block, `Delayed`.

**QuorumCert.** A certificate is a record with the fields of `QuorumCertAggBLS`; a secp certificate
uses `rids` and, in `sigs`, the keys of its map. Signatures of one block are vectors that say how
often each signer's point is in the sum, so that a signature added twice makes
`FastAggregateVerify` fail, as in the group. `Reopen` is what `add_part` and `merge_quorum` do with an
aggregate that is alone; `clone` is the copy constructor, which for BLS drops `sigs` and `n`; `Wire`
is `unserialize` after `serialize`. That nobody forges a signature is assumed.

**TreeVotes.** Blocks are proposals of one height; `self_qc` holds the certificate of a block, with
{} for the null pointer. `Handle` is what a handler does when a message arrives, `Verified` the
continuation, after both verification and delivery. The proposer starts with every block
broadcast and with its self-vote, which depends on the certificate that the block carries
(`SelfVote`, `Carried`): that of genesis or a complete one. `kind` is the certificate type of the
build and `parent` one of the trees that `start` lays out; both are chosen at the beginning. A
replica stops by `Crash`, by using the null pointer or by an exception.

**TreeConfig.** The loops' variables keep their names; the model runs them once and records the
outcome for every replica id, where the code keeps what concerns its own.

**Delivery.** The proposer holds all blocks. Each other replica has the contexts of fetches and
deliveries as sets; a handler's nested promises are folded into one step (`AsyncDeliverBlk` goes
down to the parents, `OnDeliverBlk` back up). Receiving a proposal stores the block without
`on_fetch_blk`, as the parser does, so a fetch that waits for it goes on until a response comes.
A proposal is lost if its handler never runs; `Lose` drops requests and responses. `Verified` is
the result of the verification threads, negative for the blocks in `bad`: such a delivery stays
open for ever, as in the code. `Settings` lists which replicas take part, which blocks they are
offered and which are bad. The
`async_deliver_blk` of the vote handlers adds nothing here: a child votes only for proposals that
its parent has passed on and therefore already delivers. Handlers erase through an iterator that
was found before callbacks inserted into the same map (`hotstuff.cpp:105`, `144-151`,
`consensus.cpp:422`); libstdc++'s node-based maps keep such an iterator valid, and the models do too.

**Commands.** Clients, the request thread (`ClientRequestCmdHandler`), the main loop
(`CmdPendingHandler`, one command at a time as `try_dequeue` hands them out), consensus (`Propose`)
and the response thread (`RespHandler`). The handler tells every command of the proposer at once
(decision 0), the first `blk_size` of them fill `final_buffer`, which is never emptied, and every other
command is a beat. Consensus is what `Pipeline` shows for `async_blocks = 0`: one block per beat,
each committing the third before it. `told` is a history of what callbacks said of a command.

**RoundRobin.** The replica is one record `pm` and each function an operator, as in `Pipeline`.
Only the replica that clients send to (0) ever has a `decision_waiting` and impeaches; the others
vote for its blocks whatever they think of the turn. A promise of `async_qc_finish` is shared
through `qc_waiting`, so `Reject` takes it from everybody who waits for that QC (`rejected`). Timers,
QCs, commands and the calls that `stop_rotate` defers (`DeferredCall`; `deferred` counts them) come in any
order; the durations are left out. Without pipelining; `PaceMaker::get_current_proposal` returns nothing under
this pacemaker, and the model takes the case `async_blocks = 0`, in which the value is not used.
`raced` is a history variable: a deferred call has proposed inside a later rotation.

**VeriPool.** `stack` is what the main thread has still to do, innermost first, so a callback runs
inside the call that settles its promise. Promises are named by what they are for. `RunResolve`,
`RunReject`, `RunThen` and `RunAll` are the library; `Call...` the bodies of callbacks; `RunDeliver` and
`RunVerify` functions that make promises; `OnFetchBlk`, `ProposeHandler`, `VoteRelayHandler`, `WaitQc`,
`GiveUp` and `QcFinish` start a handler when the thread is idle. `salticidae`'s queues are external:
`in_queue` is a FIFO, `out_queue` has one lane per producer of which `try_dequeue` takes any, and
`notified` holds the events that are set. A worker's step commutes with every main-thread step
that does not touch a queue, so workers only move while the main thread is idle or about to
enqueue or drain (`Threads`). `Settings` and `MaxBad` say what arrives and how many signatures may be
bad. Promises for genesis, resolved before they are used, are left out of the lists.

## 3. Runs

Every passing run's properties have a mutant of the code that TLC refutes under the same
configuration (`mutants` in `PROJECT.json`).

| Run | Checks |
|---|---|
| `core` | 3 replicas, 2 proposers, forks of up to 11 blocks: `TypeOK`, `OneVotePerHeight`, `ParentExtendsHqc`, `OnlyAdvances`, `NoSafetyBreach`, `Agreement`, `DecidedIsExecuted`, `RefinesChains` |
| `pipe_relays` | pipeline depth 2, two relays of which one comes late, 6 blocks: `ParentsFound`, `NoLostWakeup`, `AllProposed` |
| `tree_votes` | a star of 4 and trees of 5 and 8 replicas, both certificates, one crash: `RelayCoversSubtree`, `EachSignatureOnce`, `CarriedVerifies`, `Certifies` |
| `config_small` | 2 to 20 and up to 86 replicas, fanouts 2, 3, 4, 17: `Spanning`, `CountsSubtree`, `InRange` |
| `delivery_tree` | 3 replicas in a chain, 4 blocks with a fork, losses, a bad certificate: `DeliveredClosed`, `WaitsForSomething`, `ProposedDelivered` |
| `commands` | 3 clients with 3 commands each, one may go away, blocks of 2 commands, replica 0 the proposer or not: `OneOutstanding`, `ToldOnce`, `WaitingIsFirstBatch`, `AllAnswered`, `FirstBatchDecided` |
| `round_robin` | 3 replicas, 6 blocks, batches of 2 commands: `DeadOnlyByRace`, `OneManualChain`, `LockedWaits`, `OwnTurn`, `ComesRound` |
| `promises` | 2 threads, 2 blocks, a relay with 2 signatures, a QC that is waited for twice and given up: `CalledOnce`, `RightVerdict`, `NothingOrphaned`, `Answered` |

Several of these properties hold in a form that a reader of the code might not expect, and say so:
`WaitingIsFirstBatch` and `FirstBatchDecided` (only the first batch is ever decided; `commands_decided` is the run
about the rest), `CountsSubtree` (right up to the fourth level, wrong from the fifth on), `DeadOnlyByRace`
and `OwnTurn` (with their one exception), `AllProposed` (with the stall below), `Certifies` (a crash costs the
proposer the whole subtree).

Runs that TLC must refute, each a disagreement between the code and a statement in the
repository (`findings` quotes it):

| Run | Shows |
|---|---|
| `pipe_breach` | depth 3, one late vote, children that obey the voting rule: the proposer throws "safety breached" (`CommitsExtendExec`) |
| `pipe_order` | depth 2, late votes for one block, a late relay about another: a pipelined block finishes before the one it was queued behind (`FinishInOrder`) |
| `tree_fork` | an internal replica signs two blocks of one height, since the vote handler signs before the voting rule runs |
| `commands_decided` | two clients with eleven commands each: what comes after the first batch is answered and never executed (`CommandsDecided`) |

`tree_fork` needs two proposals of one height, which a pipelining proposer that is set back
broadcasts.

`pipe_breach` in words, as TLC finds it (blocks in the order in which they are proposed): 1 is a regular
block, 2, 3 and 4 are pipelined on it. The QC of 1 lets 5 be proposed on 4. The votes for 3 and 4 come back and
wait in `rdy_queue`, the vote for 2 is late, and 6 and 7 follow on 5. Then the vote for 2 arrives: processing 2
sets `hqc_tail` and `last_proposed` back, 3 and 4 leave `rdy_queue`, and 8, 9 and 10 are pipelined on 4, beside 5.
The next regular block, 11, gets
10 as `parents[0]`, since `on_propose` takes the back of `piped_queue` when it is not below `hqc_tail`
(`consensus.cpp:213-227`), and carries the QC of 7, which is not its ancestor. The children vote for it by
the liveness condition (`consensus.cpp:289`). Processing 11 commits 5; 12, 13 and 14 make 11 the next to commit,
and it does not extend 5. In `HotStuffCore`, without pipelining, a block's QC is for an ancestor
(`ParentExtendsHqc`), and the proof that the exception is never thrown rests on that.

`pipe_order` in words: 1 is a regular block, 2 and 3 are pipelined. With the queue full, 4 is a regular block on
3 and not in the queue; 2 finishes, and 5 is pipelined on 4. The votes for 3 are late. The QC of 4 finishes at once,
since 4 is in no queue; that of 5 puts it in `rdy_queue` behind 3. Then 3 finishes, but the loop over `rdy_queue`
looks for a child of 3 (`hotstuff.cpp:502-522`) and the parent of 5 is 4: 5 stays at the front of `piped_queue` with a
complete QC that nobody finishes, and 6, pipelined on 5, goes to `rdy_queue` as well. The relay of the second child
about 5 finds the QC of 5 complete, takes the early return (`400-436`), pops 5 as it is and finishes
6, which was to wait for 5 (`530`). The QC of 5 is never announced. This is about relays; for the vote of a
leaf below the proposer `vote_handler` finishes the block at once, whatever is in the queue.

`commands_decided`: `final_buffer` is filled once (`hotstuff.cpp:887`) and never cleared, so that every block carries the
first `blk_size` commands, which are executed again with each commit, and a later command is told 0 when it arrives, leads to
a beat and is in no block. `CommandsDecided` asks only for commands after which the same client has sent
enough to fill that command's block and three more. The run has replica 0 as the proposer; with another proposer
replica 0 drops all commands and the property fails at once.

**Further observations.** The models reach these states too, some of them when the constants are changed; the
configurations here keep to one question each:

- `pipe_relays` reaches a stall, `Stalled`, which `AllProposed` excepts: a recovery block (`liveness.h:163-175`) leaves
  `piped_submitted` set; later a beat of the unlocked pacemaker finds `piped_queue` empty and the latency not yet
  passed and is omitted (`hotstuff.cpp:913-914`), while the pacemaker stays locked; extra blocks, which would release
  it, are ruled out by `piped_submitted`, so no beat is ever resolved again. `liveness.h:38-40` says "When promise is
  resolved, the replica should propose the command.";
- with `async_blocks = 4` and six blocks the loop over `rdy_queue` uses a
  reference after the `erase` that invalidated it (`hotstuff.cpp:511-512`) and takes the wrong block
  out of `piped_queue`;
- `Pipeline` with `async_blocks = 2`, one relay and six blocks reaches the exception "new block should be
  higher than vheight" (`consensus.cpp:260`): a late vote sets the parent back;
- with `async_blocks = 2`, one relay and seven blocks a block in `rdy_queue` stays there for good when the front
  of `piped_queue` is not its parent (`hotstuff.cpp:502-530`), whether or not children obey the voting rule;
- with `async_blocks = 1` and ten blocks the height of hqc may grow by more than three stretched
  chains without any decided block, while `README.md:132` reads it as the last finalized block;
- with two relays of which one completes a QC (`Need = 1`), `async_blocks = 2` and four blocks,
  `p.failed` becomes "pop from empty piped_queue" (`hotstuff.cpp:402-403`);
- with a leaf and a relay below the proposer the exception about vheight is reached at depth 1, because
  `vote_handler` never takes a block out of `piped_queue`;
- at depth 1 a block may carry the QC of a block that is not its ancestor, and a block may be
  delivered at the proposer before its pipelined parent (`consensus.cpp:78`), which
  `consensus.h:120` asks its user to rule out;
- with two blocks in `TreeVotes` an internal replica that delivered a block it did not vote for
  uses its null `self_qc` when a child's vote arrives (`hotstuff.cpp:268` and `400`) and goes down;
- in `TreeVotes` one crash below an internal replica can keep the proposer below `nmajority` for
  ever, since a relay waits for its whole subtree (`hotstuff.cpp:299`); `README.md` refers failures to
  another branch of the repository;
- with secp certificates, which the application is built with, the proposer's own vote counts only
  in the first block: later blocks carry a complete certificate, at which `consensus.cpp:337` returns.
  With 2 or 3 replicas, where `nmajority` is everybody, the second block never completes, and in a
  star of 4 (`nfaulty` = 1) one crash is enough to stop it. A BLS clone loses `n`, so there the self-vote counts always;
- `vote_handler` logs "invalid vote" and adds the part nevertheless (`hotstuff.cpp:286-297`), and the
  proposer, id 0, does not verify its certificate there (`338`);
- the client reads `it->second.et` before it compares `it` with `end()` (`hotstuff_client.cpp:98-99`);
  `try_send` always returns false, so that one command is outstanding whatever `max_async_num`; it does
  not look at the decision, so the early answer counts as a confirmation; it connects to replica 0
  only, while the default of `opt_fixed_proposer` is 1;
- `RoundRobin`: `PaceMaker::get_current_proposal` has no return statement; the "unreachable line" of
  `do_vote` is reached when a replica's own view says that it is the proposer; a command, an
  impeachment, the deferred call and three QCs leave a rotation without a timer, for good
  (`liveness.h:384-399`); `on_exp_timeout` starts the rotation timer even if its own proposal has just
  stopped the rotation (`349`); a batch that is not full leads to an impeachment of a proposer that
  works; beats in `pending_beats` survive a rotation;
- from the fifth level on, for instance with 16 replicas at fanout 2, a replica below the proposer relays before
  its subtree is complete: `children` holds two levels of descendants only (`hotstuff.cpp:824`).

**Bounds.** `core` has three scenarios, each a sequence of first steps after which the replicas take any steps. From two
competing blocks of one height (`Forked`), and from one certified block that the second proposer has not seen
(`Ahead`), four blocks are made in all, in every order of proposals, deliveries and QCs. A commit takes four blocks on one another, so
that two branches cannot both come near one within four. In `Locked` r2 has built three blocks by itself; r1 and r3 have
certified three of another branch, r1 has committed the first and stops. r2 then brings its branch to r3 and
extends it to seven blocks, four of which suffice for a commit: only the lock of r3 and its
voting rule keep r2 from committing on it, and the mutants that weaken either violate `Agreement`,
`NoSafetyBreach` and `RefinesChains`. That the scenarios leave nothing out is what `HotStuffCoreProofs` shows, for any number of
replicas, proposers and blocks. In `pipe_relays` depth 2 with `RecoveryLag` 0 has pipelined, regular, extra and
recovery blocks among six, blocks in `rdy_queue`, and a late relay that finds another block at the front. The scenario of `pipe_order` takes six
blocks after which a seventh and an eighth may follow. The scenario of `pipe_breach` takes 14 blocks: three
pipelined ones, three regular ones, again three, and a chain of four to commit; the late message is
fixed (`Delayed`, `DelayedUntil`) to keep the search short, and `RecoveryLag` is the 10 of the code. `MaxPending` bounds identical waiting beats, one more of which changes
nothing. Eight replicas at fanout 2 are the smallest tree that `start` lays out in which a relay is merged
into a relay; five have a leaf directly below the proposer; a star of four has only leaves there. `config_small` has sizes on both sides of
the last replica of the fourth level, for fanouts 2 (15), 3 (40) and 4 (85), and of the fifth for fanout 2 (31); the experiments of the repository use 100 replicas
at fanout 10, three levels. Three blocks with a fork are the fewest in which a QC's block is not
an ancestor; the fourth has two parents. In `Commands` three clients fill the first
batch of two and leave one over, and three commands each let blocks repeat and commit; `commands_decided` has eleven
per client, since a command is expected to be decided after eight more. In
`RoundRobin` six blocks are two rounds of the three-chain rule with a rotation between them, and three
replicas let a rotation pass two others. In `VeriPool` two threads and a relay with two signatures
finish in either order, the block's own signature makes a third task, and bursts of two end both
with work left and without. Fanout 1 and a single replica are left out of `config_small`: there the layout
loop reads one element beyond the list (`hotstuff.cpp:830`), as `InRange` shows if they are added.

**Deadlock** is not checked where the system really rests: all blocks of the bound proposed, or
no message in flight until the next proposal.

**Fairness.** `MCPipeline`: clients keep sending commands (the client program resends on every
answer), time passes, and messages between live replicas arrive and are verified (TCP and a
thread pool without priorities): weak fairness of `Beat`, `LatencyElapses` and the handlers.
`TreeVotes`: weak fairness of everything but `Crash`. `Delivery`: weak fairness of threads and
timers, strong fairness of handling a request or response that is sent over and over, since a
connection that is re-established does not lose every message; nothing for proposals. `Commands`:
weak fairness of the application's threads, of consensus and of the clients that stay. `RoundRobin`:
timers fire; nothing for QCs and commands. `VeriPool`: weak fairness of the main loop and of each thread, strong
fairness of the arrival of a fetched block, which `Delivery` shows. Where TLC
evaluates ENABLED of a large action slowly, the definition of WF or SF is written out with
the guard as a state predicate.

## 4. Proofs

Every theorem is about the specification that the runs check, for every value of the constants that
the named assumptions allow. Each module has one inductive invariant `Inv`, checked with TLC
before it was proved, one lemma per action that shows that the action keeps it, and theorems that
derive the properties from it.

| Module | Theorem | States |
|---|---|---|
| `HotStuffCoreProofs` | `TypeCorrect`, `OneVote`, `ParentsExtend`, `Executed`, `NeverBreached`, `AgreementHolds`, `Advances`, `Refinement` | `TypeOK`, `OneVotePerHeight`, `ParentExtendsHqc`, `DecidedIsExecuted`, `NoSafetyBreach`, `Agreement`, `OnlyAdvances`, `RefinesChains` |
| `CommandsProofs` | `ClientsSendOneByOne`, `CallbacksRunTwiceAtMost`, `OnlyTheFirstBatchWaits` | `OneOutstanding`, `ToldOnce`, `WaitingIsFirstBatch` |
| `TreeVotesProofs` | `NoSignatureTwice`, `CompleteCertificateVerifies`, `RelaysAreWhole` | `EachSignatureOnce`, `CarriedVerifies`, `RelayCoversSubtree` |
| | `OneProposalNoException` | `NoException`, for one proposal per height |
| | `ContinuationsDoNotThrow` | no continuation ends in an exception, however many proposals there are |
| `DeliveryProofs` | `DeliveredIsComplete`, `NoDeliveryForgotten` | `DeliveredClosed`, `WaitsForSomething` |
| `RoundRobinProofs` | `DeadOnlyAfterRace`, `OneChainWaits`, `LockIsReleased`, `BlocksInOwnTurn` | `DeadOnlyByRace`, `OneManualChain`, `LockedWaits`, `OwnTurn` |
| `TreeConfigProofs` | `NeverOverruns`, `LayoutSpans`, `CountsUpToFourLevels` | `InRange`, `Spanning`, `CountsSubtree` |
| | `LaidOutForTreeVotes` | the finished layout is what `TreeVotes` assumes of a tree |
| `PipelineProofs` | `WakeupsAreNotLost`, `ParentsAreFound` | `NoLostWakeup`, `ParentsFound` |
| `VeriPoolProofs` | `CallsOnce`, `JudgesRight`, `TasksAreHeld` | `CalledOnce`, `RightVerdict`, `NothingOrphaned` |

### The consensus core

`HotStuffCoreProofs` proves, for any finite set of replicas, any set of proposers, any set of
blocks and any `nfaulty` below half of the replicas:

`TypeCorrect`, `OneVote`, `ParentsExtend`, `Executed`, `NeverBreached`, `AgreementHolds`, `Advances`
and `Refinement` (`Spec => RefinesChains`).

Assumptions: `ReplicaAssumption` (finite, `2 * nfaulty < Cardinality(Replica)`: two quorums of
`nmajority` replicas meet; `start` uses a third) and `BlockAssumption` (genesis is a block).

The inductive invariant is `Inv == TypeOK /\ TreeInv /\ DeliveredInv /\ ReplicaInv /\ VoteInv`:

- `TreeInv`: heights, parents, branches and QC references of the blocks fit together, and a
  block's QC is for an ancestor that is certified;
- `DeliveredInv`: what a replica has delivered is closed under parents and holds its hqc, lock,
  executed block and next parent;
- `ReplicaInv`: a replica's executed block, lock and hqc lie above one another, its executed block
  is committable and its decided set is its executed branch;
- `VoteInv`: a voter has delivered the block and its vheight is not below it, its lock covers what
  the vote imposes, it has one vote per height, and every vote is safe (`SafeVote`): the block
  extended a certified block at least as high as every lock that the voter's earlier votes imposed.

`Agreement` alone is not inductive: that two commits do not conflict depends on which votes
were cast under which locks. `QuorumIntersection` gives one certified block per height
(`OneCertifiedPerHeight`); by the least height of a counterexample (`LeastHeight`), every certified
block above a committable one extends it (`CertifiedExtendsCommittable`), from which
`NoBreach` and `InvAgreement` follow. Preservation is one lemma per action
(`InvPropose`, `InvReceiveProposal`, `InvDeliverBlk`, `InvQcFinish`).

In `HotStuffCore` a QC may count the proposer's vote; the code does so only for some blocks
(section 3), so the model has a superset of the program's QCs, and the theorems cover it.

### Commands

For any clients, any number of commands, any `blk_size` and `max_async_num`. None of the three
properties is inductive: that a callback is not run again depends on where a command may still
be on its way. `SentOnce` says that a command is in one place between client and handler and has
not been told before it arrives; `FilledOnce` that `final_buffer` is filled once, before the first
beat, with commands that were told already, and that what waits for a decision was told 0 only;
`ToldInv` that the commands of `final_buffer` are executed with every commit and told 1 with the first.

### TreeVotes

For every tree, both kinds of certificate, any blocks and any crashes. `TreeAssumption` asks that the
layouts are trees (following `parent` meets no circle), which `LaidOutForTreeVotes` shows of those that
`start` makes, with `children` as `TreeVotes` defines it. The invariant says of a certificate that it holds the signature of each of its
`rids` once, as parts or as the aggregate (`GoodCert`), and of whom: a replica's certificate has signers of
its subtree only (`CertsInv`), a message has the signatures of the sender's subtree and is ready to
send (`MsgsInv`), and none of a child's signers is in the parent's certificate before that child's
message is merged (`MergedOnce`), which is what makes `merge_quorum` and `add_part` add disjoint sets. Lemmas
about `add_part`, `merge_quorum`, `compute` and the subtrees of a tree carry the argument.

Two theorems have a hypothesis. `RelaysAreWhole` is for layouts of at most three levels below the
proposer (`ShallowLayouts`): there `children` counts the whole subtree, and with more levels it does
not (section 3). `OneProposalNoException` is for one proposal per height (`OneProposal`): with two, an
internal replica meets its null `self_qc` (section 3).

### Delivery

For every tree of replicas, every block graph in which parents and QCs point to older blocks,
every loss and every choice of bad certificates. `Good` holds of a replica's record: what is delivered
is complete (`ClosedAt`), a delivery that has started has its block (`StartedAt`), and what is not there is
being fetched from somebody (`FetchingAt`). `ParentsAt` says that parents of an open delivery are delivered or
being delivered; inside a handler it holds but for the blocks whose turn is still to come (`due`),
which is the invariant of the loops in `AsyncDeliverBlk` and `OnDeliverBlk`.

### RoundRobin

For any number of replicas, size of a batch and bound on the blocks. The invariant ties the
pacemaker's promises to the lists of callbacks: who waits, waits for a QC that may come (`Waiting`); a
list of callbacks has at most one beat and one `do_new_consensus`, and only on the promise that the
pacemaker holds (`AllOwned`); outside rotations the replica is the proposer and an unlocked pacemaker's
promise is still to be given out (`Settled`, `LockWaits`); in another's turn, unless the race has
happened, only beats wait (`OnlyBeats`).

### TreeConfig

For every number of replicas and every fanout, both from 2 on (`TwoAtLeast`; below that the code reads
`replicas[size]`); `ConfigAssumption` asks for a largest size, so that there is a set of all ids.
`LevelInv` and `ParentsInv` give the loops' variables in terms of the level and the number of
parents served, with the product of that number and the level's fanout; the point is that the integer
division leaves fewer replicas than the level has, so the loop ends on the last replica
or exactly at the end of a level. `TreeBelow(Frontier)` is the tree built so far, and `Peers` says who
has children yet. That everyone hangs below replica 0 follows by the least counterexample.
`LevelsInv` says which replicas the first five levels are, and `CountInv` that a replica counts two levels
below it; so the count is right unless somebody below replica 0 has three levels below him, that is unless the
layout has a fifth level (`DeeperIffFifthLevel`).

### Pipeline

For every set of children of the root, with leaves and relays in any mix, every quorum, pipeline
depth, number of blocks and order of messages, exceptions included. `Announced` says that a QC is
announced (`finished`) only when complete, that `rdy_queue` holds complete blocks only and that every complete
block is in one or the other. `Untouched` is why a beat may start to wait when the first message of a
pipelined block delivers it: until then no part of its certificate has been counted or is being
verified. Each function of the code has a lemma that says which fields it leaves alone (`Same`,
`Processed`, `Proposed`). `Linked` is the invariant behind `ParentsFound`: parents are older blocks, every block is
delivered or in `piped_queue` (but for one that is just being made), and hqc, the tails, the QC of each
block and what waits in `rdy_queue` are delivered. The last is why even the wrong erase of
`hotstuff.cpp:512` takes only delivered blocks out of `piped_queue`.

### VeriPool

For any number of blocks, signatures, relays, verification threads, waits of the pacemaker and bad
signatures, and any `burst_size`. The stack of the main thread has no bound, so nothing can be said of it by
counting; the invariant `CtlInv` speaks of its steps one by one. Each step that must not happen twice has a
*key* (the callback it registers or calls, the `promise::all` it starts, the certificate it verifies, the
task it erases), and no key is on the stack twice (`Linear`). A callback is on the stack under its key or
waits in the list of the one promise it was given to, never both, and in neither once it was called
(`CbOK`); promises that are settled have empty lists (`ListOK`). That is `CalledOnce`.

For `RightVerdict` a step that is about to resolve a promise or to call a callback is about to do so with
the right value (`Sound`, `ValueOK`): a task with what its thread found, the verdict of a certificate with the
conjunction over its signatures. An entry in the results of a `promise::all` is empty or the value of the promise
at that index, and `size` counts the empty ones (`ResultOK`), so a list is passed on only when it is full. Such
facts are used long after they were established, while other steps run; `Grows` says which parts of the
state are never taken back, and every step is shown to respect it. The one promise that is ever
rejected is the QC that the pacemaker gives up, and what `then` returned there (`RejectOK`).

`PoolInv` says where a task is: in `in_queue`, with a thread, in the lane of a thread in `out_queue`, or about to be
erased. It is in one place only, and `pms` has it exactly while it is in one. Each step of a thread or of the
handler moves one task from one place to another (`PoolMove`); `verify` adds tasks that were nowhere, because the
certificate is verified once.

`VeriPoolAssumption` asks that a certificate has a signature, save the one for genesis. That is what a replica of
this code sends: `MsgRelay` carries a clone of `self_qc` or `cert` (hotstuff.cpp:330, 469), which hold at least the
replica's own part, and a block carries a certificate
with a majority. `verify` does not check it (the line is commented out, `crypto.cpp:52`), and `promise::all` throws
for an empty list.

### Loops

`DeliveryProofs`, `RoundRobinProofs` and `TreeConfigProofs` begin with what their loops have in common: a recursive
function over `0..M` exists, and what holds of its start and is kept by its body holds of all its values. Both
are proved from the least counterexample (`LeastNumber`), because the induction theorems of the library take an operator. The
loop over `rdy_queue` in `PipelineProofs` is treated the same way, without a set of possible states.

### Only model-checked

- Liveness (`AllProposed`, `Certifies`, `ProposedDelivered`, `AllAnswered`, `FirstBatchDecided`, `ComesRound`,
  `Answered`), which the prover does not support.
- `FinishInOrder`, `CommitsExtendExec`, `OneSignaturePerHeight` and `CommandsDecided`, which TLC refutes.

## 5. Not modelled

- Byzantine replicas, and forged signatures: every replica runs the code. Signatures and
  certificates that fail their check are modelled where handlers react to them (`Delivery`, `VeriPool`).
- The two-step build (`HOTSTUFF_TWO_STEP`), `prune` (never called), `fail` and `race` of promises (never
  called), the `CPPROMISE_USE_STACK_FREE` build, reference counts of promises, blocks and commands.
- The destructor of `VeriPool`, the end of the program in general, and set-up of connections.
- Encoding of messages beyond that of certificates; the queue, network and timer classes of
  `salticidae`, and `secp256k1`: submodules that are not part of the tree, used through what the code
  expects of them.
- The BLS library under `bls/` beyond the four functions of `schemes.cpp` that certificates call: field
  and curve arithmetic is outside what TLC can enumerate, and the key-derivation code and schemes
  are not used by Kauri.
- Key generation, logging, command lines, statistics, scripts, experiments.

The vendored test framework `bls/contrib/catch/catch.hpp` alone is 13286 of the tree's 22248 lines of C++, and
the rest of `bls/` and command-line tools most of the remainder; the map therefore covers a small share
of all lines and most of the lines of `consensus.cpp`, `hotstuff.cpp`, `liveness.h` and `task.h` that change state.

## 6. Open

1. `Pipeline` with the children's side for every tree and every order of messages, and a rule for the parent of a
   block under which `CommitsExtendExec` holds.
