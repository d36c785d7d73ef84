------------------------------ MODULE Commands ------------------------------
(***************************************************************************)
(* The way of a command: the client (src/examples/hotstuff_client.cpp)     *)
(* sends it to replica 0; the request thread of the application            *)
(* (src/examples/hotstuff_app.cpp) queues it for the main loop, whose      *)
(* handler (HotStuffBase::start) answers it at once, fills final_buffer    *)
(* with the first blk_size of them and calls beat for every other; a       *)
(* commit runs do_decide for the commands of its block; the response       *)
(* thread sends the answers back. Three threads and the clients run in any *)
(* order; a client may go away at any time.                                *)
(*                                                                         *)
(* Consensus is what Pipeline shows of it for async_blocks = 0: a beat     *)
(* leads to one block, at once or when the QC of the block before is       *)
(* complete, and that block commits the third one before it.               *)
(***************************************************************************)
EXTENDS Integers, Sequences, FiniteSets, SequencesExt

CONSTANTS
    Clients,        \* the clients
    max_iter_num,   \* how many commands a client sends
    max_async_num,  \* how many of them it may have outstanding
    blk_size,       \* how many commands a block carries
    Proposers,      \* the replicas that may be the proposer; this one is 0
    MaxGone         \* bound on the clients that go away

ASSUME CommandsAssumption ==
    /\ IsFiniteSet(Clients) /\ Proposers \subseteq Nat
    /\ {max_iter_num, MaxGone} \subseteq Nat
    /\ {blk_size, max_async_num} \subseteq Nat \ {0}

(* A command is the number that CommandDummy(cid, cnt) gives it.           *)
Cmds == Clients \X (0..max_iter_num - 1)

VARIABLES
    cnt,        \* clients: how many commands were sent
    waiting,    \* clients: the commands that are not answered
    requests,   \* the MsgReqCmd on the way to the replica, for each client
    answers,    \* the MsgRespCmd on the way to each client
    gone,       \* the clients that went away
    app,        \* the replica
    told        \* history: the decisions that callbacks gave for a command

vars == <<cnt, waiting, requests, answers, gone, app, told>>

client_vars == <<cnt, waiting, requests, answers, gone>>

-----------------------------------------------------------------------------
(* try_send: a new command, unless all are sent or too many outstanding.   *)
(* It always returns false, so that its caller's loop runs it once.        *)
MaySend(sent, outstanding) ==
    sent < max_iter_num /\ Cardinality(outstanding) < max_async_num

Init ==
    /\ cnt = [c \in Clients |-> IF MaySend(0, {}) THEN 1 ELSE 0]
    /\ waiting = [c \in Clients |-> IF MaySend(0, {}) THEN {<<c, 0>>} ELSE {}]
    /\ requests = [c \in Clients |-> IF MaySend(0, {}) THEN <<<<c, 0>>>> ELSE <<>>]
    /\ answers = [c \in Clients |-> <<>>]
    /\ gone = {}
    /\ \E proposer \in Proposers :
       app = [proposer |-> proposer,
              cmd_pending |-> <<>>, cmd_pending_buffer |-> <<>>,
              final_buffer |-> <<>>, decision_waiting |-> {},
              resp_queue |-> <<>>, beats |-> 0, nblk |-> 0,
              executed |-> [x \in Cmds |-> 0]]
    /\ told = [x \in Cmds |-> <<>>]

(* Mutant of ClientRespCmdHandler: every answer makes room for a command.  *)
ClientRespCmdHandlerAny(c) ==
    LET cmd  == Head(answers[c])[1]
        left == waiting[c] \ {cmd}
        new  == <<c, cnt[c]>>
    IN  /\ c \notin gone
        /\ answers[c] # <<>>
        /\ answers' = [answers EXCEPT ![c] = Tail(@)]
        /\ IF MaySend(cnt[c], left)
           THEN /\ cnt' = [cnt EXCEPT ![c] = @ + 1]
                /\ waiting' = [waiting EXCEPT ![c] = left \cup {new}]
                /\ requests' = [requests EXCEPT ![c] = Append(@, new)]
           ELSE /\ waiting' = [waiting EXCEPT ![c] = left]
                /\ UNCHANGED <<cnt, requests>>
        /\ UNCHANGED <<gone, app, told>>

(* client_resp_cmd_handler: an answer to a command that still waits makes  *)
(* room for the next, whatever its decision; any other is ignored.         *)
ClientRespCmdHandler(c) ==
    LET cmd  == Head(answers[c])[1]
        left == waiting[c] \ {cmd}
        new  == <<c, cnt[c]>>
    IN  /\ c \notin gone
        /\ answers[c] # <<>>
        /\ answers' = [answers EXCEPT ![c] = Tail(@)]
        /\ IF cmd \in waiting[c] /\ MaySend(cnt[c], left)
           THEN /\ cnt' = [cnt EXCEPT ![c] = @ + 1]
                /\ waiting' = [waiting EXCEPT ![c] = left \cup {new}]
                /\ requests' = [requests EXCEPT ![c] = Append(@, new)]
           ELSE /\ waiting' = [waiting EXCEPT ![c] = left]
                /\ UNCHANGED <<cnt, requests>>
        /\ UNCHANGED <<gone, app, told>>

(* A client ends or loses its connection, with what is on the way.         *)
Leave(c) ==
    /\ c \notin gone /\ Cardinality(gone) < MaxGone
    /\ gone' = gone \cup {c}
    /\ requests' = [requests EXCEPT ![c] = <<>>]
    /\ answers' = [answers EXCEPT ![c] = <<>>]
    /\ UNCHANGED <<cnt, waiting, app, told>>

-----------------------------------------------------------------------------
(* The request thread: client_request_cmd_handler and exec_command.        *)
ClientRequestCmdHandler(c) ==
    /\ requests[c] # <<>>
    /\ requests' = [requests EXCEPT ![c] = Tail(@)]
    /\ app' = [app EXCEPT !.cmd_pending = Append(@, Head(requests[c]))]
    /\ UNCHANGED <<cnt, waiting, answers, gone, told>>

(* The callbacks of the commands in cmds run with the given decision; told *)
(* records it for the set of them.                                         *)
Callbacks(s, cmds, decision) ==
    [s EXCEPT !.resp_queue = @ \o [i \in DOMAIN cmds |-> <<cmds[i], decision>>]]

Tell(cmds, decision) ==
    [x \in Cmds |-> IF x \in cmds THEN Append(told[x], decision) ELSE told[x]]

(* The handler of cmd_pending at a proposer dequeues until it has called   *)
(* beat, which it does for every command once final_buffer is filled.      *)
Taken(s) ==
    LET len  == Len(s.cmd_pending)
        room == IF s.final_buffer = <<>> THEN blk_size - Len(s.cmd_pending_buffer) ELSE 1
    IN  SubSeq(s.cmd_pending, 1, IF len < room THEN len ELSE room)

(* Mutant of Batched: beat is called only when final_buffer is filled.     *)
BatchedOneBeat(s, cmds) ==
    LET buffer == s.cmd_pending_buffer \o cmds
        t == [s EXCEPT !.decision_waiting = @ \cup Range(cmds)]
    IN  IF s.final_buffer # <<>> THEN s
        ELSE IF Len(buffer) < blk_size
        THEN [t EXCEPT !.cmd_pending_buffer = buffer]
        ELSE [t EXCEPT !.cmd_pending_buffer = <<>>, !.final_buffer = buffer,
                       !.beats = @ + 1]

(* What it does with them, apart from the callbacks with decision 0.       *)
Batched(s, cmds) ==
    LET buffer == s.cmd_pending_buffer \o cmds
        t == [s EXCEPT !.decision_waiting = @ \cup Range(cmds)]
    IN  IF s.final_buffer # <<>> THEN [s EXCEPT !.beats = @ + 1]
        ELSE IF Len(buffer) < blk_size
        THEN [t EXCEPT !.cmd_pending_buffer = buffer]
        ELSE [t EXCEPT !.cmd_pending_buffer = <<>>, !.final_buffer = buffer,
                       !.beats = @ + 1]

(* Mutant of CmdPendingHandler: a command is answered when it is decided.  *)
CmdPendingHandlerLate ==
    LET cmds == Taken(app)
        rest == SubSeq(app.cmd_pending, Len(cmds) + 1, Len(app.cmd_pending))
    IN  /\ app.cmd_pending # <<>>
        /\ app' = IF app.proposer # 0 THEN [app EXCEPT !.cmd_pending = <<>>]
                  ELSE Batched([app EXCEPT !.cmd_pending = rest], cmds)
        /\ UNCHANGED <<client_vars, told>>

(* The handler of cmd_pending; replica 0 drops what it gets when another   *)
(* replica is the proposer.                                                *)
CmdPendingHandler ==
    LET cmds == Taken(app)
        rest == SubSeq(app.cmd_pending, Len(cmds) + 1, Len(app.cmd_pending))
    IN  /\ app.cmd_pending # <<>>
        /\ IF app.proposer # 0
           THEN app' = [app EXCEPT !.cmd_pending = <<>>] /\ UNCHANGED told
           ELSE /\ app' = Callbacks(Batched([app EXCEPT !.cmd_pending = rest], cmds),
                                    cmds, 0)
                /\ told' = Tell(Range(cmds), 0)
        /\ UNCHANGED client_vars

(* Mutant of Decide: the callback stays in decision_waiting.               *)
DecideKeeps(s) ==
    LET due == SelectSeq(s.final_buffer, LAMBDA x : x \in s.decision_waiting)
    IN  Callbacks([s EXCEPT !.executed =
                      [x \in Cmds |-> @[x] + (IF x \in Range(s.final_buffer) THEN 1 ELSE 0)]],
                  due, 1)

(* do_decide for every command of a committed block.                       *)
Decide(s) ==
    LET due == SelectSeq(s.final_buffer, LAMBDA x : x \in s.decision_waiting)
    IN  Callbacks([s EXCEPT !.decision_waiting = @ \ Range(s.final_buffer),
                            !.executed =
                      [x \in Cmds |-> @[x] + (IF x \in Range(s.final_buffer) THEN 1 ELSE 0)]],
                  due, 1)

(* The beat's turn: a block with final_buffer is proposed; the fourth      *)
(* block and every later one commits the third before it.                  *)
Propose ==
    LET s == [app EXCEPT !.beats = @ - 1, !.nblk = @ + 1]
    IN  /\ app.beats > 0
        /\ IF s.nblk > 3
           THEN /\ app' = Decide(s)
                /\ told' = Tell(Range(s.final_buffer) \cap s.decision_waiting, 1)
           ELSE app' = s /\ UNCHANGED told
        /\ UNCHANGED client_vars

(* The response thread empties resp_queue; what cannot be sent is dropped. *)
RespHandler ==
    /\ app.resp_queue # <<>>
    /\ app' = [app EXCEPT !.resp_queue = <<>>]
    /\ answers' = [c \in Clients |->
          IF c \in gone THEN <<>>
          ELSE answers[c] \o SelectSeq(app.resp_queue, LAMBDA a : a[1][1] = c)]
    /\ UNCHANGED <<cnt, waiting, requests, gone, told>>

Threads ==
    \/ CmdPendingHandler \/ Propose \/ RespHandler
    \/ \E c \in Clients : ClientRequestCmdHandler(c) \/ ClientRespCmdHandler(c)

(* Everything is handled and the clients have sent all they may.           *)
Rest ==
    /\ app.cmd_pending = <<>> /\ app.resp_queue = <<>> /\ app.beats = 0
    /\ \A c \in Clients : requests[c] = <<>> /\ answers[c] = <<>>
    /\ UNCHANGED vars

Next == Threads \/ Rest \/ \E c \in Clients : Leave(c)

Spec == Init /\ [][Next]_vars

(* The threads of the replica and the clients run.                         *)
FairSpec == Spec /\ WF_vars(Threads)

-----------------------------------------------------------------------------
(* A client has at most one command outstanding, however large             *)
(* max_async_num is, and none besides the last one it sent: the second     *)
(* answer to a command, from its decision, does not let it send another.   *)
OneOutstanding ==
    \A c \in Clients : waiting[c] \subseteq {<<c, cnt[c] - 1>>}

(* The callback of a command runs once when it arrives and once more when  *)
(* the command is first executed, never before that and never again,       *)
(* however often blocks that carry it are committed.                       *)
ToldOnce ==
    \A x \in Cmds :
        /\ told[x] \in {<<>>, <<0>>, <<0, 1>>}
        /\ told[x] = <<0, 1>> <=> app.executed[x] > 0

(* decision_waiting, which the impeachment timer looks at, holds exactly   *)
(* the commands of the first batch until its first block is committed, and *)
(* nothing ever after, whatever commands come.                             *)
WaitingIsFirstBatch ==
    app.decision_waiting =
        Range(app.cmd_pending_buffer)
          \cup (IF app.nblk > 3 THEN {} ELSE Range(app.final_buffer))

(* Every client that stays gets an answer to each of its commands, and     *)
(* sends them all, if replica 0 is the proposer; if it is not, nobody ever *)
(* gets an answer.                                                         *)
AllAnswered ==
    <>[](\A c \in Clients \ gone :
            IF app.proposer = 0
            THEN cnt[c] = max_iter_num /\ waiting[c] = {}
            ELSE cnt[c] = 1 /\ waiting[c] # {})

(* The first batch is decided when clients send enough after it: three     *)
(* more commands, each of which makes a block.                             *)
FirstBatchDecided ==
    <>[](app.proposer = 0 /\ gone = {}
            /\ Cardinality(Cmds) >= blk_size + 3
         => /\ app.final_buffer # <<>>
            /\ \A x \in Range(app.final_buffer) : told[x] = <<0, 1>>)

(* exec_command is called to "Submit the command to be decided" and        *)
(* on_propose "to submit new commands to be decided (executed)": a command *)
(* of a client that stays is executed once its client has sent enough      *)
(* after it, which is what fills its block and three more.                 *)
CommandsDecided ==
    <>[](\A c \in Clients \ gone : \A k \in 0..(max_iter_num - 1 - 4 * blk_size) :
            app.executed[<<c, k>>] > 0)
=============================================================================
