------------------------------ MODULE VeriPool ------------------------------
(***************************************************************************)
(* The promises of src/include/hotstuff/promise.hpp (built without         *)
(* CPPROMISE_USE_STACK_FREE), the verification threads of                  *)
(* src/include/hotstuff/task.h and the code that waits for them: verify of *)
(* a certificate, async_deliver_blk, vote_relay_handler and the pacemaker  *)
(* that waits for a QC and gives up.                                       *)
(*                                                                         *)
(* A callback runs inside the call that settles its promise. stack is what *)
(* the main thread has still to do, innermost first; the worker threads    *)
(* take their steps in between.                                            *)
(***************************************************************************)
EXTENDS Integers, Sequences, FiniteSets

CONSTANTS
    MaxBlock,   \* blocks are 1..MaxBlock; the parent of b is b - 1, 0 is genesis
    SigsOf,     \* SigsOf[b]: how many signatures the certificate in b has,
                \* none if it is for genesis
    Relays,     \* the vote relays
    RelayOf,    \* RelayOf[r]: the block of r and its number of signatures
    MaxWaits,   \* how often the pacemaker may wait for the QC of a block
    Settings,   \* records: the proposals and the relays that arrive, and how
                \* often the pacemaker waits
    MaxBad,     \* how many signatures may be bad
    Workers,    \* the verification threads
    burst_size  \* tasks that a handler takes before it returns

Blocks == 1..MaxBlock
Owners == {<<"blk", b>> : b \in Blocks} \cup {<<"relay", r>> : r \in Relays}
Sigs(o) == IF o[1] = "blk" THEN SigsOf[o[2]] ELSE RelayOf[o[2]].sigs
Tasks == UNION {{<<"task", o, i>> : i \in 1..Sigs(o)} : o \in Owners}

(* A certificate is sent with a vote in it, save the one for genesis.      *)
ASSUME VeriPoolAssumption ==
    /\ MaxBlock \in Nat /\ MaxWaits \in Nat /\ MaxBad \in Nat /\ burst_size \in Nat \ {0}
    /\ SigsOf \in [Blocks -> Nat]
    /\ Settings \subseteq [proposed : SUBSET Blocks, relays : SUBSET Relays,
                          waits : 0..MaxWaits]
    /\ RelayOf \in [Relays -> [blk : Blocks, sigs : Nat \ {0}]]
    /\ \A b \in Blocks : b # 1 => SigsOf[b] > 0

(* What is given to then, and the promise that then returns for it.        *)
Continuations ==
    ({"fetched", "delivery"} \X Blocks) \cup ({"relayed"} \X Relays)
        \cup ({"next"} \X (1..MaxWaits))
Npms == {<<"npm", c>> : c \in Continuations}

(* The promises: one for each task, for all the tasks of a certificate,    *)
(* for its verdict, for a block that is fetched or delivered, for what a   *)
(* relay and a delivery wait for together, and for the QC.                 *)
Promises ==
    Tasks \cup {<<"sigs", o>> : o \in Owners} \cup {<<"cert", o>> : o \in Owners}
          \cup {<<"fetch", b>> : b \in Blocks} \cup {<<"deliver", b>> : b \in Blocks}
          \cup {<<"all", o>> : o \in Owners} \cup {<<"qc">>} \cup Npms

VARIABLES
    pr,         \* the promises
    stack,      \* what the main thread is in the middle of
    pms,        \* VeriPool::pms, the tasks that wait for their result
    in_queue, out_queue,    \* out_queue has one lane per producer
    notified,   \* the event of each queue is set
    work,       \* the worker threads: the task each has, and its count
    good,       \* good[t]: what t->verify() returns
    seen,       \* what each continuation was called with, call by call
    waits,      \* how often the pacemaker has waited
    qc_waiting, \* the QC has an entry in qc_waiting
    setting,    \* the member of Settings that the behaviour is about
    thrown      \* promise::all was given an empty list

own == <<waits, qc_waiting, setting>>
vars == <<pr, stack, pms, in_queue, out_queue, notified, work, good, seen,
          waits, qc_waiting, setting, thrown>>
mainVars == <<pr, stack, pms, seen, waits, qc_waiting, setting, thrown>>

None == <<"none">>  \* no task
Empty == "empty"    \* no value
Unmade == [state |-> "None", value |-> Empty, onF |-> <<>>, onR |-> <<>>,
           size |-> 0, results |-> <<>>]
Made == [Unmade EXCEPT !.state = "Pending"]

(* The steps of the main thread, as they are put on the stack.             *)
Resolve(p, x)   == [op |-> "resolve", p |-> p, v |-> x]
Reject(p, x)    == [op |-> "reject", p |-> p, v |-> x]
Then(p, f, r)   == [op |-> "then", p |-> p, f |-> f, r |-> r]
All(p, ps)      == [op |-> "all", p |-> p, ps |-> ps]
Call(c, x)      == [op |-> "call", c |-> c, v |-> x]
Verify(o)       == [op |-> "verify", o |-> o]
Deliver(b)      == [op |-> "deliver", b |-> b]
Erase(t)        == [op |-> "erase", t |-> t]
Drain(k)        == [op |-> "drain", k |-> k]

(* The callbacks: in promise::all, the one that passes a rejection on, in  *)
(* verify of a certificate, and the continuations of the replica.          *)
Collect(p, i)   == [cb |-> "collect", p |-> p, i |-> i]
Forward(p)      == [cb |-> "forward", p |-> p]
Verdict(o)      == [cb |-> "verdict", o |-> o]
Continue(c)     == [cb |-> c[1], id |-> c[2]]

(* then with one callback.                                                 *)
ThenDo(p, c) == Then(p, Continue(c), Forward(<<"npm", c>>))

Init ==
    /\ pr = [p \in Promises |-> IF p[1] = "qc" THEN Made ELSE Unmade]
    /\ stack = <<>> /\ pms = {} /\ in_queue = <<>>
    /\ out_queue = [w \in Workers |-> <<>>]
    /\ notified = {}
    /\ work = [w \in Workers |-> [task |-> None, cnt |-> 0]]
    /\ good \in {g \in [Tasks -> {"true", "false"}] :
                   Cardinality({t \in Tasks : g[t] = "false"}) <= MaxBad}
    /\ seen = [c \in Continuations |-> <<>>] /\ thrown = FALSE
    /\ waits = 0 /\ qc_waiting = FALSE /\ setting \in Settings

-----------------------------------------------------------------------------
(* The promise library, on the innermost step of the stack.                *)
Top(op) == stack # <<>> /\ Head(stack).op = op
Do(steps) == stack' = steps \o Tail(stack)
Calls(cs, x) == [i \in 1..Len(cs) |-> Call(cs[i], x)]
threads == <<in_queue, out_queue, notified, work, good>>

(* resolve, reject and what they trigger: the state changes first, then    *)
(* the callbacks of its kind are called in order; the other kind stays in  *)
(* its vector.                                                             *)
Settle(p, state, x) ==
    LET cbs == IF state = "Fulfilled" THEN pr[p].onF ELSE pr[p].onR
    IN  IF pr[p].state \in {"Fulfilled", "Rejected"} THEN pr' = pr /\ Do(<<>>)
        ELSE /\ pr' = [pr EXCEPT ![p].state = state, ![p].value = x,
                                 ![p].onF = IF state = "Fulfilled" THEN <<>> ELSE @,
                                 ![p].onR = IF state = "Rejected" THEN <<>> ELSE @]
             /\ Do(Calls(cbs, x))

RunResolve ==
    /\ Top("resolve")
    /\ Settle(Head(stack).p, "Fulfilled", Head(stack).v)
    /\ UNCHANGED <<pms, seen, own, thrown>> /\ UNCHANGED threads

RunReject ==
    /\ Top("reject")
    /\ Settle(Head(stack).p, "Rejected", Head(stack).v)
    /\ UNCHANGED <<pms, seen, own, thrown>> /\ UNCHANGED threads

(* Mutant of RunThen: the callback is always kept for later.               *)
RunThenLater ==
    /\ Top("then")
    /\ LET s == Head(stack)
           q == pr[s.p]
       IN  pr' = [pr EXCEPT ![s.p] = [IF q.state = "None" THEN Made ELSE q
                                      EXCEPT !.onF = Append(@, s.f),
                                             !.onR = Append(@, s.r)]]
    /\ Do(<<>>)
    /\ UNCHANGED <<pms, seen, own, thrown>> /\ UNCHANGED threads

(* then: a promise that is settled already calls at once.                  *)
RunThen ==
    /\ Top("then")
    /\ LET s == Head(stack)
           q == pr[s.p]
       IN  CASE q.state = "Fulfilled" -> pr' = pr /\ Do(<<Call(s.f, q.value)>>)
             [] q.state = "Rejected"  -> pr' = pr /\ Do(<<Call(s.r, q.value)>>)
             [] OTHER -> /\ pr' = [pr EXCEPT ![s.p] =
                                     [IF q.state = "None" THEN Made ELSE q
                                      EXCEPT !.onF = Append(@, s.f),
                                             !.onR = Append(@, s.r)]]
                         /\ Do(<<>>)
    /\ UNCHANGED <<pms, seen, own, thrown>> /\ UNCHANGED threads

(* promise::all, which throws when the list is empty.                      *)
RunAll ==
    /\ Top("all")
    /\ LET s == Head(stack)
           n == Len(s.ps)
       IN  /\ thrown' = (thrown \/ n = 0)
           /\ pr' = [pr EXCEPT ![s.p] = [Made EXCEPT !.size = n,
                                 !.results = [i \in 1..n |-> Empty]]]
           /\ Do([i \in 1..n |-> Then(s.ps[i], Collect(s.p, i), Forward(s.p))])
    /\ UNCHANGED <<pms, seen, own>> /\ UNCHANGED threads

(* A callback is about to be called with v.                                *)
Calling(kind) == Top("call") /\ Head(stack).c.cb = kind
cb == Head(stack).c
v == Head(stack).v
rest == <<pms, own, thrown, in_queue, out_queue, notified, work, good>>

(* Mutant of CallCollect: the results are kept as they come in.            *)
CallCollectInOrder ==
    /\ Calling("collect")
    /\ LET q == pr[cb.p]
           r == [q.results EXCEPT ![Len(q.results) + 1 - q.size] = v]
       IN  /\ pr' = [pr EXCEPT ![cb.p].results = r, ![cb.p].size = q.size - 1]
           /\ Do(IF q.size = 1 THEN <<Resolve(cb.p, r)>> ELSE <<>>)
    /\ UNCHANGED seen /\ UNCHANGED rest

(* The callback that promise::all gives to the i-th promise of its list.   *)
CallCollect ==
    /\ Calling("collect")
    /\ LET q == pr[cb.p]
           r == [q.results EXCEPT ![cb.i] = v]
       IN  /\ pr' = [pr EXCEPT ![cb.p].results = r, ![cb.p].size = q.size - 1]
           /\ Do(IF q.size = 1 THEN <<Resolve(cb.p, r)>> ELSE <<>>)
    /\ UNCHANGED seen /\ UNCHANGED rest

(* The second callback that promise::all, and then with one argument, give.*)
CallForward ==
    /\ Calling("forward")
    /\ Do(<<Reject(cb.p, v)>>)
    /\ UNCHANGED <<pr, seen>> /\ UNCHANGED rest

-----------------------------------------------------------------------------
(* verify of a certificate: the conjunction of the tasks' results.         *)
CallVerdict ==
    /\ Calling("verdict")
    /\ Do(<<Resolve(<<"cert", cb.o>>,
                    IF \A i \in DOMAIN v : v[i] = "true" THEN "true" ELSE "false")>>)
    /\ UNCHANGED <<pr, seen>> /\ UNCHANGED rest

(* A continuation of the replica: it is recorded in seen with what it got, *)
(* does its steps, and the promise that its then returned is resolved.     *)
Continuation(x, steps) ==
    /\ seen' = [seen EXCEPT ![<<cb.cb, cb.id>>] = Append(@, x)]
    /\ Do(Append(steps, Resolve(<<"npm", <<cb.cb, cb.id>>>>, "void")))
    /\ UNCHANGED pr /\ UNCHANGED rest

(* async_deliver_blk once the block is fetched. What concerns genesis is   *)
(* resolved already and left out of the list.                              *)
CallFetched ==
    /\ Calling("fetched")
    /\ LET b == cb.id
           o == <<"blk", b>>
           parent == IF b = 1 THEN <<>> ELSE <<Deliver(b - 1)>>
           refs == IF b = 1 THEN <<>> ELSE <<<<"fetch", b - 1>>, <<"deliver", b - 1>>>>
       IN  Continuation(v, <<Verify(o)>> \o parent \o
                           <<All(<<"all", o>>, <<<<"cert", o>>>> \o refs),
                             ThenDo(<<"all", o>>, <<"delivery", b>>)>>)

(* values[0] and on_deliver_blk, which resolves the promise of the block.  *)
CallDelivery ==
    /\ Calling("delivery")
    /\ Continuation(v[1], IF v[1] = "true" THEN <<Resolve(<<"deliver", cb.id>>, "blk")>>
                          ELSE <<>>)

(* vote_relay_handler looks at values[1].                                  *)
CallRelayed == Calling("relayed") /\ Continuation(v[2], <<>>)

(* The pacemaker goes on to its next proposal.                             *)
CallNext == Calling("next") /\ Continuation(v, <<>>)

(* async_deliver_blk: a block that is delivered, or that is waited for,    *)
(* has its promise.                                                        *)
RunDeliver ==
    /\ Top("deliver")
    /\ LET b == Head(stack).b
           p == <<"deliver", b>>
       IN  IF pr[p].state # "None" THEN pr' = pr /\ Do(<<>>)
           ELSE /\ pr' = [pr EXCEPT ![p] = Made]
                /\ Do(<<ThenDo(<<"fetch", b>>, <<"fetched", b>>)>>)
    /\ UNCHANGED <<pms, seen, own, thrown>> /\ UNCHANGED threads

(* Block::verify resolves at once when the certificate is for genesis.     *)
Trusted(o) == o[1] = "blk" /\ o[2] = 1

(* verify of a certificate, with VeriPool::verify for each signature.      *)
RunVerify ==
    /\ Top("verify")
    /\ LET o == Head(stack).o
           new == [i \in 1..Sigs(o) |-> <<"task", o, i>>]
           ids == {new[i] : i \in DOMAIN new}
       IN  IF Trusted(o)
           THEN /\ pr' = [pr EXCEPT ![<<"cert", o>>] =
                             [Made EXCEPT !.state = "Fulfilled", !.value = "true"]]
                /\ Do(<<>>) /\ UNCHANGED <<pms, in_queue, notified>>
           ELSE /\ pr' = [p \in Promises |-> IF p \in ids \cup {<<"cert", o>>}
                                             THEN Made ELSE pr[p]]
                /\ pms' = pms \cup ids
                /\ in_queue' = in_queue \o new
                /\ notified' = IF ids = {} THEN notified ELSE notified \cup {"in"}
                /\ Do(<<All(<<"sigs", o>>, new),
                        Then(<<"sigs", o>>, Verdict(o), Forward(<<"cert", o>>))>>)
    /\ UNCHANGED <<seen, own, thrown, out_queue, work, good>>

-----------------------------------------------------------------------------
(* The verification threads. A step of theirs commutes with every step of  *)
(* the main thread that leaves the queues alone, so it is enough to take   *)
(* them where the main thread is idle or about to touch a queue.           *)
Threads == stack # <<>> => Head(stack).op \in {"verify", "drain"}

WorkerWakes(w) ==
    /\ Threads /\ work[w].cnt = 0 /\ "in" \in notified
    /\ notified' = notified \ {"in"}
    /\ work' = [work EXCEPT ![w].cnt = burst_size]
    /\ UNCHANGED <<in_queue, out_queue, good>> /\ UNCHANGED mainVars

(* try_dequeue, or the handler returns false.                              *)
WorkerTakes(w) ==
    /\ Threads /\ work[w].cnt > 0 /\ work[w].task = None
    /\ IF in_queue = <<>>
       THEN work' = [work EXCEPT ![w].cnt = 0] /\ in_queue' = in_queue
       ELSE /\ work' = [work EXCEPT ![w].task = Head(in_queue)]
            /\ in_queue' = Tail(in_queue)
    /\ UNCHANGED <<out_queue, notified, good>> /\ UNCHANGED mainVars

(* verify() has returned. At the end of a burst the handler returns true   *)
(* and its event is set again.                                             *)
WorkerDone(w) ==
    /\ Threads /\ work[w].task # None
    /\ out_queue' = [out_queue EXCEPT ![w] = Append(@, work[w].task)]
    /\ work' = [work EXCEPT ![w] = [task |-> None, cnt |-> @.cnt - 1]]
    /\ notified' = notified \cup {"out"} \cup (IF work[w].cnt = 1 THEN {"in"} ELSE {})
    /\ UNCHANGED <<in_queue, good>> /\ UNCHANGED mainVars

(* The handler of out_queue on the main thread.                            *)
PoolHandler ==
    /\ stack = <<>> /\ "out" \in notified
    /\ notified' = notified \ {"out"}
    /\ stack' = <<Drain(burst_size)>>
    /\ UNCHANGED <<pr, pms, seen, own, thrown, in_queue, out_queue, work, good>>

(* Mutant of RunDrain: it returns false also at the end of a burst.        *)
RunDrainOnce ==
    /\ Top("drain")
    /\ LET k == Head(stack).k
       IN  \/ /\ k = 0 \/ \A w \in Workers : out_queue[w] = <<>>
              /\ Do(<<>>) /\ UNCHANGED <<out_queue, notified>>
           \/ \E w \in Workers :
                /\ k > 0 /\ out_queue[w] # <<>>
                /\ out_queue' = [out_queue EXCEPT ![w] = Tail(@)]
                /\ Do(<<Resolve(Head(out_queue[w]), good[Head(out_queue[w])]),
                        Erase(Head(out_queue[w])), Drain(k - 1)>>)
                /\ UNCHANGED notified
    /\ UNCHANGED <<pr, pms, seen, own, thrown, in_queue, work, good>>

(* try_dequeue takes from any of the producers. When k is 0 the handler    *)
(* returns true and its event is set again; with nothing left it returns   *)
(* false.                                                                  *)
RunDrain ==
    /\ Top("drain")
    /\ LET k == Head(stack).k
       IN  \/ /\ k = 0
              /\ Do(<<>>) /\ notified' = notified \cup {"out"} /\ UNCHANGED out_queue
           \/ /\ k > 0 /\ \A w \in Workers : out_queue[w] = <<>>
              /\ Do(<<>>) /\ UNCHANGED <<out_queue, notified>>
           \/ \E w \in Workers :
                /\ k > 0 /\ out_queue[w] # <<>>
                /\ out_queue' = [out_queue EXCEPT ![w] = Tail(@)]
                /\ Do(<<Resolve(Head(out_queue[w]), good[Head(out_queue[w])]),
                        Erase(Head(out_queue[w])), Drain(k - 1)>>)
                /\ UNCHANGED notified
    /\ UNCHANGED <<pr, pms, seen, own, thrown, in_queue, work, good>>

(* Mutant of RunErase: the entry stays.                                    *)
RunEraseKeeps ==
    /\ Top("erase")
    /\ Do(<<>>)
    /\ UNCHANGED <<pr, pms, seen, own, thrown>> /\ UNCHANGED threads

RunErase ==
    /\ Top("erase")
    /\ pms' = pms \ {Head(stack).t}
    /\ Do(<<>>)
    /\ UNCHANGED <<pr, seen, own, thrown>> /\ UNCHANGED threads

-----------------------------------------------------------------------------
(* What happens to the main thread between its handlers.                   *)
Idle == stack = <<>> /\ ~thrown
Handler(steps) ==
    /\ Idle /\ stack' = steps
    /\ UNCHANGED <<pr, pms, seen, thrown>> /\ UNCHANGED threads

(* on_fetch_blk.                                                           *)
OnFetchBlk(b) ==
    /\ pr[<<"fetch", b>>].state \in {"None", "Pending"}
    /\ Handler(<<Resolve(<<"fetch", b>>, "blk")>>) /\ UNCHANGED own

(* propose_handler asks for the delivery of the block it was sent.         *)
ProposeHandler(b) ==
    /\ pr[<<"deliver", b>>].state = "None"
    /\ Handler(<<Deliver(b)>>) /\ UNCHANGED own

VoteRelayHandler(r) ==
    /\ pr[<<"all", <<"relay", r>>>>].state = "None"
    /\ Handler(<<Deliver(RelayOf[r].blk), Verify(<<"relay", r>>),
                 All(<<"all", <<"relay", r>>>>,
                     <<<<"deliver", RelayOf[r].blk>>, <<"cert", <<"relay", r>>>>>>),
                 ThenDo(<<"all", <<"relay", r>>>>, <<"relayed", r>>)>>)
    /\ UNCHANGED own

(* The pacemaker waits for the QC of a block: async_qc_finish returns the  *)
(* promise in qc_waiting, or one that is resolved once the QC is there.    *)
WaitQc ==
    /\ waits < setting.waits /\ waits' = waits + 1
    /\ qc_waiting' = (waits = 0 \/ qc_waiting)
    /\ Handler(IF qc_waiting' THEN <<ThenDo(<<"qc">>, <<"next", waits'>>)>>
               ELSE <<Call(Continue(<<"next", waits'>>), "void")>>)
    /\ UNCHANGED setting

(* It gives up, or on_qc_finish resolves the promise and erases the entry. *)
GiveUp ==
    /\ waits > 0 /\ pr[<<"qc">>].state = "Pending" /\ UNCHANGED own
    /\ Handler(<<Reject(<<"qc">>, "void")>>)
QcFinish ==
    /\ qc_waiting /\ qc_waiting' = FALSE /\ UNCHANGED <<waits, setting>>
    /\ Handler(<<Resolve(<<"qc">>, "void")>>)

Step ==
    \/ RunResolve \/ RunReject \/ RunThen \/ RunAll \/ RunDeliver \/ RunVerify
    \/ CallCollect \/ CallForward \/ CallVerdict \/ CallFetched \/ CallDelivery
    \/ CallRelayed \/ CallNext \/ PoolHandler \/ RunDrain \/ RunErase

Next ==
    \/ Step
    \/ \E w \in Workers : WorkerWakes(w) \/ WorkerTakes(w) \/ WorkerDone(w)
    \/ \E b \in Blocks : OnFetchBlk(b)
    \/ \E b \in setting.proposed : ProposeHandler(b)
    \/ \E r \in setting.relays : VoteRelayHandler(r)
    \/ WaitQc \/ GiveUp \/ QcFinish

(* The event loop gives every handler its turn, the threads run, and a     *)
(* block that is asked for comes in the end (see Delivery).                *)
Fairness ==
    /\ WF_vars(Step)
    /\ \A w \in Workers : WF_vars(WorkerWakes(w) \/ WorkerTakes(w) \/ WorkerDone(w))
    /\ \A b \in Blocks : SF_vars(OnFetchBlk(b))

Spec == Init /\ [][Next]_vars
FairSpec == Spec /\ Fairness

-----------------------------------------------------------------------------
(* The reference: what the synchronous verify of crypto.cpp returns.       *)
AllGood(o) == Trusted(o) \/ \A i \in 1..Sigs(o) : good[<<"task", o, i>>] = "true"

(* A continuation is called at most once, and with the main thread idle it *)
(* has been called if and only if what then returned for it is fulfilled:  *)
(* none is called twice, or after the rejection was passed on, and none    *)
(* waits at a promise that is settled (promise.hpp, trigger_fulfill, then).*)
CalledOnce ==
    /\ \A c \in Continuations : Len(seen[c]) <= 1
    /\ stack = <<>> => \A p \in Promises :
          /\ pr[p].state = "Fulfilled" => pr[p].onF = <<>>
          /\ pr[p].state = "Rejected" => pr[p].onR = <<>>
    /\ stack = <<>> => \A c \in Continuations :
          pr[<<"npm", c>>].state = "Fulfilled" <=> seen[c] # <<>>

(* Whatever the order in which threads finish and blocks come, a relay or  *)
(* a block is judged by its own signatures, each at its index of the list, *)
(* and a relay only after its block is delivered (promise::all; values[0]  *)
(* and values[1] in hotstuff.cpp). The one certificate without signatures, *)
(* for genesis, does not reach promise::all, which would throw.            *)
RightVerdict ==
    /\ ~ thrown
    /\ \A b \in Blocks : seen[<<"delivery", b>>] # <<>> =>
          (Head(seen[<<"delivery", b>>]) = "true" <=> AllGood(<<"blk", b>>))
    /\ \A r \in Relays : seen[<<"relayed", r>>] # <<>> =>
          /\ Head(seen[<<"relayed", r>>]) = "true" <=> AllGood(<<"relay", r>>)
          /\ pr[<<"deliver", RelayOf[r].blk>>].state = "Fulfilled"

(* A task in pms is in one place only, and no other is: out_queue never    *)
(* hands over a task that pms does not have (pms.find is dereferenced      *)
(* unchecked), and no entry is left behind (task.h).                       *)
NothingOrphaned ==
    LET lane(q, t) == Cardinality({i \in DOMAIN q : q[i] = t})
        places(t) == lane(in_queue, t)
                       + Cardinality({w \in Workers : work[w].task = t})
                       + Cardinality({w \in Workers : lane(out_queue[w], t) > 0})
                       + lane(stack, Erase(t))
    IN  \A t \in Tasks : places(t) = IF t \in pms THEN 1 ELSE 0

(* A relay is judged in the end if the certificates of its block and of    *)
(* the ancestors hold: no result stays in a queue (the handlers' return    *)
(* values in task.h) and no callback is lost.                              *)
Answered ==
    \A r \in Relays :
        (/\ pr[<<"all", <<"relay", r>>>>].state # "None"
         /\ \A b \in 1..RelayOf[r].blk : AllGood(<<"blk", b>>))
        ~> pr[<<"npm", <<"relayed", r>>>>].state = "Fulfilled"
=============================================================================
