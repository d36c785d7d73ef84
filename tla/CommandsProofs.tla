--------------------------- MODULE CommandsProofs ---------------------------
(***************************************************************************)
(* Proofs about Commands, for every set of clients, every number of        *)
(* commands, every blk_size and every max_async_num.                       *)
(***************************************************************************)
EXTENDS Commands, SequenceTheorems, TLAPS

(* The fields of app. resp_queue has no part in what is proved.            *)
AppFields == {"proposer", "cmd_pending", "cmd_pending_buffer", "final_buffer",
              "decision_waiting", "resp_queue", "beats", "nblk", "executed"}

TypeInv ==
    /\ cnt \in [Clients -> 0..max_iter_num]
    /\ waiting \in [Clients -> SUBSET Cmds]
    /\ requests \in [Clients -> Seq(Cmds)]
    /\ DOMAIN app = AppFields
    /\ app.cmd_pending \in Seq(Cmds)
    /\ app.cmd_pending_buffer \in Seq(Cmds)
    /\ app.final_buffer \in Seq(Cmds)
    /\ app.decision_waiting \in SUBSET Cmds
    /\ app.beats \in Nat /\ app.nblk \in Nat
    /\ app.executed \in [Cmds -> Nat]
    /\ told \in [Cmds -> {<<>>, <<0>>, <<0, 1>>}]

Distinct(s) == \A i, j \in DOMAIN s : s[i] = s[j] => i = j

(* A command that is not sent, or on the way to the handler of             *)
(* cmd_pending: none of its callbacks has run.                             *)
Unsent(x)  == x[2] >= cnt[x[1]]
OnTheWay(x) == x \in Range(requests[x[1]]) \/ x \in Range(app.cmd_pending)

(* Every command is sent once, and is in one place on its way.             *)
SentOnce ==
    /\ \A c \in Clients :
          /\ Distinct(requests[c])
          /\ \A x \in Range(requests[c]) : x[1] = c /\ x \notin Range(app.cmd_pending)
    /\ Distinct(app.cmd_pending)
    /\ \A x \in Cmds : OnTheWay(x) => ~ Unsent(x)
    /\ \A x \in Cmds : Unsent(x) \/ OnTheWay(x) => told[x] = <<>>

(* final_buffer is filled once, before the first beat, with commands whose *)
(* callbacks have run; what decision_waiting holds was told 0 only.        *)
FilledOnce ==
    /\ Len(app.cmd_pending_buffer) < blk_size
    /\ app.final_buffer # <<>> => app.cmd_pending_buffer = <<>>
    /\ app.beats > 0 \/ app.nblk > 0 => app.final_buffer # <<>>
    /\ \A x \in Range(app.cmd_pending_buffer) \cup Range(app.final_buffer) :
          told[x] # <<>>
    /\ \A x \in app.decision_waiting : told[x] = <<0>>

(* The commands of final_buffer are executed with every block that is      *)
(* committed, and told 1 with the first.                                   *)
ToldInv ==
    \A x \in Cmds :
        /\ app.executed[x] = IF x \in Range(app.final_buffer) /\ app.nblk > 3
                             THEN app.nblk - 3 ELSE 0
        /\ told[x] \in {<<>>, <<0>>, <<0, 1>>}
        /\ told[x] = <<0, 1>> <=> x \in Range(app.final_buffer) /\ app.nblk > 3

Inv == TypeInv /\ SentOnce /\ FilledOnce /\ OneOutstanding /\ ToldInv /\ WaitingIsFirstBatch

-----------------------------------------------------------------------------
(* What the operations on sequences do to the set of their elements.       *)
LEMMA RangeOf ==
    ASSUME NEW S, NEW s \in Seq(S)
    PROVE  /\ Range(s) = {s[i] : i \in 1..Len(s)}
           /\ Range(s) \subseteq S
BY RangeEquality, LenProperties DEF Range

(* The empty sequence has no elements.                                     *)
LEMMA EmptyRange == Range(<<>>) = {} /\ Distinct(<<>>)
BY DEF Range, Distinct

(* What enqueue adds to the set of elements.                               *)
LEMMA AppendRange ==
    ASSUME NEW S, NEW s \in Seq(S), NEW e \in S
    PROVE  /\ Append(s, e) \in Seq(S)
           /\ Range(Append(s, e)) = Range(s) \cup {e}
           /\ Distinct(s) /\ e \notin Range(s) => Distinct(Append(s, e))
<1> DEFINE t == Append(s, e)
<1>1. /\ t \in Seq(S) /\ Len(t) = Len(s) + 1 /\ Len(s) \in Nat
      /\ \A i \in 1..Len(s) : t[i] = s[i]
      /\ t[Len(s) + 1] = e
      /\ DOMAIN s = 1..Len(s) /\ DOMAIN t = 1..Len(t)
  BY AppendProperties, LenProperties
<1>2. Range(s) = {s[i] : i \in 1..Len(s)} /\ Range(t) = {t[i] : i \in 1..Len(t)}
  BY <1>1, RangeOf
<1> HIDE DEF t
<1>3. Range(t) = Range(s) \cup {e}
  BY <1>1, <1>2
<1>4. Distinct(s) /\ e \notin Range(s) => Distinct(t)
  BY <1>1, <1>2 DEF Distinct
<1> QED BY <1>1, <1>3, <1>4 DEF t

(* What try_dequeue takes from the set of elements.                        *)
LEMMA TailRange ==
    ASSUME NEW S, NEW s \in Seq(S), s # <<>>, Distinct(s)
    PROVE  /\ Tail(s) \in Seq(S) /\ Head(s) \in Range(s)
           /\ Range(Tail(s)) = Range(s) \ {Head(s)}
           /\ Distinct(Tail(s))
<1> DEFINE t == Tail(s)
<1>1. /\ t \in Seq(S) /\ Len(t) = Len(s) - 1 /\ Len(s) \in Nat \ {0}
      /\ \A i \in 1..Len(t) : t[i] = s[i + 1]
      /\ Head(s) = s[1]
      /\ DOMAIN s = 1..Len(s) /\ DOMAIN t = 1..Len(t)
  BY HeadTailProperties, LenProperties, EmptySeq
<1>2. Range(s) = {s[i] : i \in 1..Len(s)} /\ Range(t) = {t[i] : i \in 1..Len(t)}
  BY <1>1, RangeOf
<1> HIDE DEF t
<1>3. Head(s) \in Range(s) /\ Distinct(t)
  BY <1>1, <1>2 DEF Distinct
<1>4. Range(t) = Range(s) \ {Head(s)}
  <2>1. ASSUME NEW i \in 1..Len(t)
        PROVE  t[i] \in Range(s) /\ t[i] # s[1]
    BY <1>1, <1>2 DEF Distinct
  <2>2. ASSUME NEW i \in 1..Len(s), s[i] # s[1]
        PROVE  s[i] \in Range(t)
    <3>1. i - 1 \in 1..Len(t) /\ t[i - 1] = s[i]
      BY <1>1, <2>2
    <3> QED BY <1>2, <3>1
  <2> QED BY <1>1, <1>2, <2>1, <2>2
<1> QED BY <1>1, <1>3, <1>4 DEF t

(* A prefix and the rest share no element of a sequence without repetition.*)
LEMMA SplitRange ==
    ASSUME NEW S, NEW s \in Seq(S), NEW k \in 0..Len(s), Distinct(s)
    PROVE  LET front == SubSeq(s, 1, k)
               rest  == SubSeq(s, Len(front) + 1, Len(s))
           IN  /\ front \in Seq(S) /\ rest \in Seq(S)
               /\ Len(front) = k
               /\ Range(rest) = Range(s) \ Range(front)
               /\ Range(front) \subseteq Range(s)
               /\ Distinct(rest)
<1> DEFINE front == SubSeq(s, 1, k)
           rest  == SubSeq(s, k + 1, Len(s))
<1>1. Len(s) \in Nat /\ DOMAIN s = 1..Len(s) /\ \A i \in 1..Len(s) : s[i] \in S
  BY LenProperties, ElementOfSeq
<1>2. /\ front \in Seq(S) /\ Len(front) = k
      /\ \A i \in 1..k : front[i] = s[i]
  BY <1>1, SubSeqProperties
<1>3. /\ rest \in Seq(S) /\ Len(rest) = Len(s) - k
      /\ \A i \in 1..Len(s) - k : rest[i] = s[k + i]
  <2>1. \A i \in k + 1 .. Len(s) : s[i] \in S
    BY <1>1
  <2>2. /\ rest \in Seq(S)
        /\ Len(rest) = IF k + 1 <= Len(s) THEN Len(s) - (k + 1) + 1 ELSE 0
        /\ \A i \in 1..Len(s) - (k + 1) + 1 : rest[i] = s[k + 1 + i - 1]
    BY <1>1, <2>1, SubSeqProperties
  <2>3. Len(rest) = Len(s) - k
    <3> DEFINE l == Len(rest)
               n == Len(s)
    <3>1. l = IF k + 1 <= n THEN n - (k + 1) + 1 ELSE 0
      BY <2>2
    <3>2. n \in Nat /\ k \in 0..n
      BY <1>1
    <3>3. l = n - k
      <4> HIDE DEF l, n
      <4> QED BY <3>1, <3>2
    <3> QED BY <3>3
  <2>4. ASSUME NEW i \in 1..Len(s) - k
        PROVE  rest[i] = s[k + i]
    <3>1. k + 1 + i - 1 = k + i /\ i \in 1..Len(s) - (k + 1) + 1
      BY <1>1
    <3> QED BY <2>2, <3>1
  <2> QED BY <2>2, <2>3, <2>4
<1> HIDE DEF front, rest
<1>4. /\ Range(s) = {s[i] : i \in 1..Len(s)}
      /\ Range(front) = {front[i] : i \in 1..k}
      /\ Range(rest) = {rest[i] : i \in 1..Len(s) - k}
      /\ DOMAIN rest = 1..Len(s) - k
  <2>1. Range(s) = {s[i] : i \in 1..Len(s)}
    BY RangeOf
  <2>2. Range(front) = {front[i] : i \in 1..k}
    BY <1>2, RangeOf
  <2>3. Range(rest) = {rest[i] : i \in 1..Len(s) - k} /\ DOMAIN rest = 1..Len(s) - k
    BY <1>3, RangeOf, LenProperties
  <2> QED BY <2>1, <2>2, <2>3
<1>5. Distinct(rest) /\ Range(front) \subseteq Range(s)
  <2>1. Range(front) \subseteq Range(s)
    BY <1>1, <1>2, <1>4
  <2>2. ASSUME NEW i \in 1..Len(s) - k, NEW j \in 1..Len(s) - k, rest[i] = rest[j]
        PROVE  i = j
    <3>1. s[k + i] = s[k + j] /\ k + i \in DOMAIN s /\ k + j \in DOMAIN s
      BY <1>1, <1>3, <2>2
    <3>2. k + i = k + j
      BY <3>1 DEF Distinct
    <3> QED BY <3>2
  <2> QED BY <1>4, <2>1, <2>2 DEF Distinct
<1>6. Range(rest) = Range(s) \ Range(front)
  <2>1. ASSUME NEW i \in 1..Len(s) - k
        PROVE  rest[i] \in Range(s) /\ rest[i] \notin Range(front)
    <3>1. k + i \in 1..Len(s) /\ rest[i] = s[k + i]
      BY <1>1, <1>3
    <3>2. ASSUME NEW j \in 1..k, front[j] = rest[i]
          PROVE  FALSE
      <4>1. j \in DOMAIN s /\ k + i \in DOMAIN s /\ s[j] = s[k + i]
        BY <1>1, <1>2, <3>1, <3>2
      <4>2. j = k + i
        BY <4>1 DEF Distinct
      <4> QED BY <4>2
    <3> QED BY <1>4, <3>1, <3>2
  <2>2. ASSUME NEW i \in 1..Len(s), s[i] \notin Range(front)
        PROVE  s[i] \in Range(rest)
    <3>1. i > k
      <4>1. i \in 1..k => s[i] \in Range(front)
        BY <1>2, <1>4
      <4> QED BY <1>1, <2>2, <4>1
    <3>2. i - k \in 1..Len(s) - k /\ k + (i - k) = i
      BY <1>1, <3>1
    <3>3. rest[i - k] = s[i]
      BY <1>3, <3>2
    <3> QED BY <1>4, <3>2, <3>3
  <2> QED BY <1>4, <2>1, <2>2
<1> QED BY <1>2, <1>3, <1>5, <1>6 DEF front, rest

-----------------------------------------------------------------------------
(* Every step keeps the invariant.                                         *)
LEMMA InitInv == Init => Inv
<1> SUFFICES ASSUME Init PROVE Inv
  OBVIOUS
<1>1. max_iter_num \in Nat /\ blk_size \in Nat \ {0}
  BY CommandsAssumption
<1> DEFINE may == MaySend(0, {})
<1>2. may => 0 \in 0..max_iter_num - 1
  BY <1>1 DEF MaySend
<1>3. ASSUME NEW c \in Clients
      PROVE  /\ may => <<c, 0>> \in Cmds /\ requests[c] = <<<<c, 0>>>> /\ cnt[c] = 1
             /\ ~may => requests[c] = <<>> /\ cnt[c] = 0
             /\ requests[c] \in Seq(Cmds)
             /\ Distinct(requests[c])
             /\ \A x \in Range(requests[c]) : x[1] = c /\ x[2] = 0 /\ cnt[c] = 1
  <2>1. /\ may => <<c, 0>> \in Cmds /\ requests[c] = <<<<c, 0>>>> /\ cnt[c] = 1
        /\ ~may => requests[c] = <<>> /\ cnt[c] = 0
    BY <1>2 DEF Init, Cmds
  <2>2. may => /\ requests[c] \in Seq(Cmds)
               /\ Distinct(requests[c])
               /\ Range(requests[c]) = {<<c, 0>>}
    BY <2>1 DEF Distinct, Range
  <2>3. ~may => /\ requests[c] \in Seq(Cmds)
                /\ Distinct(requests[c])
                /\ Range(requests[c]) = {}
    BY <2>1, EmptyRange, EmptySeq
  <2>4. \A x : x = <<c, 0>> => x[1] = c /\ x[2] = 0
    OBVIOUS
  <2> HIDE DEF may
  <2>5. CASE may
    BY <2>1, <2>2, <2>4, <2>5
  <2>6. CASE ~may
    BY <2>1, <2>3, <2>6
  <2> QED BY <2>5, <2>6
<1> HIDE DEF may
<1>4. TypeInv
  <2>1. cnt \in [Clients -> 0..max_iter_num]
    BY <1>1, <1>2 DEF Init, may
  <2>2. waiting \in [Clients -> SUBSET Cmds]
    BY <1>3 DEF Init, may
  <2>3. requests \in [Clients -> Seq(Cmds)]
    BY <1>3 DEF Init
  <2> QED BY <2>1, <2>2, <2>3 DEF Init, TypeInv, AppFields
<1>5. app.cmd_pending = <<>> /\ app.cmd_pending_buffer = <<>> /\ app.final_buffer = <<>>
      /\ app.decision_waiting = {} /\ app.beats = 0 /\ app.nblk = 0
      /\ app.executed = [x \in Cmds |-> 0] /\ told = [x \in Cmds |-> <<>>]
  BY DEF Init
<1>6. SentOnce
  <2>1. ASSUME NEW x \in Cmds, OnTheWay(x) PROVE ~Unsent(x)
    <3>1. x[1] \in Clients
      BY DEF Cmds
    <3>2. x \in Range(requests[x[1]])
      BY <1>5, <2>1, EmptyRange DEF OnTheWay
    <3>3. x[2] = 0 /\ cnt[x[1]] = 1
      BY <1>3, <3>1, <3>2
    <3> QED BY <3>3 DEF Unsent
  <2>2. Range(app.cmd_pending) = {} /\ Distinct(app.cmd_pending)
    BY <1>5, EmptyRange
  <2>3. \A x \in Cmds : told[x] = <<>>
    BY <1>5
  <2> QED BY <1>3, <2>1, <2>2, <2>3 DEF SentOnce
<1>7. FilledOnce /\ ToldInv /\ WaitingIsFirstBatch
  BY <1>1, <1>5, EmptyRange DEF FilledOnce, ToldInv, WaitingIsFirstBatch
<1>8. OneOutstanding
  BY DEF Init, OneOutstanding
<1> QED BY <1>4, <1>6, <1>7, <1>8 DEF Inv

(* The invariant on the side of the replica depends on app and told only.  *)
LEMMA SameReplica ==
    ASSUME Inv, app' = app, told' = told
    PROVE  FilledOnce' /\ ToldInv' /\ WaitingIsFirstBatch'
BY DEF Inv, FilledOnce, ToldInv, WaitingIsFirstBatch

(* An answer lets its client send the next command only.                   *)
LEMMA ClientRespStep ==
    ASSUME Inv, NEW c \in Clients, ClientRespCmdHandler(c)
    PROVE  Inv'
<1> DEFINE cmd  == Head(answers[c])[1]
           left == waiting[c] \ {cmd}
           new  == <<c, cnt[c]>>
<1>1. max_iter_num \in Nat
  BY CommandsAssumption
<1>2. UNCHANGED <<gone, app, told>>
  BY DEF ClientRespCmdHandler
<1>3. FilledOnce' /\ ToldInv' /\ WaitingIsFirstBatch'
  BY <1>2, SameReplica
<1>4. CASE cmd \in waiting[c] /\ MaySend(cnt[c], left)
  <2>1. /\ cnt' = [cnt EXCEPT ![c] = @ + 1]
        /\ waiting' = [waiting EXCEPT ![c] = left \cup {new}]
        /\ requests' = [requests EXCEPT ![c] = Append(@, new)]
    BY <1>4 DEF ClientRespCmdHandler
  <2>2. left = {}
    BY <1>4 DEF Inv, OneOutstanding
  <2>3. cnt[c] \in 0..max_iter_num - 1 /\ new \in Cmds /\ Unsent(new)
    BY <1>1, <1>4 DEF MaySend, Inv, TypeInv, Cmds, Unsent
  <2>4. told[new] = <<>> /\ ~OnTheWay(new)
    BY <2>3 DEF Inv, SentOnce
  <2>5. requests[c] \in Seq(Cmds) /\ Distinct(requests[c]) /\ new \notin Range(requests[c])
    BY <2>4 DEF Inv, TypeInv, SentOnce, OnTheWay
  <2>6. /\ requests'[c] \in Seq(Cmds)
        /\ Range(requests'[c]) = Range(requests[c]) \cup {new}
        /\ Distinct(requests'[c])
    <3>1. requests'[c] = Append(requests[c], new)
      BY <2>1 DEF Inv, TypeInv
    <3> HIDE DEF new
    <3> QED BY <2>3, <2>5, <3>1, AppendRange
  <2>7. \A d \in Clients \ {c} : requests'[d] = requests[d] /\ cnt'[d] = cnt[d]
    BY <2>1 DEF Inv, TypeInv
  <2>8. cnt'[c] = cnt[c] + 1
    BY <2>1 DEF Inv, TypeInv
  <2>9. TypeInv'
    <3>1. cnt' \in [Clients -> 0..max_iter_num]
      BY <1>1, <2>1, <2>3 DEF Inv, TypeInv
    <3>2. waiting' \in [Clients -> SUBSET Cmds]
      BY <2>1, <2>3 DEF Inv, TypeInv
    <3>3. requests' \in [Clients -> Seq(Cmds)]
      BY <2>1, <2>6 DEF Inv, TypeInv
    <3> QED BY <1>2, <3>1, <3>2, <3>3 DEF Inv, TypeInv, AppFields
  <2>10. SentOnce'
    <3>1. ASSUME NEW x \in Cmds
          PROVE  /\ OnTheWay(x)' => OnTheWay(x) \/ x = new
                 /\ Unsent(x)' => Unsent(x) /\ x # new
                 /\ Unsent(x) => Unsent(x)' \/ x = new
      <4>1. x[1] \in Clients /\ x[2] \in Nat /\ x = <<x[1], x[2]>> /\ cnt[c] \in Nat
        BY DEF Inv, TypeInv, Cmds
      <4>2. CASE x[1] = c
        BY <1>2, <2>6, <2>8, <4>1, <4>2 DEF OnTheWay, Unsent
      <4>3. CASE x[1] # c
        BY <1>2, <2>7, <4>1, <4>3 DEF OnTheWay, Unsent
      <4> QED BY <4>2, <4>3
    <3>2. \A x \in Cmds : OnTheWay(x)' => ~Unsent(x)'
      BY <3>1 DEF Inv, SentOnce
    <3>3. \A x \in Cmds : Unsent(x)' \/ OnTheWay(x)' => told'[x] = <<>>
      BY <1>2, <2>4, <3>1 DEF Inv, SentOnce
    <3>4. \A d \in Clients :
            /\ Distinct(requests'[d])
            /\ \A x \in Range(requests'[d]) : x[1] = d /\ x \notin Range(app.cmd_pending)
      <4> SUFFICES ASSUME NEW d \in Clients
                   PROVE  /\ Distinct(requests'[d])
                          /\ \A x \in Range(requests'[d]) :
                                x[1] = d /\ x \notin Range(app.cmd_pending)
        OBVIOUS
      <4>1. CASE d = c
        BY <2>4, <2>6, <4>1 DEF Inv, SentOnce, OnTheWay
      <4>2. CASE d # c
        BY <2>7, <4>2 DEF Inv, SentOnce
      <4> QED BY <4>1, <4>2
    <3> QED BY <1>2, <3>2, <3>3, <3>4 DEF Inv, SentOnce
  <2>11. OneOutstanding'
    BY <2>1, <2>2, <2>3 DEF Inv, TypeInv, OneOutstanding
  <2> QED BY <1>3, <2>9, <2>10, <2>11 DEF Inv
<1>5. CASE ~(cmd \in waiting[c] /\ MaySend(cnt[c], left))
  <2>1. waiting' = [waiting EXCEPT ![c] = left] /\ UNCHANGED <<cnt, requests>>
    BY <1>5 DEF ClientRespCmdHandler
  <2>2. TypeInv'
    BY <1>2, <2>1 DEF Inv, TypeInv, AppFields
  <2>3. SentOnce'
    BY <1>2, <2>1 DEF Inv, SentOnce, OnTheWay, Unsent
  <2>4. OneOutstanding'
    BY <2>1 DEF Inv, TypeInv, OneOutstanding
  <2> QED BY <1>3, <2>2, <2>3, <2>4 DEF Inv
<1> QED BY <1>4, <1>5

(* A client that goes away takes its window with it.                       *)
LEMMA LeaveStep ==
    ASSUME Inv, NEW c \in Clients, Leave(c)
    PROVE  Inv'
<1>1. /\ requests' = [requests EXCEPT ![c] = <<>>]
      /\ UNCHANGED <<cnt, waiting, app, told>>
  BY DEF Leave
<1>2. FilledOnce' /\ ToldInv' /\ WaitingIsFirstBatch'
  BY <1>1, SameReplica
<1>3. TypeInv'
  BY <1>1 DEF Inv, TypeInv, AppFields
<1>4. \A d \in Clients : requests'[d] = requests[d] \/ requests'[d] = <<>>
  BY <1>1 DEF Inv, TypeInv
<1>5. SentOnce'
  <2>1. \A x \in Cmds : OnTheWay(x)' => OnTheWay(x)
    BY <1>1, <1>4, EmptyRange DEF OnTheWay, Cmds
  <2> QED BY <1>1, <1>4, <2>1, EmptyRange DEF Inv, SentOnce, Unsent
<1>6. OneOutstanding'
  BY <1>1 DEF Inv, OneOutstanding
<1> QED BY <1>2, <1>3, <1>5, <1>6 DEF Inv

(* The request thread moves a command from the connection to cmd_pending.  *)
LEMMA ClientRequestStep ==
    ASSUME Inv, NEW c \in Clients, ClientRequestCmdHandler(c)
    PROVE  Inv'
<1> DEFINE x0 == Head(requests[c])
<1>1. /\ requests[c] # <<>>
      /\ requests' = [requests EXCEPT ![c] = Tail(@)]
      /\ app' = [app EXCEPT !.cmd_pending = Append(@, x0)]
      /\ UNCHANGED <<cnt, waiting, told>>
  BY DEF ClientRequestCmdHandler
<1>2. /\ requests[c] \in Seq(Cmds) /\ Distinct(requests[c])
      /\ app.cmd_pending \in Seq(Cmds) /\ Distinct(app.cmd_pending)
  BY DEF Inv, TypeInv, SentOnce
<1>3. /\ Tail(requests[c]) \in Seq(Cmds) /\ x0 \in Range(requests[c])
      /\ Range(Tail(requests[c])) = Range(requests[c]) \ {x0}
      /\ Distinct(Tail(requests[c]))
  BY <1>1, <1>2, TailRange
<1>4. x0 \in Cmds /\ x0[1] = c /\ x0 \notin Range(app.cmd_pending)
  BY <1>2, <1>3, RangeOf DEF Inv, SentOnce
<1> HIDE DEF x0
<1>5. /\ DOMAIN app' = AppFields
      /\ app'.cmd_pending = Append(app.cmd_pending, x0)
      /\ app'.cmd_pending_buffer = app.cmd_pending_buffer
      /\ app'.final_buffer = app.final_buffer
      /\ app'.decision_waiting = app.decision_waiting
      /\ app'.beats = app.beats /\ app'.nblk = app.nblk
      /\ app'.executed = app.executed
  BY <1>1 DEF Inv, TypeInv, AppFields
<1>6. /\ app'.cmd_pending \in Seq(Cmds)
      /\ Range(app'.cmd_pending) = Range(app.cmd_pending) \cup {x0}
      /\ Distinct(app'.cmd_pending)
  BY <1>2, <1>4, <1>5, AppendRange
<1>7. /\ requests'[c] = Tail(requests[c])
      /\ \A d \in Clients \ {c} : requests'[d] = requests[d]
  BY <1>1 DEF Inv, TypeInv
<1>8. TypeInv'
  <2>1. requests' \in [Clients -> Seq(Cmds)]
    BY <1>1, <1>3 DEF Inv, TypeInv
  <2> QED BY <1>1, <1>5, <1>6, <2>1 DEF Inv, TypeInv
<1>9. SentOnce'
  <2>1. ASSUME NEW d \in Clients
        PROVE  /\ Distinct(requests'[d])
               /\ Range(requests'[d]) \subseteq Range(requests[d])
               /\ \A x \in Range(requests'[d]) : x[1] = d /\ x \notin Range(app'.cmd_pending)
    <3>1. CASE d = c
      BY <1>3, <1>6, <1>7, <3>1 DEF Inv, SentOnce
    <3>2. CASE d # c
      BY <1>4, <1>6, <1>7, <3>2 DEF Inv, SentOnce
    <3> QED BY <3>1, <3>2
  <2>2. ASSUME NEW x \in Cmds
        PROVE  (OnTheWay(x)' => OnTheWay(x)) /\ (Unsent(x)' <=> Unsent(x))
    <3>1. x[1] \in Clients
      BY DEF Cmds
    <3> QED BY <1>1, <1>3, <1>4, <1>6, <2>1, <3>1 DEF OnTheWay, Unsent
  <2> QED BY <1>1, <1>6, <2>1, <2>2 DEF Inv, SentOnce
<1>10. FilledOnce' /\ ToldInv' /\ WaitingIsFirstBatch' /\ OneOutstanding'
  BY <1>1, <1>5 DEF Inv, FilledOnce, ToldInv, WaitingIsFirstBatch, OneOutstanding
<1> QED BY <1>8, <1>9, <1>10 DEF Inv

(* The response thread changes nothing but the way of an answer.           *)
LEMMA RespStep ==
    ASSUME Inv, RespHandler
    PROVE  Inv'
<1>1. /\ app' = [app EXCEPT !.resp_queue = <<>>]
      /\ UNCHANGED <<cnt, waiting, requests, told>>
  BY DEF RespHandler
<1>2. /\ DOMAIN app' = AppFields
      /\ app'.cmd_pending = app.cmd_pending
      /\ app'.cmd_pending_buffer = app.cmd_pending_buffer
      /\ app'.final_buffer = app.final_buffer
      /\ app'.decision_waiting = app.decision_waiting
      /\ app'.beats = app.beats /\ app'.nblk = app.nblk
      /\ app'.executed = app.executed
  BY <1>1 DEF Inv, TypeInv, AppFields
<1>3. TypeInv' /\ SentOnce'
  BY <1>1, <1>2 DEF Inv, TypeInv, SentOnce, OnTheWay, Unsent
<1>4. FilledOnce' /\ ToldInv' /\ WaitingIsFirstBatch' /\ OneOutstanding'
  BY <1>1, <1>2 DEF Inv, FilledOnce, ToldInv, WaitingIsFirstBatch, OneOutstanding
<1> QED BY <1>3, <1>4 DEF Inv

(* The block of a beat: from the fourth on it decides final_buffer again,  *)
(* and only the first decision finds its commands in decision_waiting.     *)
LEMMA ProposeStep ==
    ASSUME Inv, Propose
    PROVE  Inv'
<1>1. app.beats > 0 /\ app.final_buffer # <<>> /\ UNCHANGED client_vars
  BY DEF Inv, FilledOnce, Propose
<1>2. /\ DOMAIN app' = AppFields
      /\ app'.cmd_pending = app.cmd_pending
      /\ app'.cmd_pending_buffer = app.cmd_pending_buffer
      /\ app'.final_buffer = app.final_buffer
      /\ app'.beats = app.beats - 1 /\ app'.nblk = app.nblk + 1
  BY DEF Inv, TypeInv, AppFields, Propose, Decide, Callbacks
<1>3. app.cmd_pending_buffer = <<>> /\ Range(app.cmd_pending_buffer) = {}
  BY <1>1, EmptyRange DEF Inv, FilledOnce
<1>4. CASE app.nblk + 1 > 3
  <2>1. /\ app'.decision_waiting = app.decision_waiting \ Range(app.final_buffer)
        /\ app'.executed = [x \in Cmds |-> app.executed[x]
                              + (IF x \in Range(app.final_buffer) THEN 1 ELSE 0)]
    <3> DEFINE s == [app EXCEPT !.beats = @ - 1, !.nblk = @ + 1]
               d == [s EXCEPT !.decision_waiting = @ \ Range(s.final_buffer),
                              !.executed = [x \in Cmds |-> @[x]
                                 + (IF x \in Range(s.final_buffer) THEN 1 ELSE 0)]]
    <3>1. /\ DOMAIN s = AppFields /\ s.final_buffer = app.final_buffer
          /\ s.decision_waiting = app.decision_waiting /\ s.executed = app.executed
          /\ s.nblk = app.nblk + 1
      BY DEF Inv, TypeInv, AppFields
    <3>2. app' = Decide(s)
      BY <1>4, <3>1 DEF Propose
    <3> HIDE DEF s
    <3>3. /\ DOMAIN d = AppFields
          /\ d.decision_waiting = s.decision_waiting \ Range(s.final_buffer)
          /\ d.executed = [x \in Cmds |-> s.executed[x]
                                + (IF x \in Range(s.final_buffer) THEN 1 ELSE 0)]
      BY <3>1 DEF AppFields
    <3>4. PICK q : app' = [d EXCEPT !.resp_queue = q]
      BY <3>2, Zenon DEF Decide, Callbacks
    <3> HIDE DEF d
    <3> QED BY <3>1, <3>3, <3>4 DEF AppFields
  <2>2. told' = Tell(Range(app.final_buffer) \cap app.decision_waiting, 1)
    BY <1>4 DEF Inv, TypeInv, AppFields, Propose
  <2>3. \A x \in Cmds :
          told'[x] = IF x \in Range(app.final_buffer) /\ x \in app.decision_waiting
                     THEN <<0, 1>> ELSE told[x]
    <3>1. Append(<<0>>, 1) = <<0, 1>>
      <4> DEFINE s == Append(<<0>>, 1)
                 u == <<0, 1>>
      <4>1. <<0>> \in Seq({0, 1}) /\ Len(<<0>>) = 1 /\ <<0>>[1] = 0
        OBVIOUS
      <4>2. s \in Seq({0, 1}) /\ Len(s) = 2 /\ s[1] = 0 /\ s[2] = 1
        BY <4>1, AppendProperties
      <4>3. u \in Seq({0, 1}) /\ Len(u) = 2 /\ u[1] = 0 /\ u[2] = 1
        OBVIOUS
      <4> HIDE DEF s, u
      <4>4. \A i \in 1..Len(s) : s[i] = u[i]
        BY <4>2, <4>3
      <4>5. s = u
        BY <4>2, <4>3, <4>4, SeqEqual
      <4> QED BY <4>5 DEF s, u
    <3> QED BY <2>2, <3>1 DEF Inv, TypeInv, FilledOnce, Tell
  <2>4. told' \in [Cmds -> {<<>>, <<0>>, <<0, 1>>}]
    <3>1. told' = [x \in Cmds |-> told'[x]]
      BY <2>2 DEF Tell
    <3> QED BY <2>3, <3>1 DEF Inv, TypeInv
  <2>5. TypeInv'
    <3>1. app'.executed \in [Cmds -> Nat]
      BY <2>1 DEF Inv, TypeInv
    <3> QED BY <1>1, <1>2, <2>1, <2>4, <3>1 DEF Inv, TypeInv, client_vars
  <2>6. \A x \in Cmds : OnTheWay(x)' = OnTheWay(x) /\ Unsent(x)' = Unsent(x)
    BY <1>1, <1>2 DEF OnTheWay, Unsent, client_vars
  <2>7. SentOnce'
    <3>1. \A x \in Cmds : told[x] = <<>> => told'[x] = <<>>
      BY <2>3 DEF Inv, FilledOnce
    <3> QED BY <1>1, <1>2, <2>6, <3>1 DEF Inv, SentOnce, client_vars
  <2>8. FilledOnce'
    <3>1. \A x \in Range(app.final_buffer) : x \in Cmds
      BY RangeOf DEF Inv, TypeInv
    <3>2. \A x \in Range(app.final_buffer) : told'[x] # <<>>
      BY <2>3, <3>1 DEF Inv, FilledOnce
    <3>3. \A x \in app'.decision_waiting : told'[x] = <<0>>
      BY <2>1, <2>3 DEF Inv, TypeInv, FilledOnce
    <3> QED BY <1>1, <1>2, <1>3, <3>2, <3>3 DEF Inv, FilledOnce
  <2>9. ToldInv'
    <3> SUFFICES ASSUME NEW x \in Cmds
                 PROVE  /\ app'.executed[x] =
                             IF x \in Range(app'.final_buffer) /\ app'.nblk > 3
                             THEN app'.nblk - 3 ELSE 0
                        /\ told'[x] \in {<<>>, <<0>>, <<0, 1>>}
                        /\ told'[x] = <<0, 1>> <=> x \in Range(app'.final_buffer) /\ app'.nblk > 3
      BY DEF ToldInv
    <3>1. app'.executed[x] = app.executed[x]
                              + (IF x \in Range(app.final_buffer) THEN 1 ELSE 0)
      BY <2>1
    <3>2. app.executed[x] = IF x \in Range(app.final_buffer) /\ app.nblk > 3
                            THEN app.nblk - 3 ELSE 0
      BY DEF Inv, ToldInv
    <3>3. app'.executed[x] = IF x \in Range(app'.final_buffer) /\ app'.nblk > 3
                             THEN app'.nblk - 3 ELSE 0
      BY <1>2, <1>4, <3>1, <3>2 DEF Inv, TypeInv
    <3>4. told'[x] = <<0, 1>> <=> x \in Range(app'.final_buffer) /\ app'.nblk > 3
      <4>1. CASE app.nblk > 3
        <5>1. app.decision_waiting = {}
          BY <1>3, <4>1 DEF Inv, WaitingIsFirstBatch
        <5>2. told'[x] = told[x]
          BY <2>3, <5>1
        <5> QED BY <1>2, <1>4, <4>1, <5>2 DEF Inv, ToldInv
      <4>2. CASE ~ (app.nblk > 3)
        <5>1. app.decision_waiting = Range(app.final_buffer)
          BY <1>3, <4>2 DEF Inv, WaitingIsFirstBatch
        <5>2. told[x] # <<0, 1>>
          BY <4>2 DEF Inv, ToldInv
        <5> QED BY <1>2, <1>4, <2>3, <5>1, <5>2
      <4> QED BY <4>1, <4>2
    <3>5. told'[x] \in {<<>>, <<0>>, <<0, 1>>}
      BY <2>4
    <3> QED BY <3>3, <3>4, <3>5
  <2>10. WaitingIsFirstBatch'
    BY <1>2, <1>3, <1>4, <2>1 DEF Inv, TypeInv, WaitingIsFirstBatch
  <2>11. OneOutstanding'
    BY <1>1 DEF Inv, OneOutstanding, client_vars
  <2> QED BY <2>5, <2>7, <2>8, <2>9, <2>10, <2>11 DEF Inv
<1>5. CASE ~(app.nblk + 1 > 3)
  <2>1. /\ app'.decision_waiting = app.decision_waiting
        /\ app'.executed = app.executed /\ told' = told
    BY <1>5 DEF Inv, TypeInv, AppFields, Propose
  <2>2. TypeInv'
    BY <1>1, <1>2, <2>1 DEF Inv, TypeInv, client_vars
  <2>3. SentOnce' /\ FilledOnce' /\ OneOutstanding'
    BY <1>1, <1>2, <2>1
    DEF Inv, SentOnce, OnTheWay, Unsent, FilledOnce, OneOutstanding, client_vars
  <2>4. ToldInv' /\ WaitingIsFirstBatch'
    BY <1>2, <1>5, <2>1 DEF Inv, TypeInv, ToldInv, WaitingIsFirstBatch
  <2> QED BY <2>2, <2>3, <2>4 DEF Inv
<1> QED BY <1>4, <1>5

(* What the handler of cmd_pending does to the fields of app: final_buffer *)
(* is filled already, or it is not yet, or now.                            *)
LEMMA CmdPendingFields ==
    ASSUME Inv, CmdPendingHandler, app.proposer = 0
    PROVE  LET cmds == Taken(app)
               rest == SubSeq(app.cmd_pending, Len(cmds) + 1, Len(app.cmd_pending))
               buffer == app.cmd_pending_buffer \o cmds
               first == app.final_buffer = <<>>
           IN  /\ DOMAIN app' = AppFields
               /\ app'.cmd_pending = rest
               /\ app'.cmd_pending_buffer =
                     IF first /\ Len(buffer) < blk_size THEN buffer
                     ELSE IF first THEN <<>> ELSE app.cmd_pending_buffer
               /\ app'.final_buffer =
                     IF first /\ ~(Len(buffer) < blk_size) THEN buffer ELSE app.final_buffer
               /\ app'.decision_waiting =
                     IF first THEN app.decision_waiting \cup Range(cmds)
                     ELSE app.decision_waiting
               /\ app'.beats = IF first /\ Len(buffer) < blk_size
                               THEN app.beats ELSE app.beats + 1
               /\ app'.nblk = app.nblk
               /\ app'.executed = app.executed
               /\ told' = Tell(Range(cmds), 0)
<1> DEFINE cmds == Taken(app)
           rest == SubSeq(app.cmd_pending, Len(cmds) + 1, Len(app.cmd_pending))
           buffer == app.cmd_pending_buffer \o cmds
           s == [app EXCEPT !.cmd_pending = rest]
           b == Batched(s, cmds)
<1>1. told' = Tell(Range(cmds), 0)
  BY DEF CmdPendingHandler
<1>2. PICK q : app' = [b EXCEPT !.resp_queue = q]
  BY Zenon DEF CmdPendingHandler, Callbacks
<1> HIDE DEF cmds, rest
<1>3. /\ DOMAIN s = AppFields /\ s.cmd_pending = rest
      /\ s.cmd_pending_buffer = app.cmd_pending_buffer
      /\ s.final_buffer = app.final_buffer
      /\ s.decision_waiting = app.decision_waiting
      /\ s.beats = app.beats /\ s.nblk = app.nblk
      /\ s.executed = app.executed
  BY DEF Inv, TypeInv, AppFields
<1> HIDE DEF s
<1>4. /\ DOMAIN b = AppFields
      /\ b.cmd_pending = rest
      /\ b.cmd_pending_buffer =
            IF app.final_buffer = <<>> /\ Len(buffer) < blk_size THEN buffer
            ELSE IF app.final_buffer = <<>> THEN <<>> ELSE app.cmd_pending_buffer
      /\ b.final_buffer =
            IF app.final_buffer = <<>> /\ ~(Len(buffer) < blk_size)
            THEN buffer ELSE app.final_buffer
      /\ b.decision_waiting =
            IF app.final_buffer = <<>> THEN app.decision_waiting \cup Range(cmds)
            ELSE app.decision_waiting
      /\ b.beats = IF app.final_buffer = <<>> /\ Len(buffer) < blk_size
                   THEN app.beats ELSE app.beats + 1
      /\ b.nblk = app.nblk
      /\ b.executed = app.executed
  <2>1. CASE app.final_buffer # <<>>
    BY <1>3, <2>1 DEF Batched, AppFields
  <2>2. CASE app.final_buffer = <<>> /\ Len(buffer) < blk_size
    BY <1>3, <2>2 DEF Batched, AppFields
  <2>3. CASE app.final_buffer = <<>> /\ ~(Len(buffer) < blk_size)
    BY <1>3, <2>3 DEF Batched, AppFields
  <2> QED BY <2>1, <2>2, <2>3
<1> HIDE DEF b
<1>5. /\ DOMAIN app' = AppFields
      /\ app'.cmd_pending = b.cmd_pending
      /\ app'.cmd_pending_buffer = b.cmd_pending_buffer
      /\ app'.final_buffer = b.final_buffer
      /\ app'.decision_waiting = b.decision_waiting
      /\ app'.beats = b.beats /\ app'.nblk = b.nblk
      /\ app'.executed = b.executed
  BY <1>2, <1>4 DEF AppFields
<1> QED BY <1>1, <1>4, <1>5 DEF cmds, rest

(* The handler of cmd_pending: each command it takes is told 0, for the    *)
(* first time, and stays in decision_waiting only if it is of the first    *)
(* batch.                                                                  *)
LEMMA CmdPendingStep ==
    ASSUME Inv, CmdPendingHandler
    PROVE  Inv'
<1>1. app.cmd_pending # <<>> /\ UNCHANGED client_vars
  BY DEF CmdPendingHandler
<1>2. app.cmd_pending \in Seq(Cmds) /\ Distinct(app.cmd_pending)
  BY DEF Inv, TypeInv, SentOnce
<1>3. OneOutstanding'
  BY <1>1 DEF Inv, OneOutstanding, client_vars
<1>4. CASE app.proposer # 0
  <2>1. app' = [app EXCEPT !.cmd_pending = <<>>] /\ told' = told
    BY <1>4 DEF CmdPendingHandler
  <2>2. /\ DOMAIN app' = AppFields
        /\ app'.cmd_pending = <<>>
        /\ app'.cmd_pending_buffer = app.cmd_pending_buffer
        /\ app'.final_buffer = app.final_buffer
        /\ app'.decision_waiting = app.decision_waiting
        /\ app'.beats = app.beats /\ app'.nblk = app.nblk
        /\ app'.executed = app.executed
    BY <2>1 DEF Inv, TypeInv, AppFields
  <2>3. TypeInv'
    BY <1>1, <2>1, <2>2, EmptySeq DEF Inv, TypeInv, client_vars
  <2>4. Range(app'.cmd_pending) = {} /\ Distinct(app'.cmd_pending)
    BY <2>2, EmptyRange
  <2>5. SentOnce'
    BY <1>1, <2>1, <2>4 DEF Inv, SentOnce, OnTheWay, Unsent, client_vars
  <2>6. FilledOnce' /\ ToldInv' /\ WaitingIsFirstBatch'
    BY <2>1, <2>2 DEF Inv, FilledOnce, ToldInv, WaitingIsFirstBatch
  <2> QED BY <1>3, <2>3, <2>5, <2>6 DEF Inv
<1>5. CASE app.proposer = 0
  <2> DEFINE cmds == Taken(app)
             rest == SubSeq(app.cmd_pending, Len(cmds) + 1, Len(app.cmd_pending))
             buffer == app.cmd_pending_buffer \o cmds
             first == app.final_buffer = <<>>
  <2>1. /\ cmds \in Seq(Cmds) /\ rest \in Seq(Cmds)
        /\ Len(cmds) \in Nat \ {0}
        /\ Range(rest) = Range(app.cmd_pending) \ Range(cmds)
        /\ Range(cmds) \subseteq Range(app.cmd_pending)
        /\ Distinct(rest)
    <3>1. Len(app.cmd_pending) \in Nat \ {0}
      BY <1>1, <1>2, EmptySeq
    <3>2. /\ blk_size \in Nat \ {0} /\ Len(app.cmd_pending_buffer) \in Nat
          /\ Len(app.cmd_pending_buffer) < blk_size
      BY CommandsAssumption, LenProperties DEF Inv, TypeInv, FilledOnce
    <3>3. PICK k \in 1..Len(app.cmd_pending) : cmds = SubSeq(app.cmd_pending, 1, k)
      BY <3>1, <3>2 DEF Taken
    <3> HIDE DEF cmds
    <3>4. Len(cmds) = k
      BY <1>2, <3>1, <3>3, SubSeqProperties, ElementOfSeq
    <3> QED BY <1>2, <3>1, <3>3, <3>4, SplitRange
  <2>2. /\ DOMAIN app' = AppFields
        /\ app'.cmd_pending = rest
        /\ app'.cmd_pending_buffer =
              IF first /\ Len(buffer) < blk_size THEN buffer
              ELSE IF first THEN <<>> ELSE app.cmd_pending_buffer
        /\ app'.final_buffer =
              IF first /\ ~(Len(buffer) < blk_size) THEN buffer ELSE app.final_buffer
        /\ app'.decision_waiting =
              IF first THEN app.decision_waiting \cup Range(cmds)
              ELSE app.decision_waiting
        /\ app'.beats = IF first /\ Len(buffer) < blk_size
                        THEN app.beats ELSE app.beats + 1
        /\ app'.nblk = app.nblk
        /\ app'.executed = app.executed
        /\ told' = Tell(Range(cmds), 0)
    BY <1>5, CmdPendingFields
  <2> HIDE DEF cmds, rest
  <2>3. /\ buffer \in Seq(Cmds) /\ Len(buffer) = Len(app.cmd_pending_buffer) + Len(cmds)
        /\ Range(buffer) = Range(app.cmd_pending_buffer) \cup Range(cmds)
        /\ Range(cmds) \subseteq Cmds
        /\ Len(app.cmd_pending_buffer) \in Nat
    BY <2>1, ConcatProperties, RangeConcatenation, RangeOf, LenProperties DEF Inv, TypeInv
  <2>4. buffer # <<>>
    BY <2>1, <2>3, EmptySeq
  <2> HIDE DEF buffer
  <2>5. \A x \in Range(cmds) : told[x] = <<>>
    BY <2>1, <2>3 DEF Inv, SentOnce, OnTheWay
  <2>6. \A x \in Cmds : told'[x] = IF x \in Range(cmds) THEN <<0>> ELSE told[x]
    <3>1. Append(<<>>, 0) = <<0>>
      <4> DEFINE s == Append(<<>>, 0)
                 u == <<0>>
      <4>1. <<>> \in Seq({0}) /\ Len(<<>>) = 0
        OBVIOUS
      <4>2. s \in Seq({0}) /\ Len(s) = 1 /\ s[1] = 0
        BY <4>1, AppendProperties
      <4>3. u \in Seq({0}) /\ Len(u) = 1 /\ u[1] = 0
        OBVIOUS
      <4> HIDE DEF s, u
      <4>4. \A i \in 1..Len(s) : s[i] = u[i]
        BY <4>2, <4>3
      <4>5. s = u
        BY <4>2, <4>3, <4>4, SeqEqual
      <4> QED BY <4>5 DEF s, u
    <3> QED BY <2>2, <2>5, <3>1 DEF Tell
  <2>7. told' \in [Cmds -> {<<>>, <<0>>, <<0, 1>>}]
    <3>1. told' = [x \in Cmds |-> told'[x]]
      BY <2>2 DEF Tell
    <3> QED BY <2>6, <3>1 DEF Inv, TypeInv
  <2>8. TypeInv'
    <3>1. /\ app'.cmd_pending \in Seq(Cmds)
          /\ app'.cmd_pending_buffer \in Seq(Cmds)
          /\ app'.final_buffer \in Seq(Cmds)
      BY <2>1, <2>2, <2>3, EmptySeq DEF Inv, TypeInv
    <3>2. /\ app'.decision_waiting \in SUBSET Cmds
          /\ app'.beats \in Nat /\ app'.nblk \in Nat
          /\ app'.executed \in [Cmds -> Nat]
      BY <2>2, <2>3 DEF Inv, TypeInv
    <3> QED BY <1>1, <2>2, <2>7, <3>1, <3>2 DEF Inv, TypeInv, client_vars
  <2>9. SentOnce'
    <3>1. Range(app'.cmd_pending) = Range(app.cmd_pending) \ Range(cmds)
      BY <2>1, <2>2
    <3>2. ASSUME NEW x \in Cmds
          PROVE  /\ OnTheWay(x)' => OnTheWay(x) /\ x \notin Range(cmds)
                 /\ Unsent(x)' <=> Unsent(x)
                 /\ x \in Range(cmds) => ~Unsent(x)
      <4>1. x[1] \in Clients
        BY DEF Cmds
      <4> QED BY <1>1, <2>1, <3>1, <4>1 DEF Inv, SentOnce, OnTheWay, Unsent, client_vars
    <3>3. \A x \in Cmds : Unsent(x)' \/ OnTheWay(x)' => told'[x] = <<>>
      BY <2>6, <3>2 DEF Inv, SentOnce
    <3>4. \A x \in Cmds : OnTheWay(x)' => ~Unsent(x)'
      BY <3>2 DEF Inv, SentOnce
    <3>5. \A c \in Clients :
             /\ Distinct(requests'[c])
             /\ \A x \in Range(requests'[c]) : x[1] = c /\ x \notin Range(app'.cmd_pending)
      BY <1>1, <3>1 DEF Inv, SentOnce, client_vars
    <3>6. Distinct(app'.cmd_pending)
      BY <2>1, <2>2
    <3> QED BY <3>3, <3>4, <3>5, <3>6 DEF SentOnce
  <2>10. /\ Range(app.cmd_pending_buffer) \subseteq Cmds
         /\ Range(app.final_buffer) \subseteq Cmds
         /\ first => Range(app.final_buffer) = {}
    BY RangeOf, EmptyRange DEF Inv, TypeInv
  <2>11. FilledOnce'
    <3>1. Len(app'.cmd_pending_buffer) < blk_size
      BY <2>2, CommandsAssumption, EmptySeq DEF Inv, FilledOnce
    <3>2. app'.final_buffer # <<>> => app'.cmd_pending_buffer = <<>>
      BY <2>2, <2>4 DEF Inv, FilledOnce
    <3>3. app'.beats > 0 \/ app'.nblk > 0 => app'.final_buffer # <<>>
      BY <2>2, <2>4 DEF Inv, FilledOnce
    <3>4. /\ Range(app'.cmd_pending_buffer) \subseteq Range(app.cmd_pending_buffer) \cup Range(cmds)
          /\ Range(app'.final_buffer)
               \subseteq Range(app.final_buffer) \cup Range(app.cmd_pending_buffer) \cup Range(cmds)
      BY <2>2, <2>3, EmptyRange
    <3>5. \A x \in Range(app'.cmd_pending_buffer) \cup Range(app'.final_buffer) : told'[x] # <<>>
      BY <2>3, <2>6, <2>10, <3>4 DEF Inv, FilledOnce
    <3>6. \A x \in app'.decision_waiting : told'[x] = <<0>>
      <4>1. ASSUME NEW x \in app.decision_waiting
            PROVE  told'[x] = <<0>>
        <5>1. x \in Cmds /\ told[x] = <<0>>
          BY <4>1 DEF Inv, TypeInv, FilledOnce
        <5> QED BY <2>6, <5>1
      <4>2. \A x \in Range(cmds) : told'[x] = <<0>>
        BY <2>3, <2>6
      <4> QED BY <2>2, <4>1, <4>2
    <3> QED BY <3>1, <3>2, <3>3, <3>5, <3>6 DEF FilledOnce
  <2>12. first => app.nblk = 0 /\ app.beats = 0
    BY DEF Inv, TypeInv, FilledOnce
  <2>13. ToldInv'
    <3> SUFFICES ASSUME NEW x \in Cmds
                 PROVE  /\ app'.executed[x] =
                             IF x \in Range(app'.final_buffer) /\ app'.nblk > 3
                             THEN app'.nblk - 3 ELSE 0
                        /\ told'[x] \in {<<>>, <<0>>, <<0, 1>>}
                        /\ told'[x] = <<0, 1>> <=> x \in Range(app'.final_buffer) /\ app'.nblk > 3
      BY DEF ToldInv
    <3>1. app'.executed[x] = IF x \in Range(app'.final_buffer) /\ app'.nblk > 3
                             THEN app'.nblk - 3 ELSE 0
      <4>1. CASE first
        BY <2>2, <2>12, <4>1 DEF Inv, ToldInv
      <4>2. CASE ~first
        BY <2>2, <4>2 DEF Inv, ToldInv
      <4> QED BY <4>1, <4>2
    <3>2. told'[x] = <<0, 1>> <=> told[x] = <<0, 1>>
      BY <2>5, <2>6
    <3>3. told[x] = <<0, 1>> <=> x \in Range(app.final_buffer) /\ app.nblk > 3
      BY DEF Inv, ToldInv
    <3>4. told'[x] = <<0, 1>> <=> x \in Range(app'.final_buffer) /\ app'.nblk > 3
      BY <2>2, <2>10, <2>12, <3>2, <3>3
    <3>5. told'[x] \in {<<>>, <<0>>, <<0, 1>>}
      BY <2>7
    <3> QED BY <3>1, <3>4, <3>5
  <2>14. WaitingIsFirstBatch'
    <3>1. CASE ~first
      BY <2>2, <3>1 DEF Inv, WaitingIsFirstBatch
    <3>2. CASE first
      <4>1. app.decision_waiting = Range(app.cmd_pending_buffer)
        BY <2>10, <2>12, <3>2 DEF Inv, WaitingIsFirstBatch
      <4> QED BY <2>2, <2>3, <2>10, <2>12, <3>2, <4>1, EmptyRange DEF WaitingIsFirstBatch
    <3> QED BY <3>1, <3>2
  <2> QED BY <1>3, <2>8, <2>9, <2>11, <2>13, <2>14 DEF Inv
<1> QED BY <1>4, <1>5

(* Every step of a client or a thread keeps the invariant.                 *)
LEMMA InvStep == Inv /\ [Next]_vars => Inv'
<1> SUFFICES ASSUME Inv, [Next]_vars
             PROVE  Inv'
  OBVIOUS
<1>1. CASE UNCHANGED vars
  BY <1>1 DEF vars, Inv, TypeInv, SentOnce, OnTheWay, Unsent, FilledOnce,
              OneOutstanding, ToldInv, WaitingIsFirstBatch
<1>2. CASE CmdPendingHandler
  BY <1>2, CmdPendingStep
<1>3. CASE Propose
  BY <1>3, ProposeStep
<1>4. CASE RespHandler
  BY <1>4, RespStep
<1>5. ASSUME NEW c \in Clients, ClientRequestCmdHandler(c) PROVE Inv'
  BY <1>5, ClientRequestStep
<1>6. ASSUME NEW c \in Clients, ClientRespCmdHandler(c) PROVE Inv'
  BY <1>6, ClientRespStep
<1>7. ASSUME NEW c \in Clients, Leave(c) PROVE Inv'
  BY <1>7, LeaveStep
<1>8. CASE Rest
  BY <1>1, <1>8 DEF Rest
<1> QED BY <1>1, <1>2, <1>3, <1>4, <1>5, <1>6, <1>7, <1>8 DEF Next, Threads

(* The invariant of clients and command queue holds throughout.            *)
LEMMA Invariance == Spec => []Inv
BY InitInv, InvStep, PTL DEF Spec

-----------------------------------------------------------------------------
(* However large max_async_num is, a client never has more than its last   *)
(* command outstanding: try_send returns false, and the second answer to a *)
(* command finds nothing to replace.                                       *)
THEOREM ClientsSendOneByOne == Spec => []OneOutstanding
BY Invariance, PTL DEF Inv

(* The callback of a command runs when it arrives and at most once more,   *)
(* just when the command has been executed, although do_decide runs again  *)
(* for the first batch with every block that is committed.                 *)
THEOREM CallbacksRunTwiceAtMost == Spec => []ToldOnce
<1>1. Inv => ToldOnce
  <2> SUFFICES ASSUME Inv, NEW x \in Cmds
               PROVE  /\ told[x] \in {<<>>, <<0>>, <<0, 1>>}
                      /\ told[x] = <<0, 1>> <=> app.executed[x] > 0
    BY DEF ToldOnce
  <2>1. /\ app.executed[x] = IF x \in Range(app.final_buffer) /\ app.nblk > 3
                             THEN app.nblk - 3 ELSE 0
        /\ told[x] \in {<<>>, <<0>>, <<0, 1>>}
        /\ told[x] = <<0, 1>> <=> x \in Range(app.final_buffer) /\ app.nblk > 3
        /\ app.nblk \in Nat
    BY DEF Inv, TypeInv, ToldInv
  <2> QED BY <2>1
<1> QED BY <1>1, Invariance, PTL

(* decision_waiting is the first batch until its first commit and then     *)
(* empty for ever.                                                         *)
THEOREM OnlyTheFirstBatchWaits == Spec => []WaitingIsFirstBatch
BY Invariance, PTL DEF Inv
=============================================================================
