--------------------------- MODULE VeriPoolProofs ---------------------------
(***************************************************************************)
(* Proofs about VeriPool, for every number of blocks, relays, signatures,  *)
(* verification threads and waits of the pacemaker.                        *)
(*                                                                         *)
(* The stack of the main thread is unbounded, so the invariant speaks of   *)
(* it step by step: every step on it has the right fields (Shape), what it *)
(* is about to do is right (Sound), and no two steps on it have the same   *)
(* key (Linear). The key of a step is the callback it is about to register *)
(* or to call, or the certificate it is about to verify, and so on: a      *)
(* callback has one key, so that it can be in one place only, on the stack *)
(* or in the list of one promise.                                          *)
(***************************************************************************)
EXTENDS VeriPool, SequenceTheorems, FiniteSetTheorems, TLAPS

(* What the steps on the stack do only once: give f to then or call it,    *)
(* start promise::all for p, verify o, erase t. The others are Free.       *)
KCb(f)     == <<"cb", f>>
KAll(p)    == <<"all", p>>
KVerify(o) == <<"verify", o>>
KErase(t)  == <<"erase", t>>
Free       == <<"free">>

(* The key of a step.                                                      *)
Key(s) ==
    CASE s.op = "then" -> KCb(s.f)
      [] s.op = "call" -> IF s.c.cb = "forward" THEN Free ELSE KCb(s.c)
      [] s.op = "all" -> KAll(s.p)
      [] s.op = "verify" -> KVerify(s.o)
      [] s.op = "erase" -> KErase(s.t)
      [] OTHER -> Free

(* A list of steps: what is on it, its keys, and that no key is there      *)
(* twice.                                                                  *)
Items(st) == {st[i] : i \in DOMAIN st}
KeysOf(st) == {Key(st[i]) : i \in DOMAIN st} \ {Free}
Linear(st) == \A i, j \in DOMAIN st :
                 Key(st[i]) = Key(st[j]) /\ Key(st[i]) # Free => i = j
Keys == KeysOf(stack)

(* The promises of promise::all, and the list that each is given.          *)
Alls == {<<"sigs", o>> : o \in {u \in Owners : ~ Trusted(u)}} \cup {<<"all", o>> : o \in Owners}
Refs(p) ==
    LET o == p[2]
    IN  IF p[1] = "sigs" THEN [i \in 1..Sigs(o) |-> <<"task", o, i>>]
        ELSE IF o[1] = "relay" THEN <<<<"deliver", RelayOf[o[2]].blk>>, <<"cert", o>>>>
        ELSE IF o[2] = 1 THEN <<<<"cert", o>>>>
        ELSE <<<<"cert", o>>, <<"fetch", o[2] - 1>>, <<"deliver", o[2] - 1>>>>

(* The callbacks that are ever given to then, the promise at which each    *)
(* waits, and the one it settles.                                          *)
Collects == UNION {{Collect(p, i) : i \in DOMAIN Refs(p)} : p \in Alls}
Callbacks == Collects \cup {Verdict(o) : o \in {u \in Owners : ~ Trusted(u)}}
                      \cup {Continue(c) : c \in Continuations}
Home(f) ==
    CASE f.cb = "collect" -> Refs(f.p)[f.i]
      [] f.cb = "verdict" -> <<"sigs", f.o>>
      [] f.cb = "fetched" -> <<"fetch", f.id>>
      [] f.cb = "delivery" -> <<"all", <<"blk", f.id>>>>
      [] f.cb = "relayed" -> <<"all", <<"relay", f.id>>>>
      [] f.cb = "next" -> <<"qc">>
After(f) ==
    CASE f.cb = "collect" -> f.p
      [] f.cb = "verdict" -> <<"cert", f.o>>
      [] OTHER -> <<"npm", <<f.cb, f.id>>>>

(* How far the verification of a certificate is: verify is on the stack or *)
(* has run; verify has run; the promise::all is on the stack or has run;   *)
(* it has run.                                                             *)
Started(o) ==
    IF o[1] = "blk" THEN seen[<<"fetched", o[2]>>] # <<>>
    ELSE KAll(<<"all", o>>) \in Keys \/ pr[<<"all", o>>].state # "None"
Verified(o) == Started(o) /\ KVerify(o) \notin Keys
AllBorn(p) == IF p[1] = "sigs" THEN Verified(p[2]) ELSE Started(p[2])
AllRun(p) == AllBorn(p) /\ KAll(p) \notin Keys

(* A callback has been given to then or soon will be; it waits at its      *)
(* promise; it waits there or is on the stack; it has been called.         *)
Born(f) ==
    CASE f.cb = "collect" -> AllRun(f.p)
      [] f.cb = "verdict" -> Verified(f.o)
      [] f.cb = "fetched" -> pr[<<"deliver", f.id>>].state # "None"
      [] f.cb = "delivery" -> Started(<<"blk", f.id>>)
      [] f.cb = "relayed" -> Started(<<"relay", f.id>>)
      [] f.cb = "next" -> f.id <= waits
Waiting(f) == f \in Items(pr[Home(f)].onF)
Live(f) == KCb(f) \in Keys \/ Waiting(f)
Done(f) ==
    CASE f.cb = "collect" -> pr[f.p].results[f.i] # Empty
      [] f.cb = "verdict" -> FALSE
      [] OTHER -> seen[<<f.cb, f.id>>] # <<>>

(* p may be resolved with x: what x says is already so.                    *)
ValueOK(p, x) ==
    /\ p[1] = "task" => x = good[p] /\ Verified(p[2])
    /\ p[1] \in {"sigs", "all"} =>
         /\ p \in Alls /\ AllRun(p) /\ x = pr[p].results
         /\ \A i \in DOMAIN Refs(p) : x[i] # Empty
    /\ p[1] = "cert" => /\ Verified(p[2]) /\ x \in {"true", "false"}
                        /\ x = "true" <=> AllGood(p[2])
    /\ p[1] \in {"fetch", "deliver"} => x = "blk"
    /\ p[1] = "npm" => seen[p[2]] # <<>>

(* The pacemaker gave up while its k-th wait was in the list of the QC.    *)
(* Nothing else is ever rejected.                                          *)
NextNpm(k) == <<"npm", <<"next", k>>>>
Dropped(k) ==
    /\ pr[<<"qc">>].state = "Rejected" /\ k <= waits
    /\ seen[<<"next", k>>] = <<>> /\ KCb(Continue(<<"next", k>>)) \notin Keys
RejectOK(p) == p = <<"qc">> \/ \E k \in 1..MaxWaits : p = NextNpm(k) /\ Dropped(k)

(* A step on the stack is one of those that the model puts there.          *)
Shape(s) ==
    \/ s.op = "resolve" /\ s.p \in Promises /\ s = Resolve(s.p, s.v)
    \/ s.op = "reject" /\ s.p \in Promises /\ s = Reject(s.p, s.v)
    \/ s.op = "then" /\ s.f \in Callbacks /\ s = Then(Home(s.f), s.f, Forward(After(s.f)))
    \/ s.op = "all" /\ s.p \in Alls /\ s = All(s.p, Refs(s.p))
    \/ s.op = "call" /\ s.c \in Callbacks /\ s = Call(s.c, s.v)
    \/ s.op = "call" /\ s.c.cb = "forward" /\ s.c.p \in Promises /\ s = Call(Forward(s.c.p), s.v)
    \/ s.op = "verify" /\ s.o \in Owners /\ s = Verify(s.o)
    \/ s.op = "deliver" /\ s.b \in Blocks /\ s = Deliver(s.b)
    \/ s.op = "erase" /\ s.t \in Tasks /\ s = Erase(s.t)
    \/ s.op = "drain" /\ s.k \in Nat /\ s = Drain(s.k)

(* What it is about to do is right.                                        *)
Sound(s) ==
    /\ s.op = "resolve" => ValueOK(s.p, s.v)
    /\ s.op = "reject" => RejectOK(s.p)
    /\ s.op = "call" =>
         IF s.c.cb = "forward" THEN s.c.p # <<"qc">> /\ RejectOK(s.c.p)
         ELSE s.c.cb # "next" => /\ pr[Home(s.c)].state = "Fulfilled"
                                 /\ pr[Home(s.c)].value = s.v

(* Sequences, and sequences without repetitions.                           *)
IsSeq(st) == st \in Seq(Items(st))
Inj(q) == \A i, j \in DOMAIN q : q[i] = q[j] => i = j

(* The state of the promises and what the continuations saw.               *)
Fields == {"state", "value", "onF", "onR", "size", "results"}
TypeOK ==
    /\ DOMAIN pr = Promises
    /\ \A p \in Promises :
         /\ DOMAIN pr[p] = Fields
         /\ pr[p].state \in {"None", "Pending", "Fulfilled", "Rejected"}
         /\ IsSeq(pr[p].onF) /\ \A f \in Items(pr[p].onF) : f \in Callbacks
         /\ IsSeq(pr[p].onR) /\ \A f \in Items(pr[p].onR) : f.cb = "forward"
    /\ DOMAIN seen = Continuations
    /\ \A c \in Continuations : seen[c] = <<>> \/ \E x : seen[c] = <<x>>
    /\ good \in [Tasks -> {"true", "false"}]
    /\ waits \in 0..MaxWaits /\ setting \in Settings

(* The stack.                                                              *)
StackInv ==
    /\ IsSeq(stack) /\ Linear(stack)
    /\ \A s \in Items(stack) : Shape(s) /\ Sound(s)

(* verify and promise::all are on the stack only once the block is fetched *)
(* or the relay has come.                                                  *)
KeyInv ==
    /\ \A o \in Owners : KVerify(o) \in Keys => Started(o)
    /\ \A p \in Alls : KAll(p) \in Keys => AllBorn(p)

(* A callback is in one place at most, and in none once it is done.        *)
CbOK(f) ==
    /\ KCb(f) \in Keys => ~ Waiting(f)
    /\ Live(f) => Born(f) /\ ~ Done(f)
    /\ f.cb # "collect" /\ Done(f) => Born(f)
CbInv == \A f \in Callbacks : CbOK(f)

(* The callbacks of a promise wait there only, each once, and none when    *)
(* the promise is settled; what it was settled with is right.              *)
ListOK(p) ==
    /\ \A f \in Items(pr[p].onF) : Home(f) = p
    /\ Inj(pr[p].onF)
    /\ pr[p].state = "Fulfilled" => pr[p].onF = <<>> /\ ValueOK(p, pr[p].value)
    /\ pr[p].state = "Rejected" => pr[p].onR = <<>> /\ RejectOK(p)
    /\ p[1] = "npm" => pr[p].onR = <<>>
ListInv == \A p \in Promises : ListOK(p)

(* At the QC the callbacks for a rejection belong to those for a result.   *)
QcInv ==
    \A f \in Items(pr[<<"qc">>].onR) : \E k \in 1..MaxWaits :
        /\ f = Forward(NextNpm(k))
        /\ pr[<<"qc">>].state # "Fulfilled" =>
             Continue(<<"next", k>>) \in Items(pr[<<"qc">>].onF)

(* promise::all: an entry of the list of results is empty or the value of  *)
(* the promise at that index, and size counts the empty ones.              *)
ResultOK(p) ==
    /\ pr[p].state # "None"
    /\ pr[p].results = [i \in DOMAIN Refs(p) |-> pr[p].results[i]]
    /\ pr[p].size = Cardinality({i \in DOMAIN Refs(p) : pr[p].results[i] = Empty})
    /\ \A i \in DOMAIN Refs(p) : pr[p].results[i] # Empty =>
         /\ pr[Refs(p)[i]].state = "Fulfilled"
         /\ pr[Refs(p)[i]].value = pr[p].results[i]
ResultInv == \A p \in Alls : AllRun(p) => ResultOK(p)

(* What then returned for a continuation that was called is fulfilled or   *)
(* about to be, and the verdict it saw is that of its certificate.         *)
SeenOK(c) ==
    seen[c] # <<>> => \/ pr[<<"npm", c>>].state = "Fulfilled"
                      \/ Resolve(<<"npm", c>>, "void") \in Items(stack)
JudgedOK(c, o) ==
    seen[c] # <<>> => /\ pr[<<"cert", o>>].state = "Fulfilled"
                      /\ pr[<<"cert", o>>].value = Head(seen[c])
SeenInv ==
    /\ \A c \in Continuations : SeenOK(c)
    /\ \A b \in Blocks : JudgedOK(<<"delivery", b>>, <<"blk", b>>)
    /\ \A r \in Relays : JudgedOK(<<"relayed", r>>, <<"relay", r>>)
    /\ \A r \in Relays : seen[<<"relayed", r>>] # <<>> =>
                            pr[<<"deliver", RelayOf[r].blk>>].state = "Fulfilled"

(* The invariant of the main thread.                                       *)
CtlInv ==
    /\ TypeOK /\ StackInv /\ KeyInv /\ CbInv /\ ListInv /\ QcInv /\ ResultInv /\ SeenInv
    /\ ~ thrown

(* The places of a task: in_queue, with a thread, in the lane of a thread  *)
(* in out_queue, or about to be erased.                                    *)
At(t, x) ==
    \/ x = <<"in">> /\ t \in Items(in_queue)
    \/ x = <<"erase">> /\ KErase(t) \in Keys
    \/ \E w \in Workers : x = <<"work", w>> /\ work[w].task = t
    \/ \E w \in Workers : x = <<"out", w>> /\ t \in Items(out_queue[w])
Places == {<<"in">>, <<"erase">>} \cup {<<"work", w>> : w \in Workers}
                                  \cup {<<"out", w>> : w \in Workers}

(* The invariant of the pool. A task is in pms exactly while it is in a    *)
(* place, and in one place only; its certificate is being verified.        *)
PoolTypeOK ==
    /\ IsSeq(in_queue) /\ \A t \in Items(in_queue) : t \in Tasks
    /\ DOMAIN out_queue = Workers /\ DOMAIN work = Workers
    /\ \A w \in Workers :
         /\ IsSeq(out_queue[w]) /\ \A t \in Items(out_queue[w]) : t \in Tasks
         /\ DOMAIN work[w] = {"task", "cnt"} /\ work[w].task \in Tasks \cup {None}
PoolInv ==
    /\ PoolTypeOK
    /\ Inj(in_queue) /\ \A w \in Workers : Inj(out_queue[w])
    /\ \A t \in Tasks : \A x, y \in Places : At(t, x) /\ At(t, y) => x = y
    /\ \A t \in Tasks : t \in pms <=> \E x \in Places : At(t, x)
    /\ \A t \in pms : t \in Tasks /\ Verified(t[2])

-----------------------------------------------------------------------------
(* The parts of an owner, a task, a promise.                               *)
LEMMA OwnerParts ==
    /\ \A b \in Blocks : <<"blk", b>> \in Owners
    /\ \A r \in Relays : <<"relay", r>> \in Owners
    /\ \A o \in Owners : \/ \E b \in Blocks : o = <<"blk", b>>
                         \/ \E r \in Relays : o = <<"relay", r>>
  BY DEF Owners

(* A task is one signature of one certificate.                             *)
LEMMA TaskParts ==
    /\ \A o \in Owners : \A i \in 1..Sigs(o) : <<"task", o, i>> \in Tasks
    /\ \A t \in Tasks : \E o \in Owners : \E i \in 1..Sigs(o) : t = <<"task", o, i>>
  BY DEF Tasks

(* A certificate has a number of signatures, and one at least unless it is *)
(* for genesis.                                                            *)
LEMMA SigsNat ==
    /\ \A o \in Owners : Sigs(o) \in Nat
    /\ \A o \in Owners : ~ Trusted(o) => Sigs(o) > 0
<1> SUFFICES ASSUME NEW o \in Owners
             PROVE  Sigs(o) \in Nat /\ (~ Trusted(o) => Sigs(o) > 0)
  OBVIOUS
<1>1. CASE \E b \in Blocks : o = <<"blk", b>>
  <2>1. PICK b \in Blocks : o = <<"blk", b>>
    BY <1>1
  <2>2. Sigs(o) = SigsOf[b] /\ (Trusted(o) <=> b = 1)
    BY <2>1 DEF Sigs, Trusted
  <2>3. SigsOf[b] \in Nat /\ (b # 1 => SigsOf[b] > 0)
    BY VeriPoolAssumption
  <2> QED BY <2>2, <2>3
<1>2. CASE \E r \in Relays : o = <<"relay", r>>
  <2>1. PICK r \in Relays : o = <<"relay", r>>
    BY <1>2
  <2>2. Sigs(o) = RelayOf[r].sigs
    BY <2>1 DEF Sigs
  <2>3. RelayOf[r].sigs \in Nat \ {0}
    BY VeriPoolAssumption
  <2> QED BY <2>2, <2>3
<1> QED BY <1>1, <1>2, OwnerParts

(* The promises that the model names are in Promises.                      *)
LEMMA PromisesThere ==
    /\ Tasks \subseteq Promises /\ <<"qc">> \in Promises
    /\ \A o \in Owners : /\ <<"sigs", o>> \in Promises /\ <<"cert", o>> \in Promises
                         /\ <<"all", o>> \in Promises
    /\ \A b \in Blocks : <<"fetch", b>> \in Promises /\ <<"deliver", b>> \in Promises
    /\ \A c \in Continuations : <<"npm", c>> \in Promises
  BY DEF Promises, Npms

(* There are no others.                                                    *)
LEMMA PromiseParts ==
    ASSUME NEW p \in Promises
    PROVE  \/ p \in Tasks
           \/ \E o \in Owners : p \in {<<"sigs", o>>, <<"cert", o>>, <<"all", o>>}
           \/ \E b \in Blocks : p \in {<<"fetch", b>>, <<"deliver", b>>}
           \/ p = <<"qc">>
           \/ \E c \in Continuations : p = <<"npm", c>>
  BY DEF Promises, Npms

(* The continuations, kind by kind.                                        *)
LEMMA ContinuationParts ==
    /\ \A b \in Blocks : <<"fetched", b>> \in Continuations /\ <<"delivery", b>> \in Continuations
    /\ \A r \in Relays : <<"relayed", r>> \in Continuations
    /\ \A k \in 1..MaxWaits : <<"next", k>> \in Continuations
    /\ \A c \in Continuations :
         \/ \E b \in Blocks : c = <<"fetched", b>> \/ c = <<"delivery", b>>
         \/ \E r \in Relays : c = <<"relayed", r>>
         \/ \E k \in 1..MaxWaits : c = <<"next", k>>
  BY DEF Continuations

(* What promise::all is used for: the tasks of a certificate that is not   *)
(* trusted, and what a block or a relay waits for.                         *)
LEMMA AllParts ==
    /\ \A o \in Owners : <<"all", o>> \in Alls
    /\ \A o \in Owners : ~ Trusted(o) => <<"sigs", o>> \in Alls
    /\ \A p \in Alls : /\ p \in Promises /\ p[2] \in Owners /\ p = <<p[1], p[2]>>
                       /\ \/ p[1] = "sigs" /\ ~ Trusted(p[2])
                          \/ p[1] = "all"
<1>1. /\ \A o \in Owners : <<"all", o>> \in Alls
      /\ \A o \in Owners : ~ Trusted(o) => <<"sigs", o>> \in Alls
  BY DEF Alls
<1>2. ASSUME NEW p \in Alls
      PROVE  /\ p \in Promises /\ p[2] \in Owners /\ p = <<p[1], p[2]>>
             /\ \/ p[1] = "sigs" /\ ~ Trusted(p[2])
                \/ p[1] = "all"
  <2>1. \E o \in Owners : (p = <<"sigs", o>> /\ ~ Trusted(o)) \/ p = <<"all", o>>
    BY DEF Alls
  <2>2. PICK o \in Owners : (p = <<"sigs", o>> /\ ~ Trusted(o)) \/ p = <<"all", o>>
    BY <2>1
  <2>3. p[2] = o /\ p = <<p[1], p[2]>> /\ ((p[1] = "sigs" /\ ~ Trusted(o)) \/ p[1] = "all")
    BY <2>2
  <2> QED BY <2>2, <2>3, PromisesThere
<1> QED BY <1>1, <1>2

(* What promise::all is given for p: a list that is not empty, of tasks    *)
(* or of certificates, fetched and delivered blocks.                       *)
RefKinds == {"task", "cert", "fetch", "deliver"}

(* Every promise in such a list is known, and the list is not empty.       *)
LEMMA RefsAre ==
    ASSUME NEW p \in Alls
    PROVE  /\ Refs(p) \in Seq(Promises) /\ Len(Refs(p)) > 0
           /\ \A i \in DOMAIN Refs(p) : Refs(p)[i] \in Promises /\ Refs(p)[i][1] \in RefKinds
           /\ p[1] = "sigs" => /\ Refs(p) = [i \in 1..Sigs(p[2]) |-> <<"task", p[2], i>>]
                               /\ DOMAIN Refs(p) = 1..Sigs(p[2])
<1> DEFINE o == p[2]
<1>1. p \in Promises /\ o \in Owners /\ p = <<p[1], o>> /\ ((p[1] = "sigs" /\ ~ Trusted(o)) \/ p[1] = "all")
  BY AllParts
<1>2. CASE p[1] = "sigs"
  <2> DEFINE q == [i \in 1..Sigs(o) |-> <<"task", o, i>>]
  <2>1. Refs(p) = q
    BY <1>2 DEF Refs
  <2>2. Sigs(o) \in Nat /\ Sigs(o) > 0
    BY <1>1, <1>2, SigsNat
  <2>3. \A i \in 1..Sigs(o) : q[i] \in Promises /\ q[i][1] = "task"
    BY <1>1, TaskParts, PromisesThere
  <2>4. q \in Seq(Promises) /\ Len(q) = Sigs(o) /\ DOMAIN q = 1..Sigs(o)
    BY <2>2, <2>3, LenProperties
  <2> QED BY <1>2, <2>1, <2>2, <2>3, <2>4 DEF RefKinds
<1>3. CASE p[1] = "all" /\ o[1] = "relay"
  <2>1. PICK r \in Relays : o = <<"relay", r>>
    BY <1>1, <1>3, OwnerParts
  <2> DEFINE d == <<"deliver", RelayOf[r].blk>>
             c == <<"cert", o>>
  <2>2. Refs(p) = <<d, c>>
    BY <1>3, <2>1 DEF Refs
  <2>3. RelayOf[r].blk \in Blocks
    BY VeriPoolAssumption
  <2>4. d \in Promises /\ c \in Promises /\ d[1] \in RefKinds /\ c[1] \in RefKinds
    BY <1>1, <2>3, PromisesThere DEF RefKinds
  <2> HIDE DEF d, c
  <2> QED BY <1>3, <2>2, <2>4
<1>4. CASE p[1] = "all" /\ o[1] = "blk"
  <2>1. PICK b \in Blocks : o = <<"blk", b>>
    BY <1>1, <1>4, OwnerParts
  <2> DEFINE c == <<"cert", o>>
             f == <<"fetch", b - 1>>
             d == <<"deliver", b - 1>>
  <2>2. Refs(p) = IF b = 1 THEN <<c>> ELSE <<c, f, d>>
    BY <1>4, <2>1 DEF Refs
  <2>3. c \in Promises /\ c[1] \in RefKinds
    BY <1>1, PromisesThere DEF RefKinds
  <2>4. b # 1 => b - 1 \in Blocks
    BY VeriPoolAssumption DEF Blocks
  <2>5. b # 1 => f \in Promises /\ d \in Promises /\ f[1] \in RefKinds /\ d[1] \in RefKinds
    BY <2>4, PromisesThere DEF RefKinds
  <2> HIDE DEF c, f, d
  <2> QED BY <1>4, <2>2, <2>3, <2>5
<1> QED BY <1>1, <1>2, <1>3, <1>4, OwnerParts

(* The kinds of callbacks, with the promise at which each waits and the    *)
(* one to which it passes on.                                              *)
LEMMA CallbacksThere ==
    /\ \A p \in Alls : \A i \in DOMAIN Refs(p) : Collect(p, i) \in Callbacks
    /\ \A o \in Owners : ~ Trusted(o) => Verdict(o) \in Callbacks
    /\ \A c \in Continuations : Continue(c) \in Callbacks
  BY DEF Callbacks, Collects

(* A callback of promise::all: where it waits, what it passes on to, when  *)
(* it has begun and when it is done. The same for the other callbacks      *)
(* below.                                                                  *)
LEMMA CollectIs ==
    ASSUME NEW p, NEW i
    PROVE  /\ Collect(p, i).cb = "collect" /\ Collect(p, i).p = p /\ Collect(p, i).i = i
           /\ Home(Collect(p, i)) = Refs(p)[i] /\ After(Collect(p, i)) = p
           /\ Born(Collect(p, i)) <=> AllRun(p)
           /\ Done(Collect(p, i)) <=> pr[p].results[i] # Empty
  BY DEF Collect, Home, After, Born, Done

(* The callback that turns the results of the tasks into the verdict.      *)
LEMMA VerdictIs ==
    ASSUME NEW o
    PROVE  /\ Verdict(o).cb = "verdict" /\ Verdict(o).o = o
           /\ Home(Verdict(o)) = <<"sigs", o>> /\ After(Verdict(o)) = <<"cert", o>>
           /\ Born(Verdict(o)) <=> Verified(o)
           /\ ~ Done(Verdict(o))
  BY DEF Verdict, Home, After, Born, Done

(* The continuation of async_deliver_blk at the fetched block.             *)
LEMMA FetchedIs ==
    ASSUME NEW b
    PROVE  /\ Continue(<<"fetched", b>>).cb = "fetched" /\ Continue(<<"fetched", b>>).id = b
           /\ Home(Continue(<<"fetched", b>>)) = <<"fetch", b>>
           /\ After(Continue(<<"fetched", b>>)) = <<"npm", <<"fetched", b>>>>
           /\ Born(Continue(<<"fetched", b>>)) <=> pr[<<"deliver", b>>].state # "None"
           /\ Done(Continue(<<"fetched", b>>)) <=> seen[<<"fetched", b>>] # <<>>
  BY DEF Continue, Home, After, Born, Done

(* The continuation of async_deliver_blk at its promise::all.              *)
LEMMA DeliveryIs ==
    ASSUME NEW b
    PROVE  /\ Continue(<<"delivery", b>>).cb = "delivery" /\ Continue(<<"delivery", b>>).id = b
           /\ Home(Continue(<<"delivery", b>>)) = <<"all", <<"blk", b>>>>
           /\ After(Continue(<<"delivery", b>>)) = <<"npm", <<"delivery", b>>>>
           /\ Born(Continue(<<"delivery", b>>)) <=> Started(<<"blk", b>>)
           /\ Done(Continue(<<"delivery", b>>)) <=> seen[<<"delivery", b>>] # <<>>
  BY DEF Continue, Home, After, Born, Done

(* The continuation of vote_relay_handler.                                 *)
LEMMA RelayedIs ==
    ASSUME NEW r
    PROVE  /\ Continue(<<"relayed", r>>).cb = "relayed" /\ Continue(<<"relayed", r>>).id = r
           /\ Home(Continue(<<"relayed", r>>)) = <<"all", <<"relay", r>>>>
           /\ After(Continue(<<"relayed", r>>)) = <<"npm", <<"relayed", r>>>>
           /\ Born(Continue(<<"relayed", r>>)) <=> Started(<<"relay", r>>)
           /\ Done(Continue(<<"relayed", r>>)) <=> seen[<<"relayed", r>>] # <<>>
  BY DEF Continue, Home, After, Born, Done

(* The continuation of the pacemaker.                                      *)
LEMMA NextIs ==
    ASSUME NEW k
    PROVE  /\ Continue(<<"next", k>>).cb = "next" /\ Continue(<<"next", k>>).id = k
           /\ Home(Continue(<<"next", k>>)) = <<"qc">>
           /\ After(Continue(<<"next", k>>)) = <<"npm", <<"next", k>>>>
           /\ Born(Continue(<<"next", k>>)) <=> k <= waits
           /\ Done(Continue(<<"next", k>>)) <=> seen[<<"next", k>>] # <<>>
  BY DEF Continue, Home, After, Born, Done

(* The callbacks, kind by kind.                                            *)
LEMMA CallbackParts ==
    ASSUME NEW f \in Callbacks
    PROVE  \/ \E p \in Alls : \E i \in DOMAIN Refs(p) : f = Collect(p, i)
           \/ \E o \in Owners : ~ Trusted(o) /\ f = Verdict(o)
           \/ \E b \in Blocks : f = Continue(<<"fetched", b>>)
           \/ \E b \in Blocks : f = Continue(<<"delivery", b>>)
           \/ \E r \in Relays : f = Continue(<<"relayed", r>>)
           \/ \E k \in 1..MaxWaits : f = Continue(<<"next", k>>)
<1>1. CASE f \in Collects
  BY <1>1 DEF Collects
<1>2. CASE \E o \in Owners : ~ Trusted(o) /\ f = Verdict(o)
  BY <1>2
<1>3. CASE \E c \in Continuations : f = Continue(c)
  BY <1>3, ContinuationParts
<1> QED BY <1>1, <1>2, <1>3 DEF Callbacks

(* A callback is not a Forward; it waits at a promise that is not returned *)
(* by then, and passes on to another one; only "next" waits at the QC.     *)
LEMMA CallbackPlaces ==
    ASSUME NEW f \in Callbacks
    PROVE  /\ f.cb # "forward"
           /\ Home(f) \in Promises /\ Home(f)[1] # "npm"
           /\ After(f) \in Promises
           /\ Home(f) = <<"qc">> <=> \E k \in 1..MaxWaits : f = Continue(<<"next", k>>)
           /\ f.cb = "next" <=> \E k \in 1..MaxWaits : f = Continue(<<"next", k>>)
<1>1. ASSUME NEW p \in Alls, NEW i \in DOMAIN Refs(p), f = Collect(p, i)
      PROVE  /\ f.cb = "collect" /\ Home(f) \in Promises /\ After(f) \in Promises
             /\ Home(f)[1] # "npm" /\ Home(f) # <<"qc">>
  <2>1. f.cb = "collect" /\ Home(f) = Refs(p)[i] /\ After(f) = p
    BY <1>1, CollectIs
  <2>2. Home(f)[1] \in RefKinds
    BY <2>1, RefsAre
  <2>3. Home(f)[1] # "npm" /\ Home(f) # <<"qc">>
    BY <2>2 DEF RefKinds
  <2> QED BY <2>1, <2>3, RefsAre, AllParts
<1>2. ASSUME NEW o \in Owners, f = Verdict(o)
      PROVE  /\ f.cb = "verdict" /\ Home(f) = <<"sigs", o>> /\ After(f) = <<"cert", o>>
             /\ Home(f) \in Promises /\ After(f) \in Promises
             /\ Home(f)[1] # "npm" /\ Home(f) # <<"qc">>
  <2>1. f.cb = "verdict" /\ Home(f) = <<"sigs", o>> /\ After(f) = <<"cert", o>>
    BY <1>2, VerdictIs
  <2>2. Home(f)[1] # "npm" /\ Home(f) # <<"qc">>
    BY <2>1
  <2>3. Home(f) \in Promises /\ After(f) \in Promises
    BY <2>1, PromisesThere
  <2> QED BY <2>1, <2>2, <2>3
<1>3. ASSUME NEW b \in Blocks, f = Continue(<<"fetched", b>>)
      PROVE  /\ f.cb = "fetched" /\ Home(f) = <<"fetch", b>>
             /\ Home(f) \in Promises /\ After(f) \in Promises
             /\ Home(f)[1] # "npm" /\ Home(f) # <<"qc">>
  <2>1. f.cb = "fetched" /\ Home(f) = <<"fetch", b>> /\ After(f) = <<"npm", <<"fetched", b>>>>
    BY <1>3, FetchedIs
  <2>2. Home(f)[1] # "npm" /\ Home(f) # <<"qc">>
    BY <2>1
  <2>3. Home(f) \in Promises /\ After(f) \in Promises
    BY <2>1, PromisesThere, ContinuationParts
  <2> QED BY <2>1, <2>2, <2>3
<1>4. ASSUME NEW b \in Blocks, f = Continue(<<"delivery", b>>)
      PROVE  /\ f.cb = "delivery" /\ Home(f) = <<"all", <<"blk", b>>>>
             /\ Home(f) \in Promises /\ After(f) \in Promises
             /\ Home(f)[1] # "npm" /\ Home(f) # <<"qc">>
  <2>1. f.cb = "delivery" /\ Home(f) = <<"all", <<"blk", b>>>> /\ After(f) = <<"npm", <<"delivery", b>>>>
    BY <1>4, DeliveryIs
  <2>2. Home(f)[1] # "npm" /\ Home(f) # <<"qc">>
    BY <2>1
  <2>3. Home(f) \in Promises /\ After(f) \in Promises
    BY <2>1, PromisesThere, ContinuationParts, OwnerParts
  <2> QED BY <2>1, <2>2, <2>3
<1>5. ASSUME NEW r \in Relays, f = Continue(<<"relayed", r>>)
      PROVE  /\ f.cb = "relayed" /\ Home(f) = <<"all", <<"relay", r>>>>
             /\ Home(f) \in Promises /\ After(f) \in Promises
             /\ Home(f)[1] # "npm" /\ Home(f) # <<"qc">>
  <2>1. f.cb = "relayed" /\ Home(f) = <<"all", <<"relay", r>>>> /\ After(f) = <<"npm", <<"relayed", r>>>>
    BY <1>5, RelayedIs
  <2>2. Home(f)[1] # "npm" /\ Home(f) # <<"qc">>
    BY <2>1
  <2>3. Home(f) \in Promises /\ After(f) \in Promises
    BY <2>1, PromisesThere, ContinuationParts, OwnerParts
  <2> QED BY <2>1, <2>2, <2>3
<1>6. ASSUME NEW k \in 1..MaxWaits, f = Continue(<<"next", k>>)
      PROVE  /\ f.cb = "next" /\ Home(f) = <<"qc">>
             /\ Home(f) \in Promises /\ After(f) \in Promises /\ Home(f)[1] # "npm"
  <2>1. f.cb = "next" /\ Home(f) = <<"qc">> /\ After(f) = <<"npm", <<"next", k>>>>
    BY <1>6, NextIs
  <2>2. Home(f)[1] # "npm"
    BY <2>1
  <2>3. Home(f) \in Promises /\ After(f) \in Promises
    BY <2>1, PromisesThere, ContinuationParts
  <2> QED BY <2>1, <2>2, <2>3
<1>7. \A k \in 1..MaxWaits : f = Continue(<<"next", k>>) => f.cb = "next"
  BY <1>6
<1>a. CASE \E p \in Alls : \E i \in DOMAIN Refs(p) : f = Collect(p, i)
  BY <1>1, <1>7, <1>a DEF RefKinds
<1>b. CASE \E o \in Owners : ~ Trusted(o) /\ f = Verdict(o)
  BY <1>2, <1>7, <1>b
<1>c. CASE \E b \in Blocks : f = Continue(<<"fetched", b>>)
  BY <1>3, <1>7, <1>c
<1>d. CASE \E b \in Blocks : f = Continue(<<"delivery", b>>)
  BY <1>4, <1>7, <1>d
<1>e. CASE \E r \in Relays : f = Continue(<<"relayed", r>>)
  BY <1>5, <1>7, <1>e
<1>f. CASE \E k \in 1..MaxWaits : f = Continue(<<"next", k>>)
  BY <1>6, <1>f
<1> QED BY <1>a, <1>b, <1>c, <1>d, <1>e, <1>f, CallbackParts

(* Callbacks of different promises, indices or owners are different.       *)
LEMMA CallbacksDiffer ==
    /\ \A p, q, i, j : Collect(p, i) = Collect(q, j) => p = q /\ i = j
    /\ \A c, d : Continue(c) = Continue(d) => c[1] = d[1] /\ c[2] = d[2]
    /\ \A o, u : Verdict(o) = Verdict(u) => o = u
    /\ \A p, q : Forward(p) = Forward(q) => p = q
    /\ \A p : Forward(p).cb = "forward" /\ Forward(p).p = p
<1>1. \A p, q, i, j : Collect(p, i) = Collect(q, j) => p = q /\ i = j
  BY CollectIs
<1>2. \A c, d : Continue(c) = Continue(d) => c[1] = d[1] /\ c[2] = d[2]
  <2>1. \A c : Continue(c).cb = c[1] /\ Continue(c).id = c[2]
    BY DEF Continue
  <2> QED BY <2>1
<1>3. \A o, u : Verdict(o) = Verdict(u) => o = u
  BY VerdictIs
<1>4. \A p : Forward(p).cb = "forward" /\ Forward(p).p = p
  BY DEF Forward
<1> QED BY <1>1, <1>2, <1>3, <1>4

-----------------------------------------------------------------------------
(* Keys, and what happens to them when steps are put on the stack.         *)
LEMMA KeysDiffer ==
    /\ \A a, b : /\ KCb(a) = KCb(b) => a = b
                 /\ KAll(a) = KAll(b) => a = b
                 /\ KVerify(a) = KVerify(b) => a = b
                 /\ KErase(a) = KErase(b) => a = b
    /\ \A a, b : /\ KCb(a) # KAll(b) /\ KCb(a) # KVerify(b) /\ KCb(a) # KErase(b)
                 /\ KAll(a) # KVerify(b) /\ KAll(a) # KErase(b) /\ KVerify(a) # KErase(b)
    /\ \A a : KCb(a) # Free /\ KAll(a) # Free /\ KVerify(a) # Free /\ KErase(a) # Free
  BY DEF KCb, KAll, KVerify, KErase, Free

(* The key of each step.                                                   *)
LEMMA KeyIs ==
    /\ \A p, x : Key(Resolve(p, x)) = Free /\ Key(Reject(p, x)) = Free
    /\ \A p, f, r : Key(Then(p, f, r)) = KCb(f)
    /\ \A p, ps : Key(All(p, ps)) = KAll(p)
    /\ \A c, x : Key(Call(c, x)) = IF c.cb = "forward" THEN Free ELSE KCb(c)
    /\ \A o : Key(Verify(o)) = KVerify(o)
    /\ \A b : Key(Deliver(b)) = Free
    /\ \A t : Key(Erase(t)) = KErase(t)
    /\ \A k : Key(Drain(k)) = Free
<1>1. \A p, x : Key(Resolve(p, x)) = Free /\ Key(Reject(p, x)) = Free
  BY DEF Key, Resolve, Reject
<1>2. \A p, f, r : Key(Then(p, f, r)) = KCb(f)
  BY DEF Key, Then
<1>3. \A p, ps : Key(All(p, ps)) = KAll(p)
  BY DEF Key, All
<1>4. \A c, x : Key(Call(c, x)) = IF c.cb = "forward" THEN Free ELSE KCb(c)
  BY DEF Key, Call
<1>5. \A o : Key(Verify(o)) = KVerify(o)
  BY DEF Key, Verify
<1>6. \A b : Key(Deliver(b)) = Free
  BY DEF Key, Deliver
<1>7. \A t : Key(Erase(t)) = KErase(t)
  BY DEF Key, Erase
<1>8. \A k : Key(Drain(k)) = Free
  BY DEF Key, Drain
<1> QED BY <1>1, <1>2, <1>3, <1>4, <1>5, <1>6, <1>7, <1>8

(* A sequence is one over its own items.                                   *)
LEMMA SeqIsSeq ==
    ASSUME NEW S, NEW st \in Seq(S)
    PROVE  /\ IsSeq(st) /\ Len(st) \in Nat /\ DOMAIN st = 1..Len(st) /\ Items(st) \subseteq S
<1>1. Len(st) \in Nat /\ DOMAIN st = 1..Len(st) /\ st \in [1..Len(st) -> S]
  BY LenProperties
<1>2. \A i \in 1..Len(st) : st[i] \in Items(st)
  BY <1>1 DEF Items
<1>3. st \in [1..Len(st) -> Items(st)]
  BY <1>1, <1>2
<1>4. Items(st) \subseteq S
  BY <1>1 DEF Items
<1> QED BY <1>1, <1>3, <1>4, SeqDef DEF IsSeq

(* Two lists of steps that share no key make one.                          *)
LEMMA Joined ==
    ASSUME NEW a, NEW b, IsSeq(a), IsSeq(b), Linear(a), Linear(b),
           \A k \in KeysOf(a) : k \notin KeysOf(b)
    PROVE  /\ IsSeq(a \o b) /\ Linear(a \o b)
           /\ Items(a \o b) = Items(a) \cup Items(b)
           /\ KeysOf(a \o b) = KeysOf(a) \cup KeysOf(b)
<1> DEFINE S == Items(a) \cup Items(b)
           c == a \o b
           m == Len(a)
           n == Len(b)
<1>1. a \in Seq(S) /\ b \in Seq(S) /\ m \in Nat /\ n \in Nat /\ DOMAIN a = 1..m /\ DOMAIN b = 1..n
  <2>1. a \in Seq(Items(a)) /\ b \in Seq(Items(b))
    BY DEF IsSeq
  <2>2. m \in Nat /\ n \in Nat /\ a \in [1..m -> Items(a)] /\ b \in [1..n -> Items(b)]
        /\ DOMAIN a = 1..m /\ DOMAIN b = 1..n
    BY <2>1, LenProperties
  <2>3. a \in [1..m -> S] /\ b \in [1..n -> S]
    BY <2>2
  <2> QED BY <2>2, <2>3, SeqDef
<1>2. /\ c \in Seq(S) /\ Len(c) = m + n /\ DOMAIN c = 1..(m + n)
      /\ \A i \in 1..m : c[i] = a[i]
      /\ \A i \in 1..n : c[m + i] = b[i]
      /\ \A i \in 1..(m + n) : i > m => c[i] = b[i - m]
  <2>1. /\ c \in Seq(S) /\ Len(c) = m + n
        /\ \A i \in 1..(m + n) : c[i] = IF i <= m THEN a[i] ELSE b[i - m]
    BY <1>1, ConcatProperties
  <2>2. DOMAIN c = 1..(m + n)
    BY <2>1, LenProperties
  <2>3. \A i \in 1..n : m + i \in 1..(m + n) /\ ~ (m + i <= m) /\ (m + i) - m = i
    BY <1>1
  <2>4. \A i \in 1..m : i \in 1..(m + n)
    BY <1>1
  <2> QED BY <1>1, <2>1, <2>2, <2>3, <2>4
<1> HIDE DEF c, m, n, S
<1>3. \A i \in 1..(m + n) : \/ i \in 1..m /\ c[i] = a[i]
                            \/ i > m /\ i - m \in 1..n /\ c[i] = b[i - m]
  BY <1>1, <1>2
<1>4. \A i \in 1..m : i \in 1..(m + n)
  BY <1>1
<1>5. \A i \in 1..n : m + i \in 1..(m + n)
  BY <1>1
<1>6. Items(c) = Items(a) \cup Items(b)
  BY <1>1, <1>2, <1>3, <1>4, <1>5 DEF Items
<1>7. KeysOf(c) = KeysOf(a) \cup KeysOf(b)
  BY <1>1, <1>2, <1>3, <1>4, <1>5 DEF KeysOf
<1>8. ASSUME NEW i \in 1..(m + n), NEW j \in 1..(m + n), Key(c[i]) = Key(c[j]), Key(c[i]) # Free
      PROVE  i = j
  <2>1. \A x \in 1..m : Key(a[x]) # Free => Key(a[x]) \in KeysOf(a)
    BY <1>1 DEF KeysOf
  <2>2. \A x \in 1..n : Key(b[x]) # Free => Key(b[x]) \in KeysOf(b)
    BY <1>1 DEF KeysOf
  <2>3. CASE i \in 1..m /\ j \in 1..m
    BY <1>1, <1>2, <1>8, <2>3 DEF Linear
  <2>4. CASE i > m /\ j > m
    <3>1. i - m \in 1..n /\ j - m \in 1..n /\ c[i] = b[i - m] /\ c[j] = b[j - m]
      BY <1>1, <1>3, <2>4
    <3>2. i - m = j - m
      BY <1>1, <1>8, <3>1 DEF Linear
    <3> QED BY <1>1, <3>2
  <2>5. CASE i \in 1..m /\ j > m
    <3>1. j - m \in 1..n /\ c[i] = a[i] /\ c[j] = b[j - m]
      BY <1>1, <1>3, <2>5
    <3> QED BY <1>8, <2>1, <2>2, <2>5, <3>1
  <2>6. CASE j \in 1..m /\ i > m
    <3>1. i - m \in 1..n /\ c[j] = a[j] /\ c[i] = b[i - m]
      BY <1>1, <1>3, <2>6
    <3> QED BY <1>8, <2>1, <2>2, <2>6, <3>1
  <2> QED BY <1>1, <2>3, <2>4, <2>5, <2>6
<1>9. Linear(c)
  BY <1>2, <1>8 DEF Linear
<1>10. IsSeq(c)
  BY <1>2, SeqIsSeq
<1> QED BY <1>6, <1>7, <1>9, <1>10 DEF c

(* A list of steps without its first one.                                  *)
LEMMA Popped ==
    ASSUME NEW st, IsSeq(st), Linear(st), st # <<>>
    PROVE  /\ IsSeq(Tail(st)) /\ Linear(Tail(st))
           /\ Items(st) = {Head(st)} \cup Items(Tail(st))
           /\ KeysOf(Tail(st)) = KeysOf(st) \ {Key(Head(st))}
           /\ Key(Head(st)) # Free => Key(Head(st)) \in KeysOf(st)
<1> DEFINE t == Tail(st)
           n == Len(st)
<1>1. st \in Seq(Items(st)) /\ n \in Nat /\ n # 0 /\ DOMAIN st = 1..n
  <2>1. st \in Seq(Items(st))
    BY DEF IsSeq
  <2> QED BY <2>1, LenProperties, EmptySeq
<1>2. /\ Head(st) = st[1] /\ t \in Seq(Items(st)) /\ Len(t) = n - 1
      /\ \A i \in 1..(n - 1) : t[i] = st[i + 1]
  BY <1>1, HeadTailProperties
<1>3. DOMAIN t = 1..(n - 1) /\ IsSeq(t)
  BY <1>2, LenProperties, SeqIsSeq
<1> HIDE DEF t, n
<1>4. \A i \in 1..(n - 1) : i + 1 \in 1..n /\ i + 1 # 1
  BY <1>1
<1>5. \A i \in 1..n : i # 1 => i - 1 \in 1..(n - 1) /\ t[i - 1] = st[i]
  BY <1>1, <1>2
<1>6. 1 \in 1..n
  BY <1>1
<1>7. Items(st) = {Head(st)} \cup Items(t)
  <2>1. \A i \in 1..(n - 1) : t[i] \in Items(st)
    BY <1>1, <1>2, <1>4 DEF Items
  <2>2. \A i \in 1..n : i = 1 \/ st[i] \in Items(t)
    BY <1>3, <1>5 DEF Items
  <2>3. st[1] \in Items(st)
    BY <1>1, <1>6 DEF Items
  <2>4. Items(t) \subseteq Items(st)
    BY <1>3, <2>1 DEF Items
  <2>5. \A s \in Items(st) : s = st[1] \/ s \in Items(t)
    BY <1>1, <2>2 DEF Items
  <2> QED BY <1>2, <2>3, <2>4, <2>5
<1>8. Linear(t)
  <2> SUFFICES ASSUME NEW i \in 1..(n - 1), NEW j \in 1..(n - 1), Key(t[i]) = Key(t[j]), Key(t[i]) # Free
               PROVE  i = j
    BY <1>3 DEF Linear
  <2>1. \A x, y \in 1..n : Key(st[x]) = Key(st[y]) /\ Key(st[x]) # Free => x = y
    BY <1>1 DEF Linear
  <2>2. i + 1 \in 1..n /\ j + 1 \in 1..n /\ t[i] = st[i + 1] /\ t[j] = st[j + 1]
    BY <1>2, <1>4
  <2>3. i + 1 = j + 1
    BY <2>1, <2>2
  <2> QED BY <1>1, <2>3
<1>9. \A i \in 1..n : Key(st[i]) # Free /\ i # 1 => Key(st[i]) # Key(st[1])
  BY <1>1, <1>6 DEF Linear
<1>10. KeysOf(t) = KeysOf(st) \ {Key(Head(st))}
  <2>1. ASSUME NEW k \in KeysOf(t)
        PROVE  k \in KeysOf(st) \ {Key(Head(st))}
    <3>1. PICK i \in 1..(n - 1) : k = Key(t[i]) /\ k # Free
      BY <1>3 DEF KeysOf
    <3>2. k = Key(st[i + 1]) /\ i + 1 \in 1..n /\ i + 1 # 1
      BY <1>2, <1>4, <3>1
    <3> QED BY <1>1, <1>2, <1>9, <3>1, <3>2 DEF KeysOf
  <2>2. ASSUME NEW k \in KeysOf(st), k # Key(Head(st))
        PROVE  k \in KeysOf(t)
    <3>1. PICK i \in 1..n : k = Key(st[i]) /\ k # Free
      BY <1>1 DEF KeysOf
    <3>2. i # 1
      BY <1>2, <2>2, <3>1
    <3>3. i - 1 \in 1..(n - 1) /\ t[i - 1] = st[i]
      BY <1>5, <3>2
    <3> QED BY <1>3, <3>1, <3>3 DEF KeysOf
  <2> QED BY <2>1, <2>2
<1>11. Key(Head(st)) # Free => Key(Head(st)) \in KeysOf(st)
  BY <1>1, <1>2, <1>6 DEF KeysOf
<1> QED BY <1>3, <1>7, <1>8, <1>10, <1>11 DEF t

(* The stack after its first step did what it does and put new on it.      *)
LEMMA Moved ==
    ASSUME NEW new, IsSeq(stack), Linear(stack), stack # <<>>, Do(new), IsSeq(new), Linear(new),
           \A k \in KeysOf(new) : k \in Keys => k = Key(Head(stack))
    PROVE  /\ IsSeq(stack)' /\ Linear(stack)'
           /\ \A s : s \in Items(stack)' => s \in Items(stack) \/ s \in Items(new)
           /\ \A s : s \in Items(stack) => s = Head(stack) \/ s \in Items(stack)'
           /\ \A s : s \in Items(new) => s \in Items(stack)'
           /\ Keys' = (Keys \ {Key(Head(stack))}) \cup KeysOf(new)
<1> DEFINE t == Tail(stack)
<1>1. /\ IsSeq(t) /\ Linear(t) /\ Items(stack) = {Head(stack)} \cup Items(t)
      /\ KeysOf(t) = Keys \ {Key(Head(stack))}
  BY Popped DEF Keys
<1>2. stack' = new \o t
  BY DEF Do
<1> HIDE DEF t
<1>3. \A k \in KeysOf(new) : k \notin KeysOf(t)
  BY <1>1
<1>4. /\ IsSeq(new \o t) /\ Linear(new \o t)
      /\ Items(new \o t) = Items(new) \cup Items(t)
      /\ KeysOf(new \o t) = KeysOf(new) \cup KeysOf(t)
  BY <1>1, <1>3, Joined
<1>5. /\ IsSeq(stack)' /\ Linear(stack)'
      /\ Items(stack') = Items(new) \cup Items(t)
      /\ KeysOf(stack') = KeysOf(new) \cup KeysOf(t)
  <2>1. IsSeq(stack') /\ Linear(stack')
    BY <1>2, <1>4
  <2> QED BY <1>2, <1>4, <2>1 DEF IsSeq, Linear, Items
<1> QED BY <1>1, <1>5 DEF Keys, KeysOf, Items

(* Short lists of steps.                                                   *)
LEMMA NoSteps ==
    IsSeq(<<>>) /\ Linear(<<>>) /\ Items(<<>>) = {} /\ KeysOf(<<>>) = {}
  BY DEF IsSeq, Linear, Items, KeysOf

(* A list of one step.                                                     *)
LEMMA OneStep ==
    ASSUME NEW a
    PROVE  /\ IsSeq(<<a>>) /\ Linear(<<a>>) /\ Items(<<a>>) = {a}
           /\ KeysOf(<<a>>) = {Key(a)} \ {Free}
<1>1. DOMAIN <<a>> = {1} /\ <<a>>[1] = a
  OBVIOUS
<1>2. Items(<<a>>) = {a} /\ KeysOf(<<a>>) = {Key(a)} \ {Free} /\ Linear(<<a>>)
  BY <1>1 DEF Items, KeysOf, Linear
<1> QED BY <1>2 DEF IsSeq

(* A list of two steps.                                                    *)
LEMMA TwoSteps ==
    ASSUME NEW a, NEW b, Key(a) = Key(b) => Key(a) = Free
    PROVE  /\ IsSeq(<<a, b>>) /\ Linear(<<a, b>>) /\ Items(<<a, b>>) = {a, b}
           /\ KeysOf(<<a, b>>) = {Key(a), Key(b)} \ {Free}
<1>1. DOMAIN <<a, b>> = {1, 2} /\ <<a, b>>[1] = a /\ <<a, b>>[2] = b
  OBVIOUS
<1>2. Items(<<a, b>>) = {a, b} /\ KeysOf(<<a, b>>) = {Key(a), Key(b)} \ {Free}
  BY <1>1 DEF Items, KeysOf
<1>3. Linear(<<a, b>>)
  BY <1>1 DEF Linear
<1>4. <<a, b>> \in Seq({a, b})
  OBVIOUS
<1> QED BY <1>2, <1>3, <1>4, SeqIsSeq

-----------------------------------------------------------------------------

(* What every step keeps.                                                  *)
Full(p) == \A i \in DOMAIN Refs(p) : pr[p].results[i] # Empty
Grows ==
    /\ \A o \in Owners : (Started(o) => Started(o)') /\ (Verified(o) => Verified(o)')
    /\ \A p \in Alls : /\ AllRun(p) => AllRun(p)'
                       /\ AllRun(p) /\ Full(p) => pr'[p].results = pr[p].results
    /\ \A p \in Promises :
         /\ pr[p].state # "None" => pr'[p].state # "None"
         /\ pr[p].state = "Fulfilled" =>
              pr'[p].state = "Fulfilled" /\ pr'[p].value = pr[p].value
    /\ \A c \in Continuations : seen[c] # <<>> => seen'[c] = seen[c]
    /\ \A k \in 1..MaxWaits : Dropped(k) => Dropped(k)'
    /\ good' = good /\ waits \in Nat /\ waits' \in Nat /\ waits <= waits'

(* What a promise may be resolved with, it may be resolved with later.     *)
LEMMA ValueStays ==
    ASSUME Grows, NEW p \in Promises, NEW x, ValueOK(p, x)
    PROVE  ValueOK(p, x)'
<1>1. p[1] = "task" => x = good'[p] /\ Verified(p[2])'
  <2> HAVE p[1] = "task"
  <2>1. p[2] \in Owners
    <3>1. p \in Tasks
      BY PromiseParts
    <3> QED BY <3>1, TaskParts
  <2> QED BY <2>1 DEF ValueOK, Grows
<1>2. p[1] \in {"sigs", "all"} => /\ p \in Alls /\ AllRun(p)' /\ x = pr'[p].results
                                  /\ \A i \in DOMAIN Refs(p) : x[i] # Empty
  <2> HAVE p[1] \in {"sigs", "all"}
  <2>1. /\ p \in Alls /\ AllRun(p) /\ x = pr[p].results
        /\ \A i \in DOMAIN Refs(p) : x[i] # Empty
    BY DEF ValueOK
  <2>2. AllRun(p)' /\ pr'[p].results = pr[p].results
    BY <2>1 DEF Grows, Full
  <2> QED BY <2>1, <2>2
<1>3. p[1] = "cert" => /\ Verified(p[2])' /\ x \in {"true", "false"}
                       /\ x = "true" <=> AllGood(p[2])'
  <2> HAVE p[1] = "cert"
  <2>1. p[2] \in Owners
    <3>1. p \notin Tasks
      BY TaskParts
    <3>2. \E o \in Owners : p = <<"cert", o>>
      BY <3>1, PromiseParts
    <3> QED BY <3>2
  <2>2. Verified(p[2]) /\ x \in {"true", "false"} /\ (x = "true" <=> AllGood(p[2]))
    BY DEF ValueOK
  <2>3. Verified(p[2])'
    BY <2>1, <2>2 DEF Grows
  <2>4. good' = good
    BY DEF Grows
  <2>5. AllGood(p[2])' <=> AllGood(p[2])
    BY <2>4 DEF AllGood
  <2> QED BY <2>2, <2>3, <2>5
<1>4. p[1] = "npm" => seen'[p[2]] # <<>>
  <2> HAVE p[1] = "npm"
  <2>1. p[2] \in Continuations
    <3>1. p \notin Tasks
      BY TaskParts
    <3>2. \E c \in Continuations : p = <<"npm", c>>
      BY <3>1, PromiseParts
    <3> QED BY <3>2
  <2> QED BY <2>1 DEF ValueOK, Grows
<1>5. p[1] \in {"fetch", "deliver"} => x = "blk"
  BY DEF ValueOK
<1> QED BY <1>1, <1>2, <1>3, <1>4, <1>5 DEF ValueOK

(* The same for a rejection.                                               *)
LEMMA RejectStays ==
    ASSUME Grows, NEW p, RejectOK(p)
    PROVE  RejectOK(p)'
<1>1. \A k \in 1..MaxWaits : Dropped(k) => Dropped(k)'
  BY DEF Grows
<1> QED BY <1>1 DEF RejectOK

(* A step that waits on the stack stays sound while others are taken.      *)
LEMMA SoundStays ==
    ASSUME Grows, NEW s, Shape(s), Sound(s)
    PROVE  Sound(s)'
<1>1. s.op = "resolve" => ValueOK(s.p, s.v)'
  <2> HAVE s.op = "resolve"
  <2>1. s.p \in Promises /\ ValueOK(s.p, s.v)
    BY DEF Shape, Sound
  <2> QED BY <2>1, ValueStays
<1>2. s.op = "reject" => RejectOK(s.p)'
  BY RejectStays DEF Sound
<1>3. s.op = "call" /\ s.c.cb = "forward" => s.c.p # <<"qc">> /\ RejectOK(s.c.p)'
  BY RejectStays DEF Sound
<1>4. s.op = "call" /\ s.c.cb # "forward" /\ s.c.cb # "next" =>
        /\ pr'[Home(s.c)].state = "Fulfilled"
        /\ pr'[Home(s.c)].value = s.v
  <2> HAVE s.op = "call" /\ s.c.cb # "forward" /\ s.c.cb # "next"
  <2>1. s.c \in Callbacks
    BY DEF Shape
  <2>2. Home(s.c) \in Promises
    BY <2>1, CallbackPlaces
  <2>3. pr[Home(s.c)].state = "Fulfilled" /\ pr[Home(s.c)].value = s.v
    BY DEF Sound
  <2> QED BY <2>2, <2>3 DEF Grows
<1> QED BY <1>1, <1>2, <1>3, <1>4 DEF Sound

(* A callback that was given to then has been given to then.               *)
LEMMA BornStays ==
    ASSUME Grows, NEW f \in Callbacks, Born(f)
    PROVE  Born(f)'
<1>a. ASSUME NEW p \in Alls, NEW i \in DOMAIN Refs(p), f = Collect(p, i)
      PROVE  Born(f)'
  <2>1. f.cb = "collect" /\ f.p = p /\ AllRun(p)
    BY <1>a, CollectIs
  <2>2. AllRun(p)'
    BY <2>1 DEF Grows
  <2> QED BY <2>1, <2>2 DEF Born
<1>b. ASSUME NEW o \in Owners, f = Verdict(o)
      PROVE  Born(f)'
  BY <1>b, VerdictIs DEF Grows, Born
<1>c. ASSUME NEW b \in Blocks, f = Continue(<<"fetched", b>>)
      PROVE  Born(f)'
  <2>1. f.cb = "fetched" /\ f.id = b /\ pr[<<"deliver", b>>].state # "None"
    BY <1>c, FetchedIs
  <2>2. <<"deliver", b>> \in Promises
    BY PromisesThere
  <2>3. pr'[<<"deliver", b>>].state # "None"
    BY <2>1, <2>2 DEF Grows
  <2> QED BY <2>1, <2>3 DEF Born
<1>d. ASSUME NEW b \in Blocks, f = Continue(<<"delivery", b>>)
      PROVE  Born(f)'
  BY <1>d, DeliveryIs, OwnerParts DEF Grows, Born
<1>e. ASSUME NEW r \in Relays, f = Continue(<<"relayed", r>>)
      PROVE  Born(f)'
  BY <1>e, RelayedIs, OwnerParts DEF Grows, Born
<1>f. ASSUME NEW k \in 1..MaxWaits, f = Continue(<<"next", k>>)
      PROVE  Born(f)'
  <2>1. f.cb = "next" /\ f.id = k /\ k <= waits
    BY <1>f, NextIs
  <2>2. k <= waits'
    BY <2>1, VeriPoolAssumption DEF Grows
  <2> QED BY <2>1, <2>2 DEF Born
<1> QED BY <1>a, <1>b, <1>c, <1>d, <1>e, <1>f, CallbackParts

(* A step that starts no verification and no promise::all.                 *)
FlagsStay ==
    /\ \A o \in Owners : Started(o)' <=> Started(o)
    /\ \A o \in Owners : KVerify(o) \in Keys' <=> KVerify(o) \in Keys
    /\ \A p \in Alls : KAll(p) \in Keys' <=> KAll(p) \in Keys

(* What has begun is decided by those keys and flags.                      *)
LEMMA FlagsFacts ==
    ASSUME FlagsStay
    PROVE  /\ \A o \in Owners : Verified(o)' <=> Verified(o)
           /\ \A p \in Alls : (AllBorn(p)' <=> AllBorn(p)) /\ (AllRun(p)' <=> AllRun(p))
           /\ KeyInv => KeyInv'
<1>1. \A o \in Owners : Verified(o)' <=> Verified(o)
  BY DEF FlagsStay, Verified
<1>2. \A p \in Alls : AllBorn(p)' <=> AllBorn(p)
  <2>1. \A p \in Alls : p[2] \in Owners
    BY AllParts
  <2> QED BY <1>1, <2>1 DEF FlagsStay, AllBorn
<1>3. \A p \in Alls : AllRun(p)' <=> AllRun(p)
  BY <1>2 DEF FlagsStay, AllRun
<1>4. KeyInv => KeyInv'
  BY <1>2 DEF FlagsStay, KeyInv
<1> QED BY <1>1, <1>2, <1>3, <1>4

(* A step that leaves the promises alone and begins nothing but, perhaps,  *)
(* callbacks.                                                              *)
Quiet ==
    /\ pr' = pr /\ seen' = seen /\ good' = good /\ setting' = setting /\ thrown' = thrown
    /\ waits' \in waits..MaxWaits
    /\ IsSeq(stack)' /\ Linear(stack)'
    /\ \A o \in Owners : KVerify(o) \in Keys' <=> KVerify(o) \in Keys
    /\ \A p \in Alls : KAll(p) \in Keys' <=> KAll(p) \in Keys
    /\ \A f \in Callbacks : KCb(f) \in Keys' =>
         KCb(f) \in Keys \/ (~ Live(f) /\ ~ Done(f) /\ Born(f)')
    /\ \A k \in 1..MaxWaits : Dropped(k) => KCb(Continue(<<"next", k>>)) \notin Keys'
    /\ \A c \in Continuations : Resolve(<<"npm", c>>, "void") \in Items(stack) =>
         Resolve(<<"npm", c>>, "void") \in Items(stack)' \/ pr[<<"npm", c>>].state = "Fulfilled"

(* A quiet step takes nothing back.                                        *)
LEMMA QuietGrows ==
    ASSUME CtlInv, Quiet
    PROVE  Grows /\ FlagsStay
<1>1. \A o \in Owners : Started(o)' <=> Started(o)
  <2> SUFFICES ASSUME NEW o \in Owners PROVE Started(o)' <=> Started(o)
    OBVIOUS
  <2>1. pr' = pr /\ seen' = seen /\ (KAll(<<"all", o>>) \in Keys' <=> KAll(<<"all", o>>) \in Keys)
    BY AllParts DEF Quiet
  <2> QED BY <2>1 DEF Started
<1>2. FlagsStay
  BY <1>1 DEF FlagsStay, Quiet
<1>3. \A k \in 1..MaxWaits : Dropped(k) => Dropped(k)'
  <2> SUFFICES ASSUME NEW k \in 1..MaxWaits, Dropped(k) PROVE Dropped(k)'
    OBVIOUS
  <2>1. pr' = pr /\ seen' = seen /\ KCb(Continue(<<"next", k>>)) \notin Keys'
    BY DEF Quiet
  <2>2. k <= waits'
    BY VeriPoolAssumption DEF Quiet, Dropped, CtlInv, TypeOK
  <2> QED BY <2>1, <2>2 DEF Dropped
<1>4. good' = good /\ waits \in Nat /\ waits' \in Nat /\ waits <= waits'
  BY VeriPoolAssumption DEF Quiet, CtlInv, TypeOK
<1> QED BY <1>1, <1>2, <1>3, <1>4, FlagsFacts DEF Grows, Quiet

(* The stack stays right when what is put on it is.                        *)
LEMMA StackStays ==
    ASSUME StackInv, Grows, IsSeq(stack)', Linear(stack)',
           \A s \in Items(stack)' : s \in Items(stack) \/ (Shape(s) /\ Sound(s)')
    PROVE  StackInv'
<1>1. \A s \in Items(stack)' : Shape(s) /\ Sound(s)'
  <2> TAKE s \in Items(stack)'
  <2>1. CASE s \in Items(stack)
    BY <2>1, SoundStays DEF StackInv
  <2> QED BY <2>1
<1>2. \A s : Shape(s)' <=> Shape(s)
  BY DEF Shape
<1> QED BY <1>1, <1>2 DEF StackInv

(* The lists of a promise that a step leaves alone.                        *)
LEMMA ListStays ==
    ASSUME Grows, NEW p \in Promises, ListOK(p), pr'[p] = pr[p]
    PROVE  ListOK(p)'
<1>1. pr[p].state = "Fulfilled" => ValueOK(p, pr[p].value)'
  <2> HAVE pr[p].state = "Fulfilled"
  <2>1. PICK x : x = pr[p].value
    OBVIOUS
  <2>2. ValueOK(p, x)'
    BY <2>1, ValueStays DEF ListOK
  <2>3. pr'[p].value = x
    BY <2>1
  <2> QED BY <2>1, <2>2, <2>3
<1>2. pr[p].state = "Rejected" => RejectOK(p)'
  BY RejectStays DEF ListOK
<1> QED BY <1>1, <1>2 DEF ListOK

(* A quiet step keeps the invariant if what it puts on the stack is sound. *)
LEMMA QuietStep ==
    ASSUME CtlInv, Quiet,
           \A s \in Items(stack)' : s \in Items(stack) \/ (Shape(s) /\ Sound(s)')
    PROVE  CtlInv' /\ Grows
<1>1. Grows /\ FlagsStay
  BY QuietGrows
<1>2. TypeOK'
  BY VeriPoolAssumption DEF CtlInv, TypeOK, Quiet
<1>3. StackInv'
  BY <1>1, StackStays DEF CtlInv, Quiet
<1>4. KeyInv'
  BY <1>1, FlagsFacts DEF CtlInv
<1>5. CbInv'
  <2> SUFFICES ASSUME NEW f \in Callbacks PROVE CbOK(f)'
    BY DEF CbInv
  <2>1. (Waiting(f)' <=> Waiting(f)) /\ (Done(f)' <=> Done(f))
    BY DEF Quiet, Waiting, Done
  <2>2. CbOK(f)
    BY DEF CtlInv, CbInv
  <2>3. Born(f) => Born(f)'
    BY <1>1, BornStays
  <2>4. KCb(f) \in Keys' => KCb(f) \in Keys \/ (~ Live(f) /\ ~ Done(f) /\ Born(f)')
    BY DEF Quiet
  <2> QED BY <2>1, <2>2, <2>3, <2>4 DEF CbOK, Live
<1>6. ListInv'
  <2>1. \A p \in Promises : pr'[p] = pr[p]
    BY DEF Quiet
  <2> QED BY <1>1, <2>1, ListStays DEF CtlInv, ListInv
<1>7. QcInv'
  BY DEF CtlInv, QcInv, Quiet
<1>8. ResultInv'
  <2>1. \A p \in Alls : AllRun(p)' => AllRun(p)
    BY <1>1, FlagsFacts
  <2>2. \A p \in Alls : ResultOK(p) => ResultOK(p)'
    BY DEF Quiet, ResultOK
  <2> QED BY <2>1, <2>2 DEF CtlInv, ResultInv
<1>9. SeenInv'
  <2>1. \A c \in Continuations : SeenOK(c)'
    BY DEF CtlInv, SeenInv, SeenOK, Quiet
  <2> QED BY <2>1 DEF CtlInv, SeenInv, JudgedOK, Quiet
<1>10. ~ thrown'
  BY DEF CtlInv, Quiet
<1> QED BY <1>1, <1>2, <1>3, <1>4, <1>5, <1>6, <1>7, <1>8, <1>9, <1>10 DEF CtlInv

(* The step that the main thread is about to take.                         *)
LEMMA TopIs ==
    ASSUME CtlInv, stack # <<>>
    PROVE  /\ Head(stack) \in Items(stack) /\ Shape(Head(stack)) /\ Sound(Head(stack))
           /\ Key(Head(stack)) # Free => Key(Head(stack)) \in Keys
<1>1. Items(stack) = {Head(stack)} \cup Items(Tail(stack))
  BY Popped DEF CtlInv, StackInv
<1>2. Head(stack) \in Items(stack)
  BY <1>1
<1>3. Key(Head(stack)) # Free => Key(Head(stack)) \in Keys
  BY Popped DEF CtlInv, StackInv, Keys
<1> QED BY <1>2, <1>3 DEF CtlInv, StackInv

(* Only the stack changes.                                                 *)
Unmoved == /\ pr' = pr /\ seen' = seen /\ good' = good /\ setting' = setting
           /\ thrown' = thrown /\ waits' = waits

(* The first step of the stack is replaced by new, and nothing else        *)
(* changes.                                                                *)
LEMMA QuietMove ==
    ASSUME CtlInv, Unmoved, stack # <<>>, NEW new, Do(new), IsSeq(new), Linear(new),
           \A x : Key(Head(stack)) # KVerify(x) /\ Key(Head(stack)) # KAll(x),
           \A k \in KeysOf(new) : k = Key(Head(stack)) \/ (\E t \in Tasks : k = KErase(t) /\ k \notin Keys),
           \A c \in Continuations : Head(stack) = Resolve(<<"npm", c>>, "void") =>
                                      pr[<<"npm", c>>].state = "Fulfilled",
           \A s \in Items(new) : Shape(s) /\ (Sound(s) \/ Sound(s)')
    PROVE  CtlInv' /\ Grows
<1>1. IsSeq(stack) /\ Linear(stack)
  BY DEF CtlInv, StackInv
<1>2. \A k \in KeysOf(new) : k \in Keys => k = Key(Head(stack))
  OBVIOUS
<1>3. /\ IsSeq(stack)' /\ Linear(stack)'
      /\ \A s : s \in Items(stack)' => s \in Items(stack) \/ s \in Items(new)
      /\ \A s : s \in Items(stack) => s = Head(stack) \/ s \in Items(stack)'
      /\ Keys' = (Keys \ {Key(Head(stack))}) \cup KeysOf(new)
  BY <1>1, <1>2, Moved
<1>4. \A x : KVerify(x) \in Keys' <=> KVerify(x) \in Keys
  <2>1. \A x : KVerify(x) \notin KeysOf(new)
    BY KeysDiffer
  <2> QED BY <1>3, <2>1
<1>5. \A x : KAll(x) \in Keys' <=> KAll(x) \in Keys
  <2>1. \A x : KAll(x) \notin KeysOf(new)
    BY KeysDiffer
  <2> QED BY <1>3, <2>1
<1>6. \A x : KCb(x) \in Keys' => KCb(x) \in Keys
  <2>1. \A k \in KeysOf(new) : k # Free
    BY DEF KeysOf
  <2>2. \A x : KCb(x) \in KeysOf(new) => KCb(x) = Key(Head(stack))
    BY KeysDiffer
  <2>3. \A x : KCb(x) \in KeysOf(new) => KCb(x) \in Keys
    BY <2>1, <2>2, TopIs
  <2> QED BY <1>3, <2>3
<1>7. \A c \in Continuations : Resolve(<<"npm", c>>, "void") \in Items(stack) =>
         Resolve(<<"npm", c>>, "void") \in Items(stack)' \/ pr[<<"npm", c>>].state = "Fulfilled"
  BY <1>3
<1>8. Quiet
  <2>1. waits' \in waits..MaxWaits
    BY VeriPoolAssumption DEF Unmoved, CtlInv, TypeOK
  <2>2. \A k \in 1..MaxWaits : Dropped(k) => KCb(Continue(<<"next", k>>)) \notin Keys'
    BY <1>6 DEF Dropped
  <2>3. \A f \in Callbacks : KCb(f) \in Keys' =>
          KCb(f) \in Keys \/ (~ Live(f) /\ ~ Done(f) /\ Born(f)')
    BY <1>6
  <2>4. \A o \in Owners : KVerify(o) \in Keys' <=> KVerify(o) \in Keys
    BY <1>4
  <2>5. \A p \in Alls : KAll(p) \in Keys' <=> KAll(p) \in Keys
    BY <1>5
  <2> QED BY <1>3, <1>7, <2>1, <2>2, <2>3, <2>4, <2>5 DEF Quiet, Unmoved
<1>9. Grows
  BY <1>8, QuietGrows
<1>10. \A s \in Items(new) : Shape(s) /\ Sound(s)'
  BY <1>9, SoundStays
<1> QED BY <1>3, <1>8, <1>10, QuietStep

(* A handler starts with the stack empty.                                  *)
LEMMA QuietHandler ==
    ASSUME CtlInv, stack = <<>>, NEW a, stack' = <<a>>, Key(a) = Free,
           Unmoved, Shape(a), Sound(a)
    PROVE  CtlInv' /\ Grows
<1>1. Keys = {} /\ Items(stack) = {}
  BY NoSteps DEF Keys
<1>2. IsSeq(<<a>>) /\ Linear(<<a>>) /\ Items(<<a>>) = {a} /\ KeysOf(<<a>>) = {}
  BY OneStep
<1>3. IsSeq(stack)' /\ Linear(stack)' /\ Items(stack)' = {a} /\ Keys' = {}
  BY <1>2 DEF IsSeq, Linear, Items, Keys, KeysOf
<1>4. Quiet
  <2>1. waits' \in waits..MaxWaits
    BY VeriPoolAssumption DEF Unmoved, CtlInv, TypeOK
  <2> QED BY <1>1, <1>3, <2>1 DEF Quiet, Unmoved
<1>5. Sound(a)'
  BY <1>4, QuietGrows, SoundStays
<1> QED BY <1>3, <1>4, <1>5, QuietStep

(* The steps that the model puts on the stack have the shape of a step.    *)
LEMMA ItemShapes ==
    /\ \A p \in Promises : \A x : Shape(Resolve(p, x)) /\ Shape(Reject(p, x))
    /\ \A f \in Callbacks : Shape(Then(Home(f), f, Forward(After(f))))
    /\ \A p \in Alls : Shape(All(p, Refs(p)))
    /\ \A f \in Callbacks : \A x : Shape(Call(f, x))
    /\ \A p \in Promises : \A x : Shape(Call(Forward(p), x))
    /\ \A o \in Owners : Shape(Verify(o))
    /\ \A b \in Blocks : Shape(Deliver(b))
    /\ \A t \in Tasks : Shape(Erase(t))
    /\ \A k \in Nat : Shape(Drain(k))
<1>1. \A p \in Promises : \A x : Shape(Resolve(p, x)) /\ Shape(Reject(p, x))
  BY DEF Shape, Resolve, Reject
<1>2. \A f \in Callbacks : Shape(Then(Home(f), f, Forward(After(f))))
  BY DEF Shape, Then
<1>3. \A p \in Alls : Shape(All(p, Refs(p)))
  BY DEF Shape, All
<1>4. \A f \in Callbacks : \A x : Shape(Call(f, x))
  BY DEF Shape, Call
<1>5. \A p \in Promises : \A x : Shape(Call(Forward(p), x))
  <2> SUFFICES ASSUME NEW p \in Promises, NEW x PROVE Shape(Call(Forward(p), x))
    OBVIOUS
  <2> DEFINE s == Call(Forward(p), x)
  <2>1. s.op = "call" /\ s.c = Forward(p) /\ s.v = x
    BY DEF Call
  <2>2. Forward(p).cb = "forward" /\ Forward(p).p = p
    BY DEF Forward
  <2> HIDE DEF s
  <2>3. s = Call(Forward(s.c.p), s.v)
    BY <2>1, <2>2 DEF s
  <2>4. Shape(s)
    BY <2>1, <2>2, <2>3 DEF Shape
  <2> QED BY <2>4 DEF s
<1>6. \A o \in Owners : Shape(Verify(o))
  BY DEF Shape, Verify
<1>7. \A b \in Blocks : Shape(Deliver(b))
  BY DEF Shape, Deliver
<1>8. \A t \in Tasks : Shape(Erase(t))
  BY DEF Shape, Erase
<1>9. \A k \in Nat : Shape(Drain(k))
  BY DEF Shape, Drain
<1> QED BY <1>1, <1>2, <1>3, <1>4, <1>5, <1>6, <1>7, <1>8, <1>9

(* When they are sound.                                                    *)
LEMMA ItemSounds ==
    /\ \A p, x : Sound(Resolve(p, x)) <=> ValueOK(p, x)
    /\ \A p, x : Sound(Reject(p, x)) <=> RejectOK(p)
    /\ \A p, f, r : Sound(Then(p, f, r))
    /\ \A p, ps : Sound(All(p, ps))
    /\ \A f, x : f.cb # "forward" =>
         (Sound(Call(f, x)) <=>
            (f.cb # "next" => pr[Home(f)].state = "Fulfilled" /\ pr[Home(f)].value = x))
    /\ \A p, x : Sound(Call(Forward(p), x)) <=> p # <<"qc">> /\ RejectOK(p)
    /\ \A x : Sound(Verify(x)) /\ Sound(Deliver(x)) /\ Sound(Erase(x)) /\ Sound(Drain(x))
<1>1. \A p, x : Sound(Resolve(p, x)) <=> ValueOK(p, x)
  BY DEF Sound, Resolve
<1>2. \A p, x : Sound(Reject(p, x)) <=> RejectOK(p)
  BY DEF Sound, Reject
<1>3. \A p, f, r : Sound(Then(p, f, r))
  BY DEF Sound, Then
<1>4. \A p, ps : Sound(All(p, ps))
  BY DEF Sound, All
<1>5. \A f, x : f.cb # "forward" =>
         (Sound(Call(f, x)) <=>
            (f.cb # "next" => pr[Home(f)].state = "Fulfilled" /\ pr[Home(f)].value = x))
  BY DEF Sound, Call
<1>6. \A p, x : Sound(Call(Forward(p), x)) <=> p # <<"qc">> /\ RejectOK(p)
  BY CallbacksDiffer DEF Sound, Call
<1>7. \A x : Sound(Verify(x)) /\ Sound(Deliver(x)) /\ Sound(Erase(x)) /\ Sound(Drain(x))
  BY DEF Sound, Verify, Deliver, Erase, Drain
<1> QED BY <1>1, <1>2, <1>3, <1>4, <1>5, <1>6, <1>7

(* What the shape of a step says of its fields.                            *)
LEMMA ShapeOf ==
    ASSUME NEW s, Shape(s)
    PROVE  /\ s.op = "resolve" => s.p \in Promises /\ s = Resolve(s.p, s.v)
           /\ s.op = "reject" => s.p \in Promises /\ s = Reject(s.p, s.v)
           /\ s.op = "then" => /\ s.f \in Callbacks /\ s = Then(Home(s.f), s.f, Forward(After(s.f)))
                               /\ s.p = Home(s.f) /\ s.r = Forward(After(s.f))
           /\ s.op = "all" => s.p \in Alls /\ s = All(s.p, Refs(s.p)) /\ s.ps = Refs(s.p)
           /\ s.op = "call" => /\ s = Call(s.c, s.v)
                               /\ \/ s.c \in Callbacks
                                  \/ s.c = Forward(s.c.p) /\ s.c.p \in Promises
           /\ s.op = "verify" => s.o \in Owners /\ s = Verify(s.o)
           /\ s.op = "deliver" => s.b \in Blocks /\ s = Deliver(s.b)
           /\ s.op = "erase" => s.t \in Tasks /\ s = Erase(s.t)
           /\ s.op = "drain" => s.k \in Nat /\ s = Drain(s.k)
<1>1. s.op = "then" => s.f \in Callbacks /\ s = Then(Home(s.f), s.f, Forward(After(s.f)))
  BY DEF Shape
<1>2. s.op = "then" => s.p = Home(s.f) /\ s.r = Forward(After(s.f))
  BY <1>1 DEF Then
<1>3. s.op = "all" => s.p \in Alls /\ s = All(s.p, Refs(s.p))
  BY DEF Shape
<1>4. s.op = "all" => s.ps = Refs(s.p)
  BY <1>3 DEF All
<1>5. s.op = "call" => \/ s.c \in Callbacks /\ s = Call(s.c, s.v)
                       \/ s.c.p \in Promises /\ s = Call(Forward(s.c.p), s.v)
  BY DEF Shape
<1>6. \A c, x : Call(c, x).c = c
  BY DEF Call
<1>7. s.op = "call" => /\ s = Call(s.c, s.v)
                       /\ \/ s.c \in Callbacks
                          \/ s.c = Forward(s.c.p) /\ s.c.p \in Promises
  BY <1>5, <1>6
<1>8. /\ s.op = "resolve" => s.p \in Promises /\ s = Resolve(s.p, s.v)
      /\ s.op = "reject" => s.p \in Promises /\ s = Reject(s.p, s.v)
      /\ s.op = "verify" => s.o \in Owners /\ s = Verify(s.o)
      /\ s.op = "deliver" => s.b \in Blocks /\ s = Deliver(s.b)
      /\ s.op = "erase" => s.t \in Tasks /\ s = Erase(s.t)
      /\ s.op = "drain" => s.k \in Nat /\ s = Drain(s.k)
  BY DEF Shape
<1> QED BY <1>1, <1>2, <1>3, <1>4, <1>7, <1>8

(* The fields of the steps.                                                *)
LEMMA OpsDiffer ==
    /\ \A p, x : Resolve(p, x).op = "resolve" /\ Resolve(p, x).p = p /\ Resolve(p, x).v = x
    /\ \A p, x : Reject(p, x).op = "reject"
    /\ \A p, f, r : Then(p, f, r).op = "then"
    /\ \A p, ps : All(p, ps).op = "all"
    /\ \A f, x : Call(f, x).op = "call" /\ Call(f, x).c = f /\ Call(f, x).v = x
  BY DEF Resolve, Reject, Then, All, Call

(* A step that ends without putting anything on the stack.                 *)
LEMMA QuietEnd ==
    ASSUME CtlInv, Unmoved, stack # <<>>, Do(<<>>),
           \A x : Key(Head(stack)) # KVerify(x) /\ Key(Head(stack)) # KAll(x),
           Head(stack).op # "resolve"
    PROVE  CtlInv' /\ Grows
<1>1. \A c : Head(stack) # Resolve(<<"npm", c>>, "void")
  BY OpsDiffer
<1> QED BY <1>1, NoSteps, QuietMove

(* resolve and reject of a promise that is settled.                        *)
LEMMA ResolveAgain ==
    ASSUME CtlInv, RunResolve, pr[Head(stack).p].state \in {"Fulfilled", "Rejected"}
    PROVE  CtlInv' /\ Grows
<1>1. PICK s : s = Head(stack)
  OBVIOUS
<1>2. s.op = "resolve" /\ stack # <<>> /\ Do(<<>>) /\ Unmoved
  BY <1>1 DEF RunResolve, Top, Settle, Unmoved, own, threads
<1>3. s.p \in Promises /\ s = Resolve(s.p, s.v) /\ ValueOK(s.p, s.v)
  BY <1>1, <1>2, TopIs, ShapeOf DEF Sound
<1>4. Key(s) = Free
  BY <1>3, KeyIs
<1>5. ASSUME NEW c \in Continuations, s = Resolve(<<"npm", c>>, "void")
      PROVE  pr[<<"npm", c>>].state = "Fulfilled"
  <2>1. s.p = <<"npm", c>>
    BY <1>5, OpsDiffer
  <2>2. s.p[1] = "npm" /\ s.p[2] = c
    BY <2>1
  <2>3. seen[c] # <<>>
    BY <1>3, <2>2 DEF ValueOK
  <2>4. SUFFICES ASSUME pr[s.p].state = "Rejected" PROVE FALSE
    BY <1>1, <2>1
  <2>5. RejectOK(s.p)
    BY <1>3, <2>4 DEF CtlInv, ListInv, ListOK
  <2>6. s.p # <<"qc">>
    BY <2>2
  <2>7. PICK k \in 1..MaxWaits : s.p = NextNpm(k) /\ Dropped(k)
    BY <2>5, <2>6 DEF RejectOK
  <2>8. c = <<"next", k>>
    BY <2>2, <2>7 DEF NextNpm
  <2> QED BY <2>3, <2>7, <2>8 DEF Dropped
<1> QED BY <1>1, <1>2, <1>4, <1>5, NoSteps, KeysDiffer, QuietMove

(* reject of a promise that is settled does nothing.                       *)
LEMMA RejectAgain ==
    ASSUME CtlInv, RunReject, pr[Head(stack).p].state \in {"Fulfilled", "Rejected"}
    PROVE  CtlInv' /\ Grows
<1>1. Head(stack).op = "reject" /\ stack # <<>> /\ Do(<<>>) /\ Unmoved
  BY DEF RunReject, Top, Settle, Unmoved, own, threads
<1>2. Key(Head(stack)) = Free
  BY <1>1, TopIs, ShapeOf, KeyIs
<1> QED BY <1>1, <1>2, KeysDiffer, QuietEnd

(* then at a promise that is settled.                                      *)
LEMMA ThenAtOnce ==
    ASSUME CtlInv, RunThen, pr[Head(stack).p].state = "Fulfilled"
    PROVE  CtlInv' /\ Grows
<1>1. PICK s : s = Head(stack)
  OBVIOUS
<1>2. PICK x : x = pr[s.p].value
  OBVIOUS
<1>3. s.op = "then" /\ stack # <<>> /\ Do(<<Call(s.f, x)>>) /\ Unmoved
  BY <1>1, <1>2 DEF RunThen, Top, Unmoved, own, threads
<1>4. s.f \in Callbacks /\ s = Then(Home(s.f), s.f, Forward(After(s.f))) /\ s.p = Home(s.f)
  BY <1>1, <1>3, TopIs, ShapeOf
<1>5. Key(s) = KCb(s.f) /\ Key(Call(s.f, x)) = KCb(s.f)
  BY <1>4, KeyIs, CallbackPlaces
<1>6. Shape(Call(s.f, x)) /\ Sound(Call(s.f, x))
  BY <1>1, <1>2, <1>4, ItemShapes, ItemSounds, CallbackPlaces
<1>7. \A c : s # Resolve(<<"npm", c>>, "void")
  BY <1>3, OpsDiffer
<1>8. /\ IsSeq(<<Call(s.f, x)>>) /\ Linear(<<Call(s.f, x)>>)
      /\ Items(<<Call(s.f, x)>>) = {Call(s.f, x)} /\ KeysOf(<<Call(s.f, x)>>) \subseteq {Key(s)}
  BY <1>5, OneStep
<1>9. \A y : Key(s) # KVerify(y) /\ Key(s) # KAll(y)
  BY <1>5, KeysDiffer
<1> QED BY <1>1, <1>3, <1>6, <1>7, <1>8, <1>9, QuietMove

(* then at the QC that was given up calls the callback that rejects.       *)
LEMMA ThenRejected ==
    ASSUME CtlInv, RunThen, pr[Head(stack).p].state = "Rejected"
    PROVE  CtlInv' /\ Grows
<1>1. PICK s : s = Head(stack)
  OBVIOUS
<1>2. PICK x : x = pr[s.p].value
  OBVIOUS
<1>3. s.op = "then" /\ stack # <<>> /\ Do(<<Call(s.r, x)>>) /\ Unmoved
  BY <1>1, <1>2 DEF RunThen, Top, Unmoved, own, threads
<1>4. /\ s.f \in Callbacks /\ s = Then(Home(s.f), s.f, Forward(After(s.f))) /\ s.p = Home(s.f)
      /\ s.r = Forward(After(s.f))
  BY <1>1, <1>3, TopIs, ShapeOf
<1>5. Key(s) = KCb(s.f) /\ Key(s) \in Keys
  BY <1>1, <1>3, <1>4, KeyIs, TopIs, KeysDiffer
<1>6. RejectOK(s.p) /\ s.p \in Promises /\ s.p[1] # "npm"
  BY <1>1, <1>4, CallbackPlaces DEF CtlInv, ListInv, ListOK
<1>7. s.p = <<"qc">>
  BY <1>6 DEF RejectOK, NextNpm
<1>8. PICK k \in 1..MaxWaits : s.f = Continue(<<"next", k>>)
  BY <1>4, <1>7, CallbackPlaces
<1>9. Born(s.f) /\ ~ Done(s.f)
  BY <1>4, <1>5 DEF CtlInv, CbInv, CbOK, Live
<1>10. k <= waits /\ seen[<<"next", k>>] = <<>> /\ After(s.f) = NextNpm(k)
  BY <1>8, <1>9, NextIs DEF NextNpm
<1> DEFINE a == Call(Forward(NextNpm(k)), x)
<1>11. Do(<<a>>) /\ Key(a) = Free
  BY <1>3, <1>4, <1>10, KeyIs, CallbacksDiffer
<1>12. IsSeq(<<a>>) /\ Linear(<<a>>) /\ Items(<<a>>) = {a} /\ KeysOf(<<a>>) = {}
  BY <1>11, OneStep
<1>13. Keys' = Keys \ {Key(s)}
  BY <1>1, <1>3, <1>11, <1>12, Moved DEF CtlInv, StackInv
<1>14. Dropped(k)'
  <2>1. KCb(Continue(<<"next", k>>)) \notin Keys'
    BY <1>5, <1>8, <1>13
  <2> QED BY <1>1, <1>3, <1>7, <1>10, <2>1 DEF Unmoved, Dropped
<1>15. RejectOK(NextNpm(k))' /\ NextNpm(k) # <<"qc">>
  BY <1>14 DEF RejectOK, NextNpm
<1>16. Sound(a)'
  <2>1. a.op = "call" /\ a.c = Forward(NextNpm(k))
    BY OpsDiffer
  <2>2. a.c.cb = "forward" /\ a.c.p = NextNpm(k)
    BY <2>1, CallbacksDiffer
  <2> HIDE DEF a
  <2> QED BY <1>15, <2>1, <2>2 DEF Sound
<1>17. Shape(a)
  <2>1. NextNpm(k) \in Promises
    BY ContinuationParts, PromisesThere DEF NextNpm
  <2> QED BY <2>1, ItemShapes
<1>18. \A c : s # Resolve(<<"npm", c>>, "void")
  BY <1>3, OpsDiffer
<1>19. \A y : Key(s) # KVerify(y) /\ Key(s) # KAll(y)
  BY <1>5, KeysDiffer
<1> HIDE DEF a
<1> QED BY <1>1, <1>3, <1>11, <1>12, <1>16, <1>17, <1>18, <1>19, QuietMove

(* The kind of a callback decides what it belongs to.                      *)
LEMMA CallbackOfKind ==
    ASSUME NEW f \in Callbacks
    PROVE  /\ f.cb = "collect" => f.p \in Alls /\ f.i \in DOMAIN Refs(f.p) /\ f = Collect(f.p, f.i)
           /\ f.cb = "verdict" => f.o \in Owners /\ ~ Trusted(f.o) /\ f = Verdict(f.o)
           /\ f.cb = "fetched" => f.id \in Blocks /\ f = Continue(<<"fetched", f.id>>)
           /\ f.cb = "delivery" => f.id \in Blocks /\ f = Continue(<<"delivery", f.id>>)
           /\ f.cb = "relayed" => f.id \in Relays /\ f = Continue(<<"relayed", f.id>>)
           /\ f.cb = "next" => f.id \in 1..MaxWaits /\ f = Continue(<<"next", f.id>>)
<1>a. CASE \E p \in Alls : \E i \in DOMAIN Refs(p) : f = Collect(p, i)
  BY <1>a, CollectIs
<1>b. CASE \E o \in Owners : ~ Trusted(o) /\ f = Verdict(o)
  BY <1>b, VerdictIs
<1>c. CASE \E b \in Blocks : f = Continue(<<"fetched", b>>)
  BY <1>c, FetchedIs
<1>d. CASE \E b \in Blocks : f = Continue(<<"delivery", b>>)
  BY <1>d, DeliveryIs
<1>e. CASE \E r \in Relays : f = Continue(<<"relayed", r>>)
  BY <1>e, RelayedIs
<1>f. CASE \E k \in 1..MaxWaits : f = Continue(<<"next", k>>)
  BY <1>f, NextIs
<1> QED BY <1>a, <1>b, <1>c, <1>d, <1>e, <1>f, CallbackParts

(* The rejection of the QC is passed on.                                   *)
LEMMA ForwardStep ==
    ASSUME CtlInv, CallForward
    PROVE  CtlInv' /\ Grows
<1>1. PICK s : s = Head(stack)
  OBVIOUS
<1>2. /\ s.op = "call" /\ s.c.cb = "forward" /\ stack # <<>> /\ Do(<<Reject(s.c.p, s.v)>>)
      /\ Unmoved
  BY <1>1 DEF CallForward, Calling, Top, Unmoved, own, rest, cb, v
<1>3. s.c = Forward(s.c.p) /\ s.c.p \in Promises /\ s = Call(s.c, s.v)
  BY <1>1, <1>2, TopIs, ShapeOf, CallbackPlaces
<1>4. RejectOK(s.c.p)
  BY <1>1, <1>2, TopIs DEF Sound
<1> DEFINE a == Reject(s.c.p, s.v)
<1>5. Key(s) = Free /\ Key(a) = Free
  BY <1>2, <1>3, KeyIs
<1>6. Shape(a) /\ Sound(a)
  BY <1>3, <1>4, ItemShapes, ItemSounds
<1>7. IsSeq(<<a>>) /\ Linear(<<a>>) /\ Items(<<a>>) = {a} /\ KeysOf(<<a>>) = {}
  BY <1>5, OneStep
<1>8. \A c : s # Resolve(<<"npm", c>>, "void")
  BY <1>2, OpsDiffer
<1>9. \A y : Key(s) # KVerify(y) /\ Key(s) # KAll(y)
  BY <1>5, KeysDiffer
<1>10. Do(<<a>>)
  BY <1>2
<1> HIDE DEF a
<1> QED BY <1>1, <1>2, <1>6, <1>7, <1>8, <1>9, <1>10, QuietMove

(* The values that promise::all has collected are those of its list.       *)
LEMMA CollectedAre ==
    ASSUME CtlInv, NEW p \in Alls, pr[p].state = "Fulfilled"
    PROVE  /\ AllRun(p) /\ DOMAIN pr[p].value = DOMAIN Refs(p)
           /\ \A i \in DOMAIN Refs(p) : /\ pr[Refs(p)[i]].state = "Fulfilled"
                                        /\ pr[p].value[i] = pr[Refs(p)[i]].value
                                        /\ ValueOK(Refs(p)[i], pr[p].value[i])
<1>1. p \in Promises /\ p[1] \in {"sigs", "all"}
  BY AllParts
<1>2. ValueOK(p, pr[p].value)
  BY <1>1 DEF CtlInv, ListInv, ListOK
<1>3. /\ AllRun(p) /\ pr[p].value = pr[p].results
      /\ \A i \in DOMAIN Refs(p) : pr[p].value[i] # Empty
  BY <1>1, <1>2 DEF ValueOK
<1>4. ResultOK(p)
  BY <1>3 DEF CtlInv, ResultInv
<1>5. \A i \in DOMAIN Refs(p) : /\ pr[Refs(p)[i]].state = "Fulfilled"
                                /\ pr[p].value[i] = pr[Refs(p)[i]].value
  BY <1>3, <1>4 DEF ResultOK
<1>6. DOMAIN pr[p].value = DOMAIN Refs(p)
  BY <1>3, <1>4 DEF ResultOK
<1>7. \A i \in DOMAIN Refs(p) : ValueOK(Refs(p)[i], pr[Refs(p)[i]].value)
  BY <1>5, RefsAre DEF CtlInv, ListInv, ListOK
<1>8. \A i \in DOMAIN Refs(p) : ValueOK(Refs(p)[i], pr[p].value[i])
  BY <1>5, <1>7
<1> QED BY <1>3, <1>5, <1>6, <1>8

(* The verdict on a certificate is that of the synchronous check.          *)
LEMMA VerdictStep ==
    ASSUME CtlInv, CallVerdict
    PROVE  CtlInv' /\ Grows
<1>1. PICK s : s = Head(stack)
  OBVIOUS
<1> DEFINE o == s.c.o
           y == IF \A i \in DOMAIN s.v : s.v[i] = "true" THEN "true" ELSE "false"
           a == Resolve(<<"cert", o>>, y)
<1>2. s.op = "call" /\ s.c.cb = "verdict" /\ stack # <<>> /\ Do(<<a>>) /\ Unmoved
  BY <1>1 DEF CallVerdict, Calling, Top, Unmoved, own, rest, cb, v
<1>3. s.c \in Callbacks /\ s = Call(s.c, s.v)
  <2>1. s = Call(s.c, s.v) /\ (s.c \in Callbacks \/ s.c = Forward(s.c.p))
    BY <1>1, <1>2, TopIs, ShapeOf
  <2>2. Forward(s.c.p).cb = "forward"
    BY CallbacksDiffer
  <2> QED BY <1>2, <2>1, <2>2
<1>4. o \in Owners /\ ~ Trusted(o) /\ s.c = Verdict(o)
  BY <1>2, <1>3, CallbackOfKind
<1> DEFINE p == <<"sigs", o>>
<1>5. p \in Alls /\ Home(s.c) = p /\ p[1] = "sigs" /\ p[2] = o
  BY <1>4, AllParts, VerdictIs
<1>6. pr[p].state = "Fulfilled" /\ pr[p].value = s.v
  BY <1>1, <1>2, <1>5, TopIs DEF Sound
<1>7. Refs(p) = [i \in 1..Sigs(o) |-> <<"task", o, i>>] /\ DOMAIN Refs(p) = 1..Sigs(o)
  BY <1>5, RefsAre
<1>8. /\ AllRun(p) /\ DOMAIN s.v = 1..Sigs(o)
      /\ \A i \in 1..Sigs(o) : ValueOK(Refs(p)[i], s.v[i])
  BY <1>5, <1>6, <1>7, CollectedAre
<1>9. \A i \in 1..Sigs(o) : s.v[i] = good[<<"task", o, i>>]
  <2> SUFFICES ASSUME NEW i \in 1..Sigs(o) PROVE s.v[i] = good[<<"task", o, i>>]
    OBVIOUS
  <2>1. PICK t : t = <<"task", o, i>>
    OBVIOUS
  <2>2. t[1] = "task" /\ Refs(p)[i] = t
    BY <1>7, <2>1
  <2>3. ValueOK(t, s.v[i])
    BY <1>8, <2>2
  <2> QED BY <2>1, <2>2, <2>3 DEF ValueOK
<1>10. y \in {"true", "false"} /\ (y = "true" <=> AllGood(o))
  BY <1>4, <1>8, <1>9 DEF AllGood
<1>11. Verified(o)
  BY <1>5, <1>8 DEF AllRun, AllBorn
<1> HIDE DEF y, o
<1>12. ValueOK(<<"cert", o>>, y)
  BY <1>10, <1>11 DEF ValueOK
<1>13. Key(s) = KCb(s.c) /\ Key(a) = Free
  BY <1>2, <1>3, KeyIs
<1>14. Shape(a) /\ Sound(a)
  BY <1>4, <1>12, PromisesThere, ItemShapes, ItemSounds
<1>15. IsSeq(<<a>>) /\ Linear(<<a>>) /\ Items(<<a>>) = {a} /\ KeysOf(<<a>>) = {}
  BY <1>13, OneStep
<1>16. \A c : s # Resolve(<<"npm", c>>, "void")
  BY <1>2, OpsDiffer
<1>17. \A z : Key(s) # KVerify(z) /\ Key(s) # KAll(z)
  BY <1>13, KeysDiffer
<1> HIDE DEF a
<1> QED BY <1>1, <1>2, <1>14, <1>15, <1>16, <1>17, QuietMove

(* async_deliver_blk for a block that is waited for or delivered.          *)
LEMMA DeliverAgain ==
    ASSUME CtlInv, RunDeliver, pr[<<"deliver", Head(stack).b>>].state # "None"
    PROVE  CtlInv' /\ Grows
<1>1. Head(stack).op = "deliver" /\ stack # <<>> /\ Do(<<>>) /\ Unmoved
  BY DEF RunDeliver, Top, Unmoved, own, threads
<1>2. Key(Head(stack)) = Free
  BY <1>1, TopIs, ShapeOf, KeyIs
<1> QED BY <1>1, <1>2, KeysDiffer, QuietEnd

(* The entry of pms is erased after the result was handed over.            *)
LEMMA EraseStep ==
    ASSUME CtlInv, RunErase
    PROVE  CtlInv' /\ Grows
<1>1. Head(stack).op = "erase" /\ stack # <<>> /\ Do(<<>>) /\ Unmoved
  BY DEF RunErase, Top, Unmoved, own, threads
<1>2. Key(Head(stack)) = KErase(Head(stack).t)
  BY <1>1, TopIs, ShapeOf, KeyIs
<1> QED BY <1>1, <1>2, KeysDiffer, QuietEnd

(* The handlers that put one step on the stack.                            *)
LEMMA HandlerSteps ==
    ASSUME CtlInv,
           \/ PoolHandler
           \/ \E b \in Blocks : OnFetchBlk(b) \/ ProposeHandler(b)
           \/ GiveUp \/ QcFinish
    PROVE  CtlInv' /\ Grows
<1>1. CASE PoolHandler
  <2>1. stack = <<>> /\ stack' = <<Drain(burst_size)>> /\ Unmoved
    BY <1>1 DEF PoolHandler, Unmoved, own
  <2>2. burst_size \in Nat
    BY VeriPoolAssumption
  <2>3. Key(Drain(burst_size)) = Free /\ Shape(Drain(burst_size)) /\ Sound(Drain(burst_size))
    BY <2>2, KeyIs, ItemShapes, ItemSounds
  <2> QED BY <2>1, <2>3, QuietHandler
<1>2. ASSUME NEW b \in Blocks, OnFetchBlk(b)
      PROVE  CtlInv' /\ Grows
  <2>1. stack = <<>> /\ stack' = <<Resolve(<<"fetch", b>>, "blk")>> /\ Unmoved
    BY <1>2 DEF OnFetchBlk, Handler, Idle, Unmoved, own, threads
  <2>2. ValueOK(<<"fetch", b>>, "blk")
    BY DEF ValueOK
  <2>3. <<"fetch", b>> \in Promises
    BY PromisesThere
  <2> DEFINE a == Resolve(<<"fetch", b>>, "blk")
  <2>4. Key(a) = Free /\ Shape(a) /\ Sound(a)
    BY <2>2, <2>3, KeyIs, ItemShapes, ItemSounds
  <2> QED BY <2>1, <2>4, QuietHandler
<1>3. ASSUME NEW b \in Blocks, ProposeHandler(b)
      PROVE  CtlInv' /\ Grows
  <2>1. stack = <<>> /\ stack' = <<Deliver(b)>> /\ Unmoved
    BY <1>3 DEF ProposeHandler, Handler, Idle, Unmoved, own, threads
  <2> QED BY <2>1, KeyIs, ItemShapes, ItemSounds, QuietHandler
<1>4. CASE GiveUp
  <2>1. stack = <<>> /\ stack' = <<Reject(<<"qc">>, "void")>> /\ Unmoved
    BY <1>4 DEF GiveUp, Handler, Idle, Unmoved, own, threads
  <2>2. RejectOK(<<"qc">>)
    BY DEF RejectOK
  <2> QED BY <2>1, <2>2, PromisesThere, KeyIs, ItemShapes, ItemSounds, QuietHandler
<1>5. CASE QcFinish
  <2>1. stack = <<>> /\ stack' = <<Resolve(<<"qc">>, "void")>> /\ Unmoved
    BY <1>5 DEF QcFinish, Handler, Idle, Unmoved, threads
  <2>2. ValueOK(<<"qc">>, "void")
    BY DEF ValueOK
  <2> QED BY <2>1, <2>2, PromisesThere, KeyIs, ItemShapes, ItemSounds, QuietHandler
<1> QED BY <1>1, <1>2, <1>3, <1>4, <1>5

(* The pacemaker waits for the QC, once more than before.                  *)
LEMMA WaitStep ==
    ASSUME CtlInv, WaitQc
    PROVE  CtlInv' /\ Grows
<1>1. PICK k : k = waits + 1
  OBVIOUS
<1> DEFINE c == <<"next", k>>
           f == Continue(c)
<1>2. PICK a : /\ a = Then(Home(f), f, Forward(After(f))) \/ a = Call(f, "void")
               /\ stack' = <<a>>
  <2>1. \/ stack' = <<ThenDo(<<"qc">>, c)>>
        \/ stack' = <<Call(f, "void")>>
    BY <1>1 DEF WaitQc, Handler
  <2>2. ThenDo(<<"qc">>, c) = Then(Home(f), f, Forward(After(f)))
    BY NextIs DEF ThenDo
  <2> QED BY <2>1, <2>2
<1>3. /\ stack = <<>> /\ waits < setting.waits /\ waits' = k
      /\ pr' = pr /\ seen' = seen /\ good' = good /\ setting' = setting /\ thrown' = thrown
  BY <1>1 DEF WaitQc, Handler, Idle, threads
<1>4. waits \in Nat /\ k \in 1..MaxWaits /\ k > waits /\ waits' \in waits..MaxWaits
  <2>1. waits \in 0..MaxWaits /\ setting \in Settings
    BY DEF CtlInv, TypeOK
  <2>2. setting.waits \in 0..MaxWaits
    BY <2>1, VeriPoolAssumption
  <2> QED BY <1>1, <1>3, <2>1, <2>2, VeriPoolAssumption
<1>5. c \in Continuations /\ f \in Callbacks /\ f.cb = "next"
  BY <1>4, ContinuationParts, CallbacksThere, NextIs
<1> HIDE DEF f
<1>6. Key(a) = KCb(f) /\ Shape(a)
  BY <1>2, <1>5, KeyIs, ItemShapes
<1>7. IsSeq(<<a>>) /\ Linear(<<a>>) /\ Items(<<a>>) = {a} /\ KeysOf(<<a>>) = {KCb(f)}
  BY <1>6, OneStep, KeysDiffer
<1>8. IsSeq(stack)' /\ Linear(stack)' /\ Items(stack)' = {a} /\ Keys' = {KCb(f)}
  BY <1>2, <1>7 DEF IsSeq, Linear, Items, Keys, KeysOf
<1>9. Keys = {} /\ Items(stack) = {}
  BY <1>3, NoSteps DEF Keys
<1>10. ~ Live(f) /\ ~ Done(f) /\ Born(f)'
  <2>1. f.cb = "next" /\ f.id = k
    BY NextIs DEF f
  <2>2. ~ Born(f)
    BY <1>4, <2>1 DEF Born
  <2>3. k <= waits'
    BY <1>3, <1>4
  <2>4. Born(f)'
    BY <2>1, <2>3 DEF Born
  <2>5. CbOK(f)
    BY <1>5 DEF CtlInv, CbInv
  <2> QED BY <2>1, <2>2, <2>4, <2>5 DEF CbOK
<1>11. \A z : KCb(z) \in Keys' => z = f
  BY <1>8, KeysDiffer
<1>12. \A z : KVerify(z) \notin Keys' /\ KAll(z) \notin Keys'
  BY <1>8, KeysDiffer
<1>13. \A j \in 1..MaxWaits : Dropped(j) => KCb(Continue(<<"next", j>>)) \notin Keys'
  <2> SUFFICES ASSUME NEW j \in 1..MaxWaits, Dropped(j), KCb(Continue(<<"next", j>>)) \in Keys'
               PROVE  FALSE
    OBVIOUS
  <2>1. Continue(<<"next", j>>) = Continue(<<"next", k>>)
    BY <1>11 DEF f
  <2>2. j = k
    BY <2>1, NextIs
  <2> QED BY <1>4, <2>2 DEF Dropped
<1>14. Quiet
  BY <1>3, <1>4, <1>8, <1>9, <1>10, <1>11, <1>12, <1>13 DEF Quiet
<1>15. Sound(a)'
  <2>1. Sound(a)
    BY <1>2, <1>5, ItemSounds
  <2> QED BY <1>6, <1>14, <2>1, QuietGrows, SoundStays
<1> QED BY <1>6, <1>8, <1>14, <1>15, QuietStep

(* A result is handed over.                                                *)
LEMMA DrainStep ==
    ASSUME CtlInv, PoolInv, RunDrain
    PROVE  CtlInv' /\ Grows
<1>1. PICK s : s = Head(stack)
  OBVIOUS
<1>2. s.op = "drain" /\ stack # <<>> /\ Unmoved
  BY <1>1 DEF RunDrain, Top, Unmoved, own
<1>3. s.k \in Nat /\ Key(s) = Free
  BY <1>1, <1>2, TopIs, ShapeOf, KeyIs
<1>4. CASE Do(<<>>)
  BY <1>1, <1>2, <1>3, <1>4, KeysDiffer, QuietEnd
<1>5. ASSUME NEW w \in Workers, s.k > 0, out_queue[w] # <<>>,
             Do(<<Resolve(Head(out_queue[w]), good[Head(out_queue[w])]),
                  Erase(Head(out_queue[w])), Drain(s.k - 1)>>)
      PROVE  CtlInv' /\ Grows
  <2>1. PICK t : t = Head(out_queue[w])
    OBVIOUS
  <2>2. t \in Items(out_queue[w]) /\ t \in Tasks
    <3>1. out_queue[w] \in Seq(Items(out_queue[w]))
      BY DEF PoolInv, PoolTypeOK, IsSeq
    <3>2. t \in Items(out_queue[w])
      BY <1>5, <2>1, <3>1, HeadTailProperties
    <3> QED BY <3>2 DEF PoolInv, PoolTypeOK
  <2>3. At(t, <<"out", w>>) /\ <<"out", w>> \in Places /\ <<"erase">> \in Places
    BY <2>2 DEF At, Places
  <2>4. t \in pms
    BY <2>2, <2>3 DEF PoolInv
  <2>5. Verified(t[2])
    BY <2>4 DEF PoolInv
  <2>6. KErase(t) \notin Keys
    <3>1. ~ At(t, <<"erase">>)
      <4>1. <<"out", w>> # <<"erase">>
        OBVIOUS
      <4> QED BY <2>2, <2>3, <4>1 DEF PoolInv
    <3> QED BY <3>1 DEF At
  <2>7. t \in Promises /\ t[1] = "task"
    BY <2>2, TaskParts, PromisesThere
  <2>8. ValueOK(t, good[t])
    BY <2>5, <2>7 DEF ValueOK
  <2>9. PICK x : x = good[t]
    OBVIOUS
  <2> DEFINE a == Resolve(t, x)
             b == Erase(t)
             d == Drain(s.k - 1)
             new == <<a, b>> \o <<d>>
  <2>10. Do(new)
    <3>1. Do(<<a, b, d>>)
      BY <1>5, <2>1, <2>9
    <3>2. <<a, b, d>> = new
      <4> HIDE DEF a, b, d
      <4> QED OBVIOUS
    <3> QED BY <3>1, <3>2
  <2>11. Key(a) = Free /\ Key(b) = KErase(t) /\ Key(d) = Free /\ KErase(t) # Free
    BY KeyIs, KeysDiffer
  <2>12. Shape(a) /\ Shape(b) /\ Shape(d) /\ Sound(a) /\ Sound(b) /\ Sound(d)
    <3>1. s.k - 1 \in Nat
      BY <1>3, <1>5
    <3> QED BY <2>2, <2>7, <2>8, <2>9, <3>1, ItemShapes, ItemSounds
  <2> HIDE DEF a, b, d
  <2>13. /\ IsSeq(<<a, b>>) /\ Linear(<<a, b>>) /\ Items(<<a, b>>) = {a, b}
         /\ KeysOf(<<a, b>>) = {KErase(t)}
    BY <2>11, TwoSteps
  <2>14. IsSeq(<<d>>) /\ Linear(<<d>>) /\ Items(<<d>>) = {d} /\ KeysOf(<<d>>) = {}
    BY <2>11, OneStep
  <2>15. /\ IsSeq(new) /\ Linear(new) /\ Items(new) = {a, b, d} /\ KeysOf(new) = {KErase(t)}
    BY <2>13, <2>14, Joined
  <2> HIDE DEF new
  <2>16. \A c : s # Resolve(<<"npm", c>>, "void")
    BY <1>2, OpsDiffer
  <2>17. \A z : Key(s) # KVerify(z) /\ Key(s) # KAll(z)
    BY <1>3, KeysDiffer
  <2>18. \A z \in Items(new) : Shape(z) /\ Sound(z)
    BY <2>12, <2>15
  <2> QED BY <1>1, <1>2, <2>2, <2>6, <2>10, <2>15, <2>16, <2>17, <2>18, QuietMove
<1> QED BY <1>1, <1>4, <1>5 DEF RunDrain

(* A step that changes one promise and neither seen nor waits.             *)
Changes(p) ==
    /\ DOMAIN pr' = Promises /\ DOMAIN pr'[p] = Fields
    /\ \A q \in Promises : q # p => pr'[q] = pr[q]
    /\ pr[p].state # "None" => pr'[p].state # "None"
    /\ pr[p].state # "Fulfilled"
    /\ seen' = seen /\ good' = good /\ setting' = setting /\ waits' = waits

(* A change of one promise that is not fulfilled takes nothing back.       *)
LEMMA ChangeGrows ==
    ASSUME CtlInv, NEW p \in Promises, Changes(p), FlagsStay,
           p \in Alls /\ AllRun(p) /\ Full(p) => pr'[p].results = pr[p].results,
           \A k \in 1..MaxWaits : Dropped(k) => Dropped(k)'
    PROVE  Grows
<1>1. \A o \in Owners : (Started(o) => Started(o)') /\ (Verified(o) => Verified(o)')
  BY FlagsFacts DEF FlagsStay
<1>2. \A q \in Alls : /\ AllRun(q) => AllRun(q)'
                      /\ AllRun(q) /\ Full(q) => pr'[q].results = pr[q].results
  <2>1. \A q \in Alls : q \in Promises
    BY AllParts
  <2> QED BY <2>1, FlagsFacts DEF Changes
<1>3. \A q \in Promises :
         /\ pr[q].state # "None" => pr'[q].state # "None"
         /\ pr[q].state = "Fulfilled" =>
              pr'[q].state = "Fulfilled" /\ pr'[q].value = pr[q].value
  BY DEF Changes
<1>4. good' = good /\ waits \in Nat /\ waits' \in Nat /\ waits <= waits' /\ seen' = seen
  BY VeriPoolAssumption DEF Changes, CtlInv, TypeOK
<1> QED BY <1>1, <1>2, <1>3, <1>4 DEF Grows

(* What is said of seen stays so, if a promise to resolve is not lost.     *)
LEMMA SeenStays ==
    ASSUME SeenInv, Grows, seen' = seen,
           \A c \in Continuations : Resolve(<<"npm", c>>, "void") \in Items(stack) =>
              Resolve(<<"npm", c>>, "void") \in Items(stack)' \/ pr'[<<"npm", c>>].state = "Fulfilled"
    PROVE  SeenInv'
<1>1. \A q \in Promises : pr[q].state = "Fulfilled" =>
         pr'[q].state = "Fulfilled" /\ pr'[q].value = pr[q].value
  BY DEF Grows
<1>2. \A c \in Continuations : SeenOK(c)'
  <2> SUFFICES ASSUME NEW c \in Continuations, seen[c] # <<>>
               PROVE  \/ pr'[<<"npm", c>>].state = "Fulfilled"
                      \/ Resolve(<<"npm", c>>, "void") \in Items(stack)'
    BY DEF SeenOK
  <2>1. <<"npm", c>> \in Promises
    BY PromisesThere
  <2>2. \/ pr[<<"npm", c>>].state = "Fulfilled"
        \/ Resolve(<<"npm", c>>, "void") \in Items(stack)
    BY DEF SeenInv, SeenOK
  <2> QED BY <1>1, <2>1, <2>2
<1>3. ASSUME NEW c, NEW o \in Owners, JudgedOK(c, o)
      PROVE  JudgedOK(c, o)'
  <2>1. <<"cert", o>> \in Promises
    BY PromisesThere
  <2> QED BY <1>1, <1>3, <2>1 DEF JudgedOK
<1>4. \A b \in Blocks : JudgedOK(<<"delivery", b>>, <<"blk", b>>)'
  BY <1>3, OwnerParts DEF SeenInv
<1>5. \A r \in Relays : JudgedOK(<<"relayed", r>>, <<"relay", r>>)'
  BY <1>3, OwnerParts DEF SeenInv
<1>6. \A r \in Relays : seen'[<<"relayed", r>>] # <<>> =>
                           pr'[<<"deliver", RelayOf[r].blk>>].state = "Fulfilled"
  <2> SUFFICES ASSUME NEW r \in Relays, seen[<<"relayed", r>>] # <<>>
               PROVE  pr'[<<"deliver", RelayOf[r].blk>>].state = "Fulfilled"
    OBVIOUS
  <2>1. RelayOf[r].blk \in Blocks
    BY VeriPoolAssumption
  <2>2. <<"deliver", RelayOf[r].blk>> \in Promises
    BY <2>1, PromisesThere
  <2> QED BY <1>1, <2>2 DEF SeenInv
<1> QED BY <1>2, <1>4, <1>5, <1>6 DEF SeenInv

(* The results that promise::all has collected stay right.                 *)
LEMMA ResultStays ==
    ASSUME Grows, NEW p \in Alls, ResultOK(p), pr'[p].state # "None",
           pr'[p].results = pr[p].results, pr'[p].size = pr[p].size
    PROVE  ResultOK(p)'
<1>1. \A i \in DOMAIN Refs(p) : Refs(p)[i] \in Promises
  BY RefsAre
<1>2. \A i \in DOMAIN Refs(p) : pr'[p].results[i] # Empty =>
        /\ pr'[Refs(p)[i]].state = "Fulfilled"
        /\ pr'[Refs(p)[i]].value = pr'[p].results[i]
  BY <1>1 DEF ResultOK, Grows
<1> QED BY <1>2 DEF ResultOK

(* A change of one promise keeps the invariant if it does so for the       *)
(* promise, its lists and its results.                                     *)
LEMMA ChangeStep ==
    ASSUME CtlInv, NEW p \in Promises, Changes(p), FlagsStay, Grows,
           IsSeq(stack)', Linear(stack)',
           \A s \in Items(stack)' : s \in Items(stack) \/ (Shape(s) /\ Sound(s)'),
           \A c \in Continuations : Resolve(<<"npm", c>>, "void") \in Items(stack) =>
              Resolve(<<"npm", c>>, "void") \in Items(stack)' \/ pr'[<<"npm", c>>].state = "Fulfilled",
           pr'[p].state \in {"None", "Pending", "Fulfilled", "Rejected"},
           IsSeq(pr'[p].onF), \A f \in Items(pr'[p].onF) : f \in Callbacks,
           IsSeq(pr'[p].onR), \A f \in Items(pr'[p].onR) : f.cb = "forward",
           ListOK(p)', CbInv',
           p = <<"qc">> => QcInv',
           p \in Alls /\ AllRun(p) => ResultOK(p)'
    PROVE  TypeOK' /\ StackInv' /\ KeyInv' /\ CbInv' /\ ListInv' /\ QcInv' /\ ResultInv' /\ SeenInv'
<1>1. TypeOK'
  <2>1. ASSUME NEW q \in Promises
        PROVE  /\ DOMAIN pr'[q] = Fields
               /\ pr'[q].state \in {"None", "Pending", "Fulfilled", "Rejected"}
               /\ IsSeq(pr'[q].onF) /\ \A f \in Items(pr'[q].onF) : f \in Callbacks
               /\ IsSeq(pr'[q].onR) /\ \A f \in Items(pr'[q].onR) : f.cb = "forward"
    <3>1. CASE q = p
      BY <3>1 DEF Changes
    <3>2. CASE q # p
      <4>1. pr'[q] = pr[q]
        BY <3>2 DEF Changes
      <4> QED BY <4>1 DEF CtlInv, TypeOK
    <3> QED BY <3>1, <3>2
  <2>2. /\ DOMAIN pr' = Promises /\ seen' = seen /\ good' = good /\ setting' = setting /\ waits' = waits
    BY DEF Changes
  <2>3. /\ DOMAIN seen = Continuations
        /\ \A c \in Continuations : seen[c] = <<>> \/ \E x : seen[c] = <<x>>
        /\ good \in [Tasks -> {"true", "false"}]
        /\ waits \in 0..MaxWaits /\ setting \in Settings
    BY DEF CtlInv, TypeOK
  <2>4. /\ DOMAIN seen' = Continuations
        /\ \A c \in Continuations : seen'[c] = <<>> \/ \E x : seen'[c] = <<x>>
        /\ good' \in [Tasks -> {"true", "false"}]
        /\ waits' \in 0..MaxWaits /\ setting' \in Settings
    BY <2>2, <2>3
  <2> QED BY <2>1, <2>2, <2>4 DEF TypeOK, IsSeq, Items
<1>2. StackInv'
  BY StackStays DEF CtlInv
<1>3. KeyInv'
  BY FlagsFacts DEF CtlInv
<1>4. ListInv'
  <2> SUFFICES ASSUME NEW q \in Promises PROVE ListOK(q)'
    BY DEF ListInv
  <2>1. CASE q # p
    <3>1. pr'[q] = pr[q] /\ ListOK(q)
      BY <2>1 DEF Changes, CtlInv, ListInv
    <3> QED BY <3>1, ListStays
  <2> QED BY <2>1
<1>5. QcInv'
  <2>1. CASE p # <<"qc">>
    <3>1. pr'[<<"qc">>] = pr[<<"qc">>]
      BY <2>1, PromisesThere DEF Changes
    <3> QED BY <3>1 DEF CtlInv, QcInv, Items
  <2> QED BY <2>1
<1>6. ResultInv'
  <2> SUFFICES ASSUME NEW q \in Alls, AllRun(q)' PROVE ResultOK(q)'
    BY DEF ResultInv
  <2>1. AllRun(q)
    BY FlagsFacts
  <2>2. CASE q # p
    <3>1. pr'[q] = pr[q] /\ ResultOK(q)
      BY <2>1, <2>2, AllParts DEF Changes, CtlInv, ResultInv
    <3>2. pr'[q].state # "None"
      BY <3>1 DEF ResultOK
    <3> QED BY <3>1, <3>2, ResultStays
  <2> QED BY <2>1, <2>2
<1>7. SeenInv'
  BY SeenStays DEF CtlInv, Changes
<1> QED BY <1>1, <1>2, <1>3, <1>4, <1>5, <1>6, <1>7

(* The calls of a list of callbacks.                                       *)
LEMMA CallsAre ==
    ASSUME NEW cs, IsSeq(cs), NEW x
    PROVE  /\ IsSeq(Calls(cs, x))
           /\ \A s : s \in Items(Calls(cs, x)) <=> \E f \in Items(cs) : s = Call(f, x)
           /\ (\A f \in Items(cs) : f \in Callbacks) /\ Inj(cs) =>
                /\ Linear(Calls(cs, x))
                /\ KeysOf(Calls(cs, x)) = {KCb(f) : f \in Items(cs)}
           /\ (\A f \in Items(cs) : f.cb = "forward") =>
                Linear(Calls(cs, x)) /\ KeysOf(Calls(cs, x)) = {}
<1> DEFINE n == Len(cs)
           q == Calls(cs, x)
<1>1. n \in Nat /\ DOMAIN cs = 1..n
  <2>1. cs \in Seq(Items(cs))
    BY DEF IsSeq
  <2> QED BY <2>1, LenProperties
<1>2. DOMAIN q = 1..n /\ \A i \in 1..n : q[i] = Call(cs[i], x)
  BY DEF Calls
<1>3. IsSeq(q)
  <2>1. q = [i \in 1..n |-> q[i]]
    BY <1>2 DEF Calls
  <2>2. \A i \in 1..n : q[i] \in Items(q)
    BY <1>2 DEF Items
  <2> HIDE DEF q, n
  <2>3. q \in [1..n -> Items(q)]
    BY <2>1, <2>2
  <2> QED BY <1>1, <2>3, SeqDef DEF IsSeq
<1> HIDE DEF q, n
<1>4. \A s : s \in Items(q) <=> \E f \in Items(cs) : s = Call(f, x)
  BY <1>1, <1>2 DEF Items
<1>5. ASSUME \A f \in Items(cs) : f \in Callbacks, Inj(cs)
      PROVE  Linear(q) /\ KeysOf(q) = {KCb(f) : f \in Items(cs)}
  <2>1. \A i \in 1..n : cs[i] \in Items(cs) /\ cs[i].cb # "forward"
    BY <1>1, <1>5, CallbackPlaces DEF Items
  <2>2. \A i \in 1..n : Key(q[i]) = KCb(cs[i])
    BY <1>2, <2>1, KeyIs
  <2>3. Linear(q)
    <3> SUFFICES ASSUME NEW i \in 1..n, NEW j \in 1..n, Key(q[i]) = Key(q[j]) PROVE i = j
      BY <1>2 DEF Linear
    <3>1. cs[i] = cs[j]
      BY <2>2, KeysDiffer
    <3> QED BY <1>1, <1>5, <3>1 DEF Inj
  <2>4. \A i \in 1..n : Key(q[i]) # Free
    BY <2>2, KeysDiffer
  <2>5. KeysOf(q) = {KCb(f) : f \in Items(cs)}
    <3>1. ASSUME NEW k \in KeysOf(q)
          PROVE  k \in {KCb(f) : f \in Items(cs)}
      BY <1>2, <2>1, <2>2 DEF KeysOf
    <3>2. ASSUME NEW f \in Items(cs)
          PROVE  KCb(f) \in KeysOf(q)
      <4>1. PICK i \in 1..n : f = cs[i]
        BY <1>1 DEF Items
      <4> QED BY <1>2, <2>2, <2>4, <4>1 DEF KeysOf
    <3> QED BY <3>1, <3>2
  <2> QED BY <2>3, <2>5
<1>6. ASSUME \A f \in Items(cs) : f.cb = "forward"
      PROVE  Linear(q) /\ KeysOf(q) = {}
  <2>1. \A i \in 1..n : cs[i].cb = "forward"
    BY <1>1, <1>6 DEF Items
  <2>2. \A i \in 1..n : Key(q[i]) = Free
    BY <1>2, <2>1, KeyIs
  <2> QED BY <1>2, <2>2 DEF Linear, KeysOf
<1> QED BY <1>3, <1>4, <1>5, <1>6 DEF q

(* The keys of Verify and All stay, and no promise::all of a relay is      *)
(* touched before the relay has come.                                      *)
LEMMA FlagsByKeys ==
    ASSUME \A z : KVerify(z) \in Keys' <=> KVerify(z) \in Keys,
           \A z : KAll(z) \in Keys' <=> KAll(z) \in Keys,
           seen' = seen, NEW p \in Promises,
           \A q \in Promises : q # p => pr'[q] = pr[q],
           pr[p].state # "None" => pr'[p].state # "None",
           \A r \in Relays : p = <<"all", <<"relay", r>>>> => Started(<<"relay", r>>)
    PROVE  FlagsStay
<1>1. ASSUME NEW o \in Owners
      PROVE  Started(o)' <=> Started(o)
  <2>1. CASE o[1] = "blk"
    BY <2>1 DEF Started
  <2>2. CASE o[1] # "blk"
    <3>1. PICK r \in Relays : o = <<"relay", r>>
      BY <2>2, OwnerParts
    <3>2. <<"all", o>> \in Promises
      BY PromisesThere
    <3>3. CASE p # <<"all", o>>
      BY <2>2, <3>2, <3>3 DEF Started
    <3>4. CASE p = <<"all", o>>
      <4>1. Started(o)
        BY <3>1, <3>4
      <4> QED BY <2>2, <3>4, <4>1 DEF Started
    <3> QED BY <3>3, <3>4
  <2> QED BY <2>1, <2>2
<1> QED BY <1>1 DEF FlagsStay

(* resolve of a promise that is not settled.                               *)
LEMMA ResolveFirst ==
    ASSUME CtlInv, RunResolve, pr[Head(stack).p].state \notin {"Fulfilled", "Rejected"}
    PROVE  CtlInv' /\ Grows
<1>1. PICK s : s = Head(stack)
  OBVIOUS
<1>2. PICK p, x, new : p = s.p /\ x = s.v /\ new = Calls(pr[p].onF, x)
  OBVIOUS
<1>3. /\ s.op = "resolve" /\ stack # <<>> /\ Do(new)
      /\ pr' = [pr EXCEPT ![p].state = "Fulfilled", ![p].value = x, ![p].onF = <<>>, ![p].onR = @]
      /\ seen' = seen /\ good' = good /\ setting' = setting /\ waits' = waits /\ thrown' = thrown
  BY <1>1, <1>2 DEF RunResolve, Top, Settle, own, threads
<1>4. p \in Promises /\ s = Resolve(p, x) /\ ValueOK(p, x) /\ Key(s) = Free
  BY <1>1, <1>2, <1>3, TopIs, ShapeOf, KeyIs DEF Sound
<1>5. /\ DOMAIN pr = Promises /\ DOMAIN pr[p] = Fields
      /\ IsSeq(pr[p].onF) /\ (\A f \in Items(pr[p].onF) : f \in Callbacks)
      /\ IsSeq(pr[p].onR) /\ (\A f \in Items(pr[p].onR) : f.cb = "forward")
  BY <1>4 DEF CtlInv, TypeOK
<1>6. /\ \A f \in Items(pr[p].onF) : Home(f) = p
      /\ Inj(pr[p].onF) /\ (p[1] = "npm" => pr[p].onR = <<>>)
  BY <1>4 DEF CtlInv, ListInv, ListOK
<1>7. /\ DOMAIN pr' = Promises /\ (\A q \in Promises : q # p => pr'[q] = pr[q])
      /\ DOMAIN pr'[p] = Fields /\ pr'[p].state = "Fulfilled" /\ pr'[p].value = x
      /\ pr'[p].onF = <<>> /\ pr'[p].onR = pr[p].onR
      /\ pr'[p].size = pr[p].size /\ pr'[p].results = pr[p].results
  BY <1>3, <1>4, <1>5 DEF Fields
<1>8. /\ IsSeq(new) /\ Linear(new) /\ KeysOf(new) = {KCb(f) : f \in Items(pr[p].onF)}
      /\ \A z : z \in Items(new) <=> \E f \in Items(pr[p].onF) : z = Call(f, x)
  BY <1>2, <1>5, <1>6, CallsAre
<1>9. \A f \in Items(pr[p].onF) : f \in Callbacks /\ Waiting(f) /\ KCb(f) \notin Keys /\ CbOK(f)
  BY <1>5, <1>6 DEF CtlInv, CbInv, CbOK, Waiting
<1>10. /\ IsSeq(stack)' /\ Linear(stack)'
       /\ \A z : z \in Items(stack)' => z \in Items(stack) \/ z \in Items(new)
       /\ \A z : z \in Items(stack) => z = s \/ z \in Items(stack)'
       /\ Keys' = Keys \cup {KCb(f) : f \in Items(pr[p].onF)}
  <2>1. IsSeq(stack) /\ Linear(stack)
    BY DEF CtlInv, StackInv
  <2>2. \A k \in KeysOf(new) : k \in Keys => k = Key(Head(stack))
    BY <1>8, <1>9
  <2>3. /\ IsSeq(stack)' /\ Linear(stack)'
        /\ \A z : z \in Items(stack)' => z \in Items(stack) \/ z \in Items(new)
        /\ \A z : z \in Items(stack) => z = Head(stack) \/ z \in Items(stack)'
        /\ Keys' = (Keys \ {Key(Head(stack))}) \cup KeysOf(new)
    BY <1>3, <1>8, <2>1, <2>2, Moved
  <2>4. Free \notin Keys
    BY DEF Keys, KeysOf
  <2> QED BY <1>1, <1>4, <1>8, <2>3, <2>4
<1>11. \A z : /\ KVerify(z) \in Keys' <=> KVerify(z) \in Keys
              /\ KAll(z) \in Keys' <=> KAll(z) \in Keys
              /\ KCb(z) \in Keys' <=> KCb(z) \in Keys \/ z \in Items(pr[p].onF)
  BY <1>10, KeysDiffer
<1>12. FlagsStay
  <2>1. \A r \in Relays : p = <<"all", <<"relay", r>>>> => Started(<<"relay", r>>)
    <3> SUFFICES ASSUME NEW r \in Relays, p = <<"all", <<"relay", r>>>>
                 PROVE  Started(<<"relay", r>>)
      OBVIOUS
    <3>1. p[1] = "all" /\ p[2] = <<"relay", r>>
      OBVIOUS
    <3>2. AllRun(p)
      BY <1>4, <3>1 DEF ValueOK
    <3> QED BY <3>1, <3>2 DEF AllRun, AllBorn
  <2> QED BY <1>3, <1>4, <1>7, <1>11, <2>1, FlagsByKeys
<1>13. Changes(p)
  BY <1>1, <1>2, <1>3, <1>7 DEF Changes
<1>14. Grows
  <2>1. \A k \in 1..MaxWaits : Dropped(k) => Dropped(k)'
    <3> SUFFICES ASSUME NEW k \in 1..MaxWaits, Dropped(k) PROVE Dropped(k)'
      OBVIOUS
    <3>1. p # <<"qc">>
      BY <1>1, <1>2 DEF Dropped
    <3>2. pr'[<<"qc">>] = pr[<<"qc">>]
      BY <1>7, <3>1, PromisesThere
    <3>3. Continue(<<"next", k>>) \notin Items(pr[p].onF)
      BY <1>6, <3>1, NextIs
    <3> QED BY <1>3, <1>11, <3>2, <3>3 DEF Dropped
  <2> QED BY <1>4, <1>7, <1>12, <1>13, <2>1, ChangeGrows
<1>15. \A z \in Items(stack)' : z \in Items(stack) \/ (Shape(z) /\ Sound(z)')
  <2> SUFFICES ASSUME NEW z \in Items(new) PROVE Shape(z) /\ Sound(z)'
    BY <1>10
  <2>1. PICK f \in Items(pr[p].onF) : z = Call(f, x)
    BY <1>8
  <2>2. f \in Callbacks /\ f.cb # "forward" /\ Home(f) = p
    BY <1>5, <1>6, CallbackPlaces
  <2>3. z.op = "call" /\ z.c = f /\ z.v = x
    BY <2>1, OpsDiffer
  <2>4. Sound(z)'
    BY <1>7, <2>2, <2>3 DEF Sound
  <2> QED BY <2>1, <2>2, <2>4, ItemShapes
<1>16. \A c \in Continuations : Resolve(<<"npm", c>>, "void") \in Items(stack) =>
          Resolve(<<"npm", c>>, "void") \in Items(stack)' \/ pr'[<<"npm", c>>].state = "Fulfilled"
  <2> SUFFICES ASSUME NEW c \in Continuations, Resolve(<<"npm", c>>, "void") = s
               PROVE  pr'[<<"npm", c>>].state = "Fulfilled"
    BY <1>10
  <2>1. p = <<"npm", c>>
    BY <1>2, OpsDiffer
  <2> QED BY <1>7, <2>1
<1>17. ListOK(p)'
  <2>1. ValueOK(p, x)'
    BY <1>4, <1>14, ValueStays
  <2>2. ValueOK(p, pr[p].value)'
    BY <1>7, <2>1
  <2>3. (p[1] = "npm" => pr'[p].onR = <<>>) /\ Items(pr'[p].onF) = {} /\ Inj(pr'[p].onF)
    BY <1>6, <1>7, NoSteps DEF Inj
  <2> QED BY <1>7, <2>2, <2>3 DEF ListOK, Items, Inj
<1>18. CbInv'
  <2> SUFFICES ASSUME NEW f \in Callbacks PROVE CbOK(f)'
    BY DEF CbInv
  <2>1. CbOK(f)
    BY DEF CtlInv, CbInv
  <2>2. Waiting(f)' => Waiting(f) /\ Home(f) # p
    <3>1. Home(f) \in Promises
      BY CallbackPlaces
    <3>2. Home(f) = p => ~ Waiting(f)'
      BY <1>7, NoSteps DEF Waiting
    <3>3. Home(f) # p => pr'[Home(f)] = pr[Home(f)]
      BY <1>7, <3>1
    <3> QED BY <3>2, <3>3 DEF Waiting
  <2>3. f \in Items(pr[p].onF) => Home(f) = p /\ Waiting(f) /\ KCb(f) \notin Keys
    BY <1>6, <1>9
  <2>4. Done(f)' <=> Done(f)
    <3>1. \A q \in Alls : pr'[q].results = pr[q].results
      BY <1>7, AllParts
    <3>2. f.cb = "collect" => f.p \in Alls
      BY CallbackOfKind
    <3> QED BY <1>3, <3>1, <3>2 DEF Done
  <2>5. Born(f) => Born(f)'
    BY <1>14, BornStays
  <2>6. KCb(f) \in Keys' <=> KCb(f) \in Keys \/ f \in Items(pr[p].onF)
    BY <1>11
  <2> QED BY <2>1, <2>2, <2>3, <2>4, <2>5, <2>6 DEF CbOK, Live
<1>19. p = <<"qc">> => QcInv'
  <2> HAVE p = <<"qc">>
  <2>1. Items(pr'[p].onR) = Items(pr[p].onR) /\ pr'[p].state = "Fulfilled"
    BY <1>7
  <2>2. \A f \in Items(pr[<<"qc">>].onR) : \E k \in 1..MaxWaits : f = Forward(NextNpm(k))
    BY DEF CtlInv, QcInv
  <2> QED BY <2>1, <2>2 DEF QcInv, Items
<1>20. p \in Alls /\ AllRun(p) => ResultOK(p)'
  <2> HAVE p \in Alls /\ AllRun(p)
  <2>1. ResultOK(p)
    BY DEF CtlInv, ResultInv
  <2> QED BY <1>7, <1>14, <2>1, ResultStays
<1>21. /\ IsSeq(pr'[p].onF) /\ \A f \in Items(pr'[p].onF) : f \in Callbacks
       /\ IsSeq(pr'[p].onR) /\ \A f \in Items(pr'[p].onR) : f.cb = "forward"
  BY <1>5, <1>7, NoSteps
<1>22. pr'[p].state \in {"None", "Pending", "Fulfilled", "Rejected"}
  BY <1>7
<1>23. TypeOK' /\ StackInv' /\ KeyInv' /\ CbInv' /\ ListInv' /\ QcInv' /\ ResultInv' /\ SeenInv'
  BY <1>4, <1>10, <1>12, <1>13, <1>14, <1>15, <1>16, <1>17, <1>18, <1>19, <1>20, <1>21, <1>22,
     ChangeStep
<1> QED BY <1>14, <1>3, <1>23 DEF CtlInv

(* reject of a promise that is not settled: of the QC, or of what then     *)
(* returned there.                                                         *)
LEMMA RejectFirst ==
    ASSUME CtlInv, RunReject, pr[Head(stack).p].state \notin {"Fulfilled", "Rejected"}
    PROVE  CtlInv' /\ Grows
<1>1. PICK s : s = Head(stack)
  OBVIOUS
<1>2. PICK p, x, new : p = s.p /\ x = s.v /\ new = Calls(pr[p].onR, x)
  OBVIOUS
<1>3. /\ s.op = "reject" /\ stack # <<>> /\ Do(new)
      /\ pr' = [pr EXCEPT ![p].state = "Rejected", ![p].value = x, ![p].onF = @, ![p].onR = <<>>]
      /\ seen' = seen /\ good' = good /\ setting' = setting /\ waits' = waits /\ thrown' = thrown
  BY <1>1, <1>2 DEF RunReject, Top, Settle, own, threads
<1>4. p \in Promises /\ s = Reject(p, x) /\ RejectOK(p) /\ Key(s) = Free
  BY <1>1, <1>2, <1>3, TopIs, ShapeOf, KeyIs DEF Sound
<1>5. /\ DOMAIN pr = Promises /\ DOMAIN pr[p] = Fields
      /\ IsSeq(pr[p].onF) /\ (\A f \in Items(pr[p].onF) : f \in Callbacks)
      /\ IsSeq(pr[p].onR) /\ (\A f \in Items(pr[p].onR) : f.cb = "forward")
  BY <1>4 DEF CtlInv, TypeOK
<1>6. /\ \A f \in Items(pr[p].onF) : Home(f) = p
      /\ Inj(pr[p].onF) /\ (p[1] = "npm" => pr[p].onR = <<>>)
  BY <1>4 DEF CtlInv, ListInv, ListOK
<1>7. /\ DOMAIN pr' = Promises /\ (\A q \in Promises : q # p => pr'[q] = pr[q])
      /\ DOMAIN pr'[p] = Fields /\ pr'[p].state = "Rejected"
      /\ pr'[p].onF = pr[p].onF /\ pr'[p].onR = <<>>
      /\ pr'[p].size = pr[p].size /\ pr'[p].results = pr[p].results
  BY <1>3, <1>4, <1>5 DEF Fields
<1>8. /\ IsSeq(new) /\ Linear(new) /\ KeysOf(new) = {}
      /\ \A z : z \in Items(new) <=> \E f \in Items(pr[p].onR) : z = Call(f, x)
  BY <1>2, <1>5, CallsAre
<1>9. p[1] # "all" /\ p[1] # "sigs" /\ (p # <<"qc">> => p[1] = "npm")
  BY <1>4 DEF RejectOK, NextNpm
<1>10. /\ IsSeq(stack)' /\ Linear(stack)'
       /\ \A z : z \in Items(stack)' => z \in Items(stack) \/ z \in Items(new)
       /\ \A z : z \in Items(stack) => z = s \/ z \in Items(stack)'
       /\ Keys' = Keys
  <2>1. IsSeq(stack) /\ Linear(stack)
    BY DEF CtlInv, StackInv
  <2>2. /\ IsSeq(stack)' /\ Linear(stack)'
        /\ \A z : z \in Items(stack)' => z \in Items(stack) \/ z \in Items(new)
        /\ \A z : z \in Items(stack) => z = Head(stack) \/ z \in Items(stack)'
        /\ Keys' = (Keys \ {Key(Head(stack))}) \cup KeysOf(new)
    BY <1>3, <1>8, <2>1, Moved
  <2>3. Free \notin Keys
    BY DEF Keys, KeysOf
  <2> QED BY <1>1, <1>4, <1>8, <2>2, <2>3
<1>11. FlagsStay
  <2>1. \A r : p # <<"all", <<"relay", r>>>>
    BY <1>9
  <2> QED BY <1>3, <1>4, <1>7, <1>10, <2>1, FlagsByKeys
<1>12. Changes(p)
  BY <1>1, <1>2, <1>3, <1>7 DEF Changes
<1>13. Grows
  <2>1. \A k \in 1..MaxWaits : Dropped(k) => Dropped(k)'
    <3> SUFFICES ASSUME NEW k \in 1..MaxWaits, Dropped(k) PROVE Dropped(k)'
      OBVIOUS
    <3>1. p # <<"qc">>
      BY <1>1, <1>2 DEF Dropped
    <3>2. pr'[<<"qc">>] = pr[<<"qc">>]
      BY <1>7, <3>1, PromisesThere
    <3> QED BY <1>3, <1>10, <3>2 DEF Dropped
  <2> QED BY <1>4, <1>7, <1>11, <1>12, <2>1, ChangeGrows
<1>14. \A z \in Items(stack)' : z \in Items(stack) \/ (Shape(z) /\ Sound(z)')
  <2> SUFFICES ASSUME NEW z \in Items(new) PROVE Shape(z) /\ Sound(z)'
    BY <1>10
  <2>1. PICK f \in Items(pr[p].onR) : z = Call(f, x)
    BY <1>8
  <2>2. p = <<"qc">>
    BY <1>6, <1>9, <2>1, NoSteps
  <2>3. PICK k \in 1..MaxWaits :
          f = Forward(NextNpm(k)) /\ Continue(<<"next", k>>) \in Items(pr[p].onF)
    BY <1>1, <1>2, <2>1, <2>2 DEF CtlInv, QcInv
  <2> DEFINE g == Continue(<<"next", k>>)
  <2>4. g \in Callbacks /\ Home(g) = p
    BY <1>5, <1>6, <2>3
  <2>5. Waiting(g) /\ CbOK(g)
    BY <2>3, <2>4 DEF Waiting, CtlInv, CbInv
  <2>6. Born(g) /\ ~ Done(g) /\ KCb(g) \notin Keys
    BY <2>5 DEF CbOK, Live
  <2>7. k <= waits /\ seen[<<"next", k>>] = <<>>
    BY <2>6, NextIs
  <2>8. Dropped(k)'
    BY <1>3, <1>7, <1>10, <2>2, <2>6, <2>7 DEF Dropped
  <2>9. RejectOK(NextNpm(k))' /\ NextNpm(k) # <<"qc">> /\ NextNpm(k) \in Promises
    BY <2>8, ContinuationParts, PromisesThere DEF RejectOK, NextNpm
  <2>10. z.op = "call" /\ z.c = f /\ f.cb = "forward" /\ f.p = NextNpm(k)
    BY <2>1, <2>3, OpsDiffer, CallbacksDiffer
  <2>11. Sound(z)'
    BY <2>9, <2>10 DEF Sound
  <2> QED BY <2>1, <2>3, <2>9, <2>11, ItemShapes
<1>15. \A c \in Continuations : Resolve(<<"npm", c>>, "void") \in Items(stack) =>
          Resolve(<<"npm", c>>, "void") \in Items(stack)'
  BY <1>3, <1>10, OpsDiffer
<1>16. ListOK(p)'
  <2>1. RejectOK(p)'
    BY <1>4, <1>13, RejectStays
  <2> QED BY <1>6, <1>7, <2>1 DEF ListOK, Items, Inj
<1>17. CbInv'
  <2> SUFFICES ASSUME NEW f \in Callbacks PROVE CbOK(f)'
    BY DEF CbInv
  <2>1. CbOK(f)
    BY DEF CtlInv, CbInv
  <2>2. Waiting(f)' <=> Waiting(f)
    <3>1. \A q \in Promises : pr'[q].onF = pr[q].onF
      BY <1>7
    <3>2. Home(f) \in Promises
      BY CallbackPlaces
    <3> QED BY <3>1, <3>2 DEF Waiting
  <2>3. Done(f)' <=> Done(f)
    <3>1. \A q \in Alls : pr'[q].results = pr[q].results
      BY <1>7, AllParts
    <3>2. f.cb = "collect" => f.p \in Alls
      BY CallbackOfKind
    <3> QED BY <1>3, <3>1, <3>2 DEF Done
  <2>4. Born(f) => Born(f)'
    BY <1>13, BornStays
  <2> QED BY <1>10, <2>1, <2>2, <2>3, <2>4 DEF CbOK, Live
<1>18. p = <<"qc">> => QcInv'
  <2> HAVE p = <<"qc">>
  <2>1. Items(pr'[<<"qc">>].onR) = {}
    BY <1>7, NoSteps
  <2> QED BY <2>1 DEF QcInv, Items
<1>19. p \notin Alls
  BY <1>9, AllParts
<1>20. /\ IsSeq(pr'[p].onF) /\ \A f \in Items(pr'[p].onF) : f \in Callbacks
       /\ IsSeq(pr'[p].onR) /\ \A f \in Items(pr'[p].onR) : f.cb = "forward"
  BY <1>5, <1>7, NoSteps
<1>21. pr'[p].state \in {"None", "Pending", "Fulfilled", "Rejected"}
  BY <1>7
<1>22. TypeOK' /\ StackInv' /\ KeyInv' /\ CbInv' /\ ListInv' /\ QcInv' /\ ResultInv' /\ SeenInv'
  BY <1>4, <1>10, <1>11, <1>12, <1>13, <1>14, <1>15, <1>16, <1>17, <1>18, <1>19, <1>20, <1>21,
     ChangeStep
<1> QED BY <1>13, <1>3, <1>22 DEF CtlInv

(* A callback is added to a list.                                          *)
LEMMA AppendedIs ==
    ASSUME NEW q, IsSeq(q), NEW f
    PROVE  /\ IsSeq(Append(q, f)) /\ Items(Append(q, f)) = Items(q) \cup {f}
           /\ Inj(q) /\ f \notin Items(q) => Inj(Append(q, f))
<1> DEFINE S == Items(q) \cup {f}
           n == Len(q)
           a == Append(q, f)
<1>1. q \in Seq(S) /\ n \in Nat /\ DOMAIN q = 1..n
  <2>1. q \in Seq(Items(q))
    BY DEF IsSeq
  <2>2. n \in Nat /\ DOMAIN q = 1..n /\ q \in [1..n -> Items(q)]
    BY <2>1, LenProperties
  <2>3. q \in [1..n -> S]
    BY <2>2
  <2> QED BY <2>2, <2>3, SeqDef
<1>2. /\ a \in Seq(S) /\ Len(a) = n + 1 /\ a[n + 1] = f
      /\ \A i \in 1..n : a[i] = q[i]
  <2>1. f \in S
    OBVIOUS
  <2> QED BY <1>1, <2>1, AppendProperties
<1>3. IsSeq(a) /\ DOMAIN a = 1..(n + 1)
  BY <1>2, SeqIsSeq
<1> HIDE DEF a, n, S
<1>4. \A i \in 1..(n + 1) : i = n + 1 \/ i \in 1..n
  BY <1>1
<1>5. n + 1 \in 1..(n + 1) /\ \A i \in 1..n : i \in 1..(n + 1)
  BY <1>1
<1>6. Items(a) = Items(q) \cup {f}
  <2>1. \A i \in 1..(n + 1) : a[i] \in Items(q) \cup {f}
    BY <1>1, <1>2, <1>4 DEF Items
  <2>2. f \in Items(a) /\ \A i \in 1..n : q[i] \in Items(a)
    BY <1>2, <1>3, <1>5 DEF Items
  <2>3. Items(a) \subseteq Items(q) \cup {f}
    BY <1>3, <2>1 DEF Items
  <2>4. Items(q) \subseteq Items(a)
    BY <1>1, <2>2 DEF Items
  <2> QED BY <2>2, <2>3, <2>4
<1>7. ASSUME Inj(q), f \notin Items(q)
      PROVE  Inj(a)
  <2> SUFFICES ASSUME NEW i \in 1..(n + 1), NEW j \in 1..(n + 1), a[i] = a[j] PROVE i = j
    BY <1>3 DEF Inj
  <2>1. \A h \in 1..n : q[h] # f
    BY <1>1, <1>7 DEF Items
  <2>2. CASE i \in 1..n /\ j \in 1..n
    BY <1>1, <1>2, <1>7, <2>2 DEF Inj
  <2> QED BY <1>2, <1>4, <2>1, <2>2
<1> QED BY <1>3, <1>6, <1>7 DEF a

(* Only the continuation of a relay waits at its promise::all.             *)
LEMMA AtRelay ==
    ASSUME NEW f \in Callbacks, NEW r \in Relays, Home(f) = <<"all", <<"relay", r>>>>
    PROVE  f = Continue(<<"relayed", r>>)
<1>1. Home(f)[1] = "all" /\ Home(f)[2] = <<"relay", r>>
  OBVIOUS
<1>2. Home(f)[2][1] = "relay" /\ Home(f)[2][2] = r
  BY <1>1
<1>a. ASSUME NEW p \in Alls, NEW i \in DOMAIN Refs(p), f = Collect(p, i)
      PROVE  FALSE
  <2>1. Home(f)[1] \in RefKinds
    BY <1>a, CollectIs, RefsAre
  <2> QED BY <1>1, <2>1 DEF RefKinds
<1>b. ASSUME NEW o \in Owners, f = Verdict(o)
      PROVE  FALSE
  <2>1. Home(f) = <<"sigs", o>>
    BY <1>b, VerdictIs
  <2> QED BY <1>1, <2>1
<1>c. ASSUME NEW b \in Blocks, f = Continue(<<"fetched", b>>)
      PROVE  FALSE
  <2>1. Home(f) = <<"fetch", b>>
    BY <1>c, FetchedIs
  <2> QED BY <1>1, <2>1
<1>d. ASSUME NEW b \in Blocks, f = Continue(<<"delivery", b>>)
      PROVE  FALSE
  <2>1. Home(f) = <<"all", <<"blk", b>>>>
    BY <1>d, DeliveryIs
  <2>2. Home(f)[2][1] = "blk"
    BY <2>1
  <2> QED BY <1>2, <2>2
<1>e. ASSUME NEW u \in Relays, f = Continue(<<"relayed", u>>)
      PROVE  u = r
  <2>1. Home(f) = <<"all", <<"relay", u>>>>
    BY <1>e, RelayedIs
  <2>2. Home(f)[2][2] = u
    BY <2>1
  <2> QED BY <1>2, <2>2
<1>f. ASSUME NEW k \in 1..MaxWaits, f = Continue(<<"next", k>>)
      PROVE  FALSE
  <2>1. Home(f) = <<"qc">>
    BY <1>f, NextIs
  <2> QED BY <1>1, <2>1
<1> QED BY <1>a, <1>b, <1>c, <1>d, <1>e, <1>f, CallbackParts

(* then at a promise that is not settled.                                  *)
LEMMA ThenLater ==
    ASSUME CtlInv, RunThen, pr[Head(stack).p].state \notin {"Fulfilled", "Rejected"}
    PROVE  CtlInv' /\ Grows
<1>1. PICK s : s = Head(stack)
  OBVIOUS
<1>2. PICK p, f, r : p = s.p /\ f = s.f /\ r = s.r
  OBVIOUS
<1>3. PICK base : base = IF pr[p].state = "None" THEN Made ELSE pr[p]
  OBVIOUS
<1>4. /\ s.op = "then" /\ stack # <<>> /\ Do(<<>>)
      /\ pr' = [pr EXCEPT ![p] = [base EXCEPT !.onF = Append(@, f), !.onR = Append(@, r)]]
      /\ seen' = seen /\ good' = good /\ setting' = setting /\ waits' = waits /\ thrown' = thrown
  BY <1>1, <1>2, <1>3 DEF RunThen, Top, own, threads
<1>5. /\ f \in Callbacks /\ s = Then(p, f, r) /\ p = Home(f) /\ r = Forward(After(f))
      /\ Key(s) = KCb(f) /\ KCb(f) \in Keys
  BY <1>1, <1>2, <1>4, TopIs, ShapeOf, KeyIs, KeysDiffer
<1>6. p \in Promises /\ p[1] # "npm"
  BY <1>5, CallbackPlaces
<1>7. CbOK(f) /\ ~ Waiting(f) /\ Born(f) /\ ~ Done(f)
  BY <1>5 DEF CtlInv, CbInv, CbOK, Live
<1>8. /\ DOMAIN pr = Promises /\ DOMAIN pr[p] = Fields
      /\ IsSeq(pr[p].onF) /\ (\A g \in Items(pr[p].onF) : g \in Callbacks)
      /\ IsSeq(pr[p].onR) /\ (\A g \in Items(pr[p].onR) : g.cb = "forward")
      /\ pr[p].state \in {"None", "Pending", "Fulfilled", "Rejected"}
  BY <1>6 DEF CtlInv, TypeOK
<1>9. /\ DOMAIN base = Fields /\ base.state = "Pending"
      /\ (pr[p].state # "None" => base = pr[p])
      /\ (pr[p].state = "None" => base.onF = <<>> /\ base.onR = <<>>)
  BY <1>1, <1>2, <1>3, <1>8 DEF Made, Unmade, Fields
<1>10. /\ IsSeq(base.onF) /\ (\A g \in Items(base.onF) : g \in Items(pr[p].onF)) /\ Inj(base.onF)
       /\ IsSeq(base.onR) /\ (\A g \in Items(base.onR) : g \in Items(pr[p].onR))
  <2>1. Inj(pr[p].onF)
    BY <1>6 DEF CtlInv, ListInv, ListOK
  <2>2. Inj(<<>>)
    BY DEF Inj
  <2> QED BY <1>8, <1>9, <2>1, <2>2, NoSteps
<1>11. /\ DOMAIN pr' = Promises /\ (\A q \in Promises : q # p => pr'[q] = pr[q])
       /\ DOMAIN pr'[p] = Fields /\ pr'[p].state = "Pending"
       /\ pr'[p].onF = Append(base.onF, f) /\ pr'[p].onR = Append(base.onR, r)
       /\ pr'[p].size = base.size /\ pr'[p].results = base.results
  BY <1>4, <1>6, <1>8, <1>9 DEF Fields
<1>12. /\ IsSeq(pr'[p].onF) /\ Items(pr'[p].onF) = Items(base.onF) \cup {f} /\ Inj(pr'[p].onF)
       /\ IsSeq(pr'[p].onR) /\ Items(pr'[p].onR) = Items(base.onR) \cup {r}
  <2>1. f \notin Items(base.onF)
    BY <1>5, <1>7, <1>10 DEF Waiting
  <2> QED BY <1>10, <1>11, <2>1, AppendedIs
<1>13. /\ IsSeq(stack)' /\ Linear(stack)'
       /\ \A z : z \in Items(stack)' => z \in Items(stack)
       /\ \A z : z \in Items(stack) => z = s \/ z \in Items(stack)'
       /\ Keys' = Keys \ {KCb(f)}
  <2>1. IsSeq(stack) /\ Linear(stack)
    BY DEF CtlInv, StackInv
  <2>2. /\ IsSeq(stack)' /\ Linear(stack)'
        /\ \A z : z \in Items(stack)' => z \in Items(stack) \/ z \in Items(<<>>)
        /\ \A z : z \in Items(stack) => z = Head(stack) \/ z \in Items(stack)'
        /\ Keys' = (Keys \ {Key(Head(stack))}) \cup KeysOf(<<>>)
    BY <1>4, <2>1, NoSteps, Moved
  <2> QED BY <1>1, <1>5, <2>2, NoSteps
<1>14. \A z : /\ KVerify(z) \in Keys' <=> KVerify(z) \in Keys
              /\ KAll(z) \in Keys' <=> KAll(z) \in Keys
              /\ KCb(z) \in Keys' <=> KCb(z) \in Keys /\ z # f
  BY <1>13, KeysDiffer
<1>15. FlagsStay
  <2>1. \A u \in Relays : p = <<"all", <<"relay", u>>>> => Started(<<"relay", u>>)
    BY <1>5, <1>7, AtRelay, RelayedIs
  <2>2. pr'[p].state # "None"
    BY <1>11
  <2> QED BY <1>4, <1>6, <1>11, <1>14, <2>1, <2>2, FlagsByKeys
<1>16. Changes(p)
  BY <1>1, <1>2, <1>4, <1>11 DEF Changes
<1>17. p \in Alls /\ AllRun(p) => ResultOK(p) /\ base = pr[p]
  BY <1>9 DEF CtlInv, ResultInv, ResultOK
<1>18. Grows
  <2>1. \A k \in 1..MaxWaits : Dropped(k) => Dropped(k)'
    <3> SUFFICES ASSUME NEW k \in 1..MaxWaits, Dropped(k) PROVE Dropped(k)'
      OBVIOUS
    <3>1. p # <<"qc">>
      BY <1>1, <1>2 DEF Dropped
    <3>2. pr'[<<"qc">>] = pr[<<"qc">>]
      BY <1>11, <3>1, PromisesThere
    <3> QED BY <1>4, <1>14, <3>2 DEF Dropped
  <2>2. p \in Alls /\ AllRun(p) /\ Full(p) => pr'[p].results = pr[p].results
    BY <1>11, <1>17
  <2> QED BY <1>6, <1>15, <1>16, <2>1, <2>2, ChangeGrows
<1>19. \A c \in Continuations : Resolve(<<"npm", c>>, "void") \in Items(stack) =>
          Resolve(<<"npm", c>>, "void") \in Items(stack)'
  BY <1>4, <1>13, OpsDiffer
<1>20. ListOK(p)'
  <2>1. \A g \in Items(pr[p].onF) : Home(g) = p
    BY <1>6 DEF CtlInv, ListInv, ListOK
  <2>2. \A g \in Items(pr'[p].onF) : Home(g) = p
    BY <1>5, <1>10, <1>12, <2>1
  <2> QED BY <1>6, <1>11, <1>12, <2>2 DEF ListOK, Items, Inj
<1>21. CbInv'
  <2> SUFFICES ASSUME NEW g \in Callbacks PROVE CbOK(g)'
    BY DEF CbInv
  <2>1. CbOK(g)
    BY DEF CtlInv, CbInv
  <2>2. Waiting(g)' => Waiting(g) \/ g = f
    <3>1. Home(g) \in Promises
      BY CallbackPlaces
    <3>2. CASE Home(g) = p
      BY <1>10, <1>12, <3>2 DEF Waiting
    <3>3. CASE Home(g) # p
      BY <1>11, <3>1, <3>3 DEF Waiting
    <3> QED BY <3>2, <3>3
  <2>3. g.cb # "collect" => (Done(g)' <=> Done(g))
    BY <1>4 DEF Done
  <2>4. g.cb = "collect" /\ Born(g) /\ ~ Done(g) => ~ Done(g)'
    <3> HAVE g.cb = "collect" /\ Born(g) /\ ~ Done(g)
    <3>1. g.p \in Alls /\ AllRun(g.p) /\ g.p \in Promises
      BY CallbackOfKind, AllParts DEF Born
    <3>2. pr'[g.p].results = pr[g.p].results
      BY <1>11, <1>17, <3>1
    <3> QED BY <3>2 DEF Done
  <2>5. Born(g) => Born(g)'
    BY <1>18, BornStays
  <2>6. KCb(g) \in Keys' <=> KCb(g) \in Keys /\ g # f
    BY <1>14
  <2> QED BY <1>7, <2>1, <2>2, <2>3, <2>4, <2>5, <2>6 DEF CbOK, Live
<1>22. p = <<"qc">> => QcInv'
  <2> HAVE p = <<"qc">>
  <2>1. PICK k \in 1..MaxWaits : f = Continue(<<"next", k>>)
    BY <1>5, CallbackPlaces
  <2>2. r = Forward(NextNpm(k))
    BY <1>5, <2>1, NextIs DEF NextNpm
  <2>3. ASSUME NEW g \in Items(pr'[p].onR)
        PROVE  \E j \in 1..MaxWaits : /\ g = Forward(NextNpm(j))
                                      /\ Continue(<<"next", j>>) \in Items(pr'[p].onF)
    <3>1. CASE g = r
      BY <1>12, <2>1, <2>2, <3>1
    <3>2. CASE g # r
      <4>1. g \in Items(base.onR) /\ pr[p].state # "None" /\ base = pr[p]
        BY <1>9, <1>12, <3>2, NoSteps
      <4>2. pr[p].state # "Fulfilled"
        BY <1>1, <1>2
      <4> QED BY <1>12, <4>1, <4>2 DEF CtlInv, QcInv
    <3> QED BY <3>1, <3>2
  <2> QED BY <2>3 DEF QcInv, Items
<1>23. p \in Alls /\ AllRun(p) => ResultOK(p)'
  <2> HAVE p \in Alls /\ AllRun(p)
  <2>1. ResultOK(p) /\ pr'[p].results = pr[p].results /\ pr'[p].size = pr[p].size /\ pr'[p].state # "None"
    BY <1>11, <1>17
  <2> QED BY <1>18, <2>1, ResultStays
<1>24. /\ \A g \in Items(pr'[p].onF) : g \in Callbacks
       /\ \A g \in Items(pr'[p].onR) : g.cb = "forward"
  BY <1>5, <1>8, <1>10, <1>12, CallbacksDiffer
<1>25. pr'[p].state \in {"None", "Pending", "Fulfilled", "Rejected"}
  BY <1>11
<1>26. TypeOK' /\ StackInv' /\ KeyInv' /\ CbInv' /\ ListInv' /\ QcInv' /\ ResultInv' /\ SeenInv'
  BY <1>6, <1>12, <1>13, <1>15, <1>16, <1>18, <1>19, <1>20, <1>21, <1>22, <1>23, <1>24, <1>25,
     ChangeStep
<1> QED BY <1>18, <1>4, <1>26 DEF CtlInv

(* async_deliver_blk for a block that nobody has asked for.                *)
LEMMA DeliverFirst ==
    ASSUME CtlInv, RunDeliver, pr[<<"deliver", Head(stack).b>>].state = "None"
    PROVE  CtlInv' /\ Grows
<1>1. PICK s : s = Head(stack)
  OBVIOUS
<1>2. PICK b, p, f : b = s.b /\ p = <<"deliver", b>> /\ f = Continue(<<"fetched", b>>)
  OBVIOUS
<1>3. s.op = "deliver" /\ stack # <<>>
  BY <1>1 DEF RunDeliver, Top
<1>4. b \in Blocks /\ s = Deliver(b) /\ Key(s) = Free
  BY <1>1, <1>2, <1>3, TopIs, ShapeOf, KeyIs
<1>5. /\ f \in Callbacks /\ Home(f) = <<"fetch", b>> /\ After(f) = <<"npm", <<"fetched", b>>>>
      /\ f.cb = "fetched" /\ f.id = b
  BY <1>2, <1>4, ContinuationParts, CallbacksThere, FetchedIs
<1>6. PICK a : a = Then(Home(f), f, Forward(After(f)))
  OBVIOUS
<1>7. /\ Do(<<a>>) /\ pr' = [pr EXCEPT ![p] = Made]
      /\ seen' = seen /\ good' = good /\ setting' = setting /\ waits' = waits /\ thrown' = thrown
  BY <1>1, <1>2, <1>5, <1>6 DEF RunDeliver, ThenDo, own, threads
<1>8. p \in Promises /\ p \notin Alls /\ p # <<"qc">> /\ p[1] = "deliver"
  BY <1>2, <1>4, PromisesThere, AllParts
<1>9. /\ DOMAIN pr' = Promises /\ (\A q \in Promises : q # p => pr'[q] = pr[q])
      /\ pr'[p] = Made
  BY <1>7, <1>8 DEF CtlInv, TypeOK
<1>10. /\ DOMAIN pr'[p] = Fields /\ pr'[p].state = "Pending" /\ pr'[p].onF = <<>> /\ pr'[p].onR = <<>>
  BY <1>9 DEF Made, Unmade, Fields
<1>11. ~ Live(f) /\ ~ Done(f)
  <2>1. ~ Born(f)
    BY <1>1, <1>2, <1>5 DEF Born
  <2> QED BY <1>5, <2>1 DEF CtlInv, CbInv, CbOK
<1>12. Key(a) = KCb(f) /\ Shape(a) /\ Sound(a)
  BY <1>5, <1>6, KeyIs, ItemShapes, ItemSounds
<1>13. IsSeq(<<a>>) /\ Linear(<<a>>) /\ Items(<<a>>) = {a} /\ KeysOf(<<a>>) = {KCb(f)}
  BY <1>12, OneStep, KeysDiffer
<1>14. /\ IsSeq(stack)' /\ Linear(stack)'
       /\ \A z : z \in Items(stack)' => z \in Items(stack) \/ z = a
       /\ \A z : z \in Items(stack) => z = s \/ z \in Items(stack)'
       /\ Keys' = Keys \cup {KCb(f)}
  <2>1. IsSeq(stack) /\ Linear(stack)
    BY DEF CtlInv, StackInv
  <2>2. KCb(f) \notin Keys
    BY <1>11 DEF Live
  <2>3. \A k \in KeysOf(<<a>>) : k \in Keys => k = Key(Head(stack))
    BY <1>13, <2>2
  <2>4. /\ IsSeq(stack)' /\ Linear(stack)'
        /\ \A z : z \in Items(stack)' => z \in Items(stack) \/ z \in Items(<<a>>)
        /\ \A z : z \in Items(stack) => z = Head(stack) \/ z \in Items(stack)'
        /\ Keys' = (Keys \ {Key(Head(stack))}) \cup KeysOf(<<a>>)
    BY <1>3, <1>7, <1>13, <2>1, <2>3, Moved
  <2>5. Free \notin Keys
    BY DEF Keys, KeysOf
  <2> QED BY <1>1, <1>4, <1>13, <2>4, <2>5
<1>15. \A z : /\ KVerify(z) \in Keys' <=> KVerify(z) \in Keys
              /\ KAll(z) \in Keys' <=> KAll(z) \in Keys
              /\ KCb(z) \in Keys' <=> KCb(z) \in Keys \/ z = f
  BY <1>14, KeysDiffer
<1>16. FlagsStay
  <2>1. \A r : p # <<"all", <<"relay", r>>>>
    BY <1>8
  <2>2. pr'[p].state # "None"
    BY <1>10
  <2> QED BY <1>7, <1>8, <1>9, <1>15, <2>1, <2>2, FlagsByKeys
<1>17. Changes(p)
  BY <1>1, <1>2, <1>7, <1>9, <1>10 DEF Changes
<1>18. Grows
  <2>1. \A k \in 1..MaxWaits : Dropped(k) => Dropped(k)'
    <3> SUFFICES ASSUME NEW k \in 1..MaxWaits, Dropped(k) PROVE Dropped(k)'
      OBVIOUS
    <3>1. pr'[<<"qc">>] = pr[<<"qc">>]
      BY <1>8, <1>9, PromisesThere
    <3>2. Continue(<<"next", k>>) # f
      BY <1>5, NextIs
    <3> QED BY <1>7, <1>15, <3>1, <3>2 DEF Dropped
  <2> QED BY <1>8, <1>16, <1>17, <2>1, ChangeGrows
<1>19. \A z \in Items(stack)' : z \in Items(stack) \/ (Shape(z) /\ Sound(z)')
  BY <1>12, <1>14, <1>18, SoundStays
<1>20. \A c \in Continuations : Resolve(<<"npm", c>>, "void") \in Items(stack) =>
          Resolve(<<"npm", c>>, "void") \in Items(stack)'
  BY <1>3, <1>14, OpsDiffer
<1>21. Items(<<>>) = {} /\ IsSeq(<<>>) /\ Inj(<<>>)
  BY NoSteps DEF Inj
<1>22. ListOK(p)'
  BY <1>8, <1>10, <1>21 DEF ListOK, Items, Inj
<1>23. CbInv'
  <2> SUFFICES ASSUME NEW g \in Callbacks PROVE CbOK(g)'
    BY DEF CbInv
  <2>1. CbOK(g)
    BY DEF CtlInv, CbInv
  <2>2. Waiting(g)' => Waiting(g)
    <3>1. Home(g) \in Promises
      BY CallbackPlaces
    <3>2. CASE Home(g) = p
      BY <1>10, <1>21, <3>2 DEF Waiting
    <3>3. CASE Home(g) # p
      BY <1>9, <3>1, <3>3 DEF Waiting
    <3> QED BY <3>2, <3>3
  <2>3. Done(g)' <=> Done(g)
    <3>1. \A q \in Alls : pr'[q].results = pr[q].results
      BY <1>8, <1>9, AllParts
    <3>2. g.cb = "collect" => g.p \in Alls
      BY CallbackOfKind
    <3> QED BY <1>7, <3>1, <3>2 DEF Done
  <2>4. Born(g) => Born(g)'
    BY <1>18, BornStays
  <2>5. Born(f)'
    BY <1>2, <1>5, <1>10 DEF Born
  <2>6. KCb(g) \in Keys' <=> KCb(g) \in Keys \/ g = f
    BY <1>15
  <2> QED BY <1>11, <2>1, <2>2, <2>3, <2>4, <2>5, <2>6 DEF CbOK, Live
<1>24. pr'[p].state \in {"None", "Pending", "Fulfilled", "Rejected"}
  BY <1>10
<1>25. /\ IsSeq(pr'[p].onF) /\ \A g \in Items(pr'[p].onF) : g \in Callbacks
       /\ IsSeq(pr'[p].onR) /\ \A g \in Items(pr'[p].onR) : g.cb = "forward"
  BY <1>10, <1>21
<1>26. TypeOK' /\ StackInv' /\ KeyInv' /\ CbInv' /\ ListInv' /\ QcInv' /\ ResultInv' /\ SeenInv'
  BY <1>8, <1>14, <1>16, <1>17, <1>18, <1>19, <1>20, <1>22, <1>23, <1>24, <1>25,
     ChangeStep
<1> QED BY <1>18, <1>7, <1>26 DEF CtlInv

(* What a task, a certificate or a block resolves to is not empty.         *)
LEMMA RefValue ==
    ASSUME CtlInv, NEW q \in Promises, q[1] \in RefKinds, NEW x, ValueOK(q, x)
    PROVE  x # Empty
<1>1. CASE q[1] = "task"
  <2>1. q \in Tasks
    BY <1>1, PromiseParts
  <2>2. good[q] \in {"true", "false"}
    BY <2>1 DEF CtlInv, TypeOK
  <2> QED BY <1>1, <2>2 DEF ValueOK, Empty
<1>2. CASE q[1] # "task"
  BY <1>2 DEF ValueOK, Empty, RefKinds
<1> QED BY <1>1, <1>2

(* A list in which one entry is replaced.                                  *)
LEMMA Replaced ==
    ASSUME NEW S, NEW r, NEW i \in S, r = [j \in S |-> r[j]], NEW x
    PROVE  /\ [r EXCEPT ![i] = x] = [j \in S |-> [r EXCEPT ![i] = x][j]]
           /\ [r EXCEPT ![i] = x][i] = x
           /\ \A j \in S : j # i => [r EXCEPT ![i] = x][j] = r[j]
<1>1. DOMAIN r = S
  OBVIOUS
<1> QED BY <1>1

(* One element less.                                                       *)
LEMMA Missing ==
    ASSUME NEW n \in Nat, NEW A \in SUBSET (1..n), NEW i \in A
    PROVE  /\ Cardinality(A) \in Nat /\ Cardinality(A \ {i}) = Cardinality(A) - 1
           /\ Cardinality(A) = 1 => A \ {i} = {}
<1>1. IsFiniteSet(1..n)
  BY FS_Interval
<1>2. IsFiniteSet(A)
  BY <1>1, FS_Subset
<1>3. Cardinality(A) \in Nat /\ Cardinality(A \ {i}) = Cardinality(A) - 1 /\ IsFiniteSet(A \ {i})
  BY <1>2, FS_RemoveElement, FS_CardinalityType
<1> QED BY <1>3, FS_EmptySet

(* A result comes in for promise::all.                                     *)
LEMMA CollectStep ==
    ASSUME CtlInv, CallCollect
    PROVE  CtlInv' /\ Grows
<1>1. PICK s : s = Head(stack)
  OBVIOUS
<1>2. PICK f, p, i, x : f = s.c /\ p = f.p /\ i = f.i /\ x = s.v
  OBVIOUS
<1>3. PICK r, new : /\ r = [pr[p].results EXCEPT ![i] = x]
                    /\ new = IF pr[p].size = 1 THEN <<Resolve(p, r)>> ELSE <<>>
  OBVIOUS
<1>4. /\ s.op = "call" /\ f.cb = "collect" /\ stack # <<>> /\ Do(new)
      /\ pr' = [pr EXCEPT ![p].results = r, ![p].size = pr[p].size - 1]
      /\ seen' = seen /\ good' = good /\ setting' = setting /\ waits' = waits /\ thrown' = thrown
  BY <1>1, <1>2, <1>3 DEF CallCollect, Calling, Top, cb, v, own, rest
<1>5. f \in Callbacks /\ s = Call(f, x) /\ Sound(s)
  <2>1. Shape(s) /\ Sound(s)
    BY <1>1, <1>4, TopIs
  <2>2. s = Call(f, x) /\ (f \in Callbacks \/ f = Forward(f.p))
    BY <1>2, <1>4, <2>1, ShapeOf
  <2>3. Forward(f.p).cb = "forward"
    BY CallbacksDiffer
  <2> QED BY <1>4, <2>1, <2>2, <2>3
<1>6. p \in Alls /\ i \in DOMAIN Refs(p) /\ f = Collect(p, i) /\ Home(f) = Refs(p)[i]
  <2>1. p \in Alls /\ i \in DOMAIN Refs(p) /\ f = Collect(p, i)
    BY <1>2, <1>4, <1>5, CallbackOfKind
  <2> QED BY <2>1, CollectIs
<1>7. p \in Promises /\ p[1] \in {"sigs", "all"} /\ p[2] \in Owners /\ p = <<p[1], p[2]>>
  BY <1>6, AllParts
<1>8. Key(s) = KCb(f) /\ KCb(f) \in Keys
  BY <1>1, <1>4, <1>5, KeyIs, TopIs, KeysDiffer
<1>9. CbOK(f) /\ AllRun(p) /\ pr[p].results[i] = Empty
  <2>1. CbOK(f) /\ Born(f) /\ ~ Done(f)
    BY <1>5, <1>8 DEF CtlInv, CbInv, CbOK, Live
  <2> QED BY <1>6, <2>1, CollectIs
<1>10. ResultOK(p)
  BY <1>6, <1>9 DEF CtlInv, ResultInv
<1>11. pr[Refs(p)[i]].state = "Fulfilled" /\ pr[Refs(p)[i]].value = x
  BY <1>2, <1>4, <1>5, <1>6 DEF Sound
<1>12. x # Empty
  <2>1. Refs(p)[i] \in Promises /\ Refs(p)[i][1] \in RefKinds
    BY <1>6, RefsAre
  <2>2. ValueOK(Refs(p)[i], x)
    BY <1>11, <2>1 DEF CtlInv, ListInv, ListOK
  <2> QED BY <2>1, <2>2, RefValue
<1>13. PICK n \in Nat : DOMAIN Refs(p) = 1..n
  BY <1>6, RefsAre, LenProperties
<1> DEFINE A == {j \in 1..n : pr[p].results[j] = Empty}
           B == {j \in 1..n : r[j] = Empty}
<1>14. pr[p].size = Cardinality(A) /\ pr[p].results = [j \in 1..n |-> pr[p].results[j]]
  BY <1>10, <1>13 DEF ResultOK
<1>15. /\ r = [j \in 1..n |-> r[j]] /\ r[i] = x
       /\ \A j \in 1..n : j # i => r[j] = pr[p].results[j]
       /\ Cardinality(A) \in Nat
       /\ Cardinality(B) = Cardinality(A) - 1
       /\ Cardinality(A) = 1 => \A j \in 1..n : r[j] # Empty
  <2>1. PICK r0 : r0 = pr[p].results
    OBVIOUS
  <2>2. r0 = [j \in 1..n |-> r0[j]] /\ r0[i] = Empty /\ i \in 1..n
    BY <1>6, <1>9, <1>13, <1>14, <2>1
  <2>3. r = [r0 EXCEPT ![i] = x]
    BY <1>3, <2>1
  <2>4. /\ r = [j \in 1..n |-> r[j]] /\ r[i] = x
        /\ \A j \in 1..n : j # i => r[j] = r0[j]
    <3>1. /\ [r0 EXCEPT ![i] = x] = [j \in 1..n |-> [r0 EXCEPT ![i] = x][j]]
          /\ [r0 EXCEPT ![i] = x][i] = x
          /\ \A j \in 1..n : j # i => [r0 EXCEPT ![i] = x][j] = r0[j]
      BY <2>2, Replaced
    <3> QED BY <3>1, <2>3
  <2>5. A \in SUBSET (1..n) /\ i \in A /\ B = A \ {i}
    BY <1>12, <2>1, <2>2, <2>4
  <2>6. B = {} => \A j \in 1..n : r[j] # Empty
    OBVIOUS
  <2> HIDE DEF A, B
  <2>7. /\ Cardinality(A) \in Nat /\ Cardinality(B) = Cardinality(A) - 1
        /\ Cardinality(A) = 1 => B = {}
    BY <2>5, Missing
  <2> QED BY <2>1, <2>4, <2>6, <2>7
<1>16. /\ DOMAIN pr = Promises /\ DOMAIN pr[p] = Fields
       /\ IsSeq(pr[p].onF) /\ (\A g \in Items(pr[p].onF) : g \in Callbacks)
       /\ IsSeq(pr[p].onR) /\ (\A g \in Items(pr[p].onR) : g.cb = "forward")
       /\ pr[p].state \in {"None", "Pending", "Fulfilled", "Rejected"}
  BY <1>7 DEF CtlInv, TypeOK
<1>17. /\ DOMAIN pr' = Promises /\ (\A q \in Promises : q # p => pr'[q] = pr[q])
       /\ DOMAIN pr'[p] = Fields /\ pr'[p].state = pr[p].state /\ pr'[p].value = pr[p].value
       /\ pr'[p].onF = pr[p].onF /\ pr'[p].onR = pr[p].onR
       /\ pr'[p].size = pr[p].size - 1 /\ pr'[p].results = r
  BY <1>4, <1>7, <1>16 DEF Fields
<1>18. pr[p].state # "Fulfilled"
  <2> SUFFICES ASSUME pr[p].state = "Fulfilled" PROVE FALSE
    OBVIOUS
  <2>1. ValueOK(p, pr[p].value)
    BY <1>7 DEF CtlInv, ListInv, ListOK
  <2>2. pr[p].results[i] # Empty
    BY <1>6, <1>7, <2>1 DEF ValueOK
  <2> QED BY <1>9, <2>2
<1>19. /\ IsSeq(new) /\ Linear(new) /\ KeysOf(new) = {}
       /\ \A z \in Items(new) : z = Resolve(p, r) /\ pr[p].size = 1
  <2>1. CASE pr[p].size = 1
    <3>1. Key(Resolve(p, r)) = Free
      BY KeyIs
    <3> QED BY <1>3, <2>1, <3>1, OneStep
  <2>2. CASE pr[p].size # 1
    BY <1>3, <2>2, NoSteps
  <2> QED BY <2>1, <2>2
<1>20. /\ IsSeq(stack)' /\ Linear(stack)'
       /\ \A z : z \in Items(stack)' => z \in Items(stack) \/ z \in Items(new)
       /\ \A z : z \in Items(stack) => z = s \/ z \in Items(stack)'
       /\ Keys' = Keys \ {KCb(f)}
  <2>1. IsSeq(stack) /\ Linear(stack)
    BY DEF CtlInv, StackInv
  <2>2. /\ IsSeq(stack)' /\ Linear(stack)'
        /\ \A z : z \in Items(stack)' => z \in Items(stack) \/ z \in Items(new)
        /\ \A z : z \in Items(stack) => z = Head(stack) \/ z \in Items(stack)'
        /\ Keys' = (Keys \ {Key(Head(stack))}) \cup KeysOf(new)
    BY <1>4, <1>19, <2>1, Moved
  <2> QED BY <1>1, <1>8, <1>19, <2>2
<1>21. \A z : /\ KVerify(z) \in Keys' <=> KVerify(z) \in Keys
              /\ KAll(z) \in Keys' <=> KAll(z) \in Keys
              /\ KCb(z) \in Keys' <=> KCb(z) \in Keys /\ z # f
  BY <1>20, KeysDiffer
<1>22. FlagsStay
  <2>1. \A u \in Relays : p = <<"all", <<"relay", u>>>> => Started(<<"relay", u>>)
    <3> SUFFICES ASSUME NEW u \in Relays, p = <<"all", <<"relay", u>>>>
                 PROVE  Started(<<"relay", u>>)
      OBVIOUS
    <3>1. p[1] = "all" /\ p[2] = <<"relay", u>>
      OBVIOUS
    <3> QED BY <1>9, <3>1 DEF AllRun, AllBorn
  <2> QED BY <1>4, <1>7, <1>17, <1>21, <2>1, FlagsByKeys
<1>23. Changes(p)
  BY <1>4, <1>17, <1>18 DEF Changes
<1>24. p # <<"qc">> /\ p[1] # "npm"
  BY <1>7
<1>25. Grows
  <2>1. \A k \in 1..MaxWaits : Dropped(k) => Dropped(k)'
    <3> SUFFICES ASSUME NEW k \in 1..MaxWaits, Dropped(k) PROVE Dropped(k)'
      OBVIOUS
    <3>1. pr'[<<"qc">>] = pr[<<"qc">>]
      BY <1>17, <1>24, PromisesThere
    <3> QED BY <1>4, <1>21, <3>1 DEF Dropped
  <2>2. ~ Full(p)
    BY <1>6, <1>9 DEF Full
  <2> QED BY <1>7, <1>22, <1>23, <2>1, <2>2, ChangeGrows
<1>26. \A z \in Items(stack)' : z \in Items(stack) \/ (Shape(z) /\ Sound(z)')
  <2> SUFFICES ASSUME NEW z \in Items(new) PROVE Shape(z) /\ Sound(z)'
    BY <1>20
  <2>1. z = Resolve(p, r) /\ pr[p].size = 1
    BY <1>19
  <2>2. \A j \in DOMAIN Refs(p) : r[j] # Empty
    BY <1>13, <1>14, <1>15, <2>1
  <2>3. AllRun(p)'
    BY <1>6, <1>9, <1>25 DEF Grows
  <2>4. ValueOK(p, r)'
    BY <1>6, <1>7, <1>17, <2>2, <2>3 DEF ValueOK
  <2>5. z.op = "resolve" /\ z.p = p /\ z.v = r
    BY <2>1, OpsDiffer
  <2>6. Sound(z)'
    BY <2>4, <2>5 DEF Sound
  <2> QED BY <1>7, <2>1, <2>6, ItemShapes
<1>27. \A c \in Continuations : Resolve(<<"npm", c>>, "void") \in Items(stack) =>
          Resolve(<<"npm", c>>, "void") \in Items(stack)'
  BY <1>4, <1>20, OpsDiffer
<1>28. ListOK(p)'
  <2>1. ListOK(p)
    BY <1>7 DEF CtlInv, ListInv
  <2>2. pr[p].state # "Rejected"
    <3>1. ~ RejectOK(p)
      BY <1>24 DEF RejectOK, NextNpm
    <3> QED BY <2>1, <3>1 DEF ListOK
  <2> QED BY <1>17, <1>18, <1>24, <2>1, <2>2 DEF ListOK, Items, Inj
<1>29. CbInv'
  <2> SUFFICES ASSUME NEW g \in Callbacks PROVE CbOK(g)'
    BY DEF CbInv
  <2>1. CbOK(g)
    BY DEF CtlInv, CbInv
  <2>2. Waiting(g)' <=> Waiting(g)
    <3>1. Home(g) \in Promises
      BY CallbackPlaces
    <3>2. \A q \in Promises : pr'[q].onF = pr[q].onF
      BY <1>17
    <3> QED BY <3>1, <3>2 DEF Waiting
  <2>3. g.cb # "collect" => (Done(g)' <=> Done(g))
    BY <1>4 DEF Done
  <2>4. g.cb = "collect" /\ g # f /\ ~ Done(g) => ~ Done(g)'
    <3> HAVE g.cb = "collect" /\ g # f /\ ~ Done(g)
    <3>1. g.p \in Alls /\ g.i \in DOMAIN Refs(g.p) /\ g = Collect(g.p, g.i) /\ g.p \in Promises
      BY CallbackOfKind, AllParts
    <3>2. CASE g.p # p
      BY <1>17, <3>1, <3>2 DEF Done
    <3>3. CASE g.p = p
      <4>1. g.i # i /\ g.i \in 1..n
        BY <1>6, <1>13, <3>1, <3>3
      <4>2. pr'[p].results[g.i] = pr[p].results[g.i]
        BY <1>15, <1>17, <4>1
      <4> QED BY <3>3, <4>2 DEF Done
    <3> QED BY <3>2, <3>3
  <2>5. Born(g) => Born(g)'
    BY <1>25, BornStays
  <2>6. KCb(g) \in Keys' <=> KCb(g) \in Keys /\ g # f
    BY <1>21
  <2>7. ~ Waiting(f)
    BY <1>8, <1>9 DEF CbOK
  <2> QED BY <2>1, <2>2, <2>3, <2>4, <2>5, <2>6, <2>7 DEF CbOK, Live
<1>30. ResultOK(p)'
  <2>1. pr'[p].results = [j \in DOMAIN Refs(p) |-> pr'[p].results[j]]
    BY <1>13, <1>15, <1>17
  <2>2. pr'[p].size = Cardinality({j \in DOMAIN Refs(p) : pr'[p].results[j] = Empty})
    BY <1>13, <1>14, <1>15, <1>17
  <2>3. \A j \in DOMAIN Refs(p) : pr'[p].results[j] # Empty =>
           /\ pr'[Refs(p)[j]].state = "Fulfilled"
           /\ pr'[Refs(p)[j]].value = pr'[p].results[j]
    <3> SUFFICES ASSUME NEW j \in DOMAIN Refs(p), r[j] # Empty
                 PROVE  /\ pr'[Refs(p)[j]].state = "Fulfilled"
                        /\ pr'[Refs(p)[j]].value = r[j]
      BY <1>17
    <3>1. Refs(p)[j] \in Promises
      BY <1>6, RefsAre
    <3>2. pr[Refs(p)[j]].state = "Fulfilled" /\ pr[Refs(p)[j]].value = r[j]
      <4>1. CASE j = i
        BY <1>11, <1>15, <4>1
      <4>2. CASE j # i
        <5>1. r[j] = pr[p].results[j]
          BY <1>13, <1>15, <4>2
        <5> QED BY <1>10, <5>1 DEF ResultOK
      <4> QED BY <4>1, <4>2
    <3> QED BY <1>25, <3>1, <3>2 DEF Grows
  <2>4. pr'[p].state # "None"
    BY <1>10, <1>17 DEF ResultOK
  <2> QED BY <2>1, <2>2, <2>3, <2>4 DEF ResultOK
<1>31. TypeOK' /\ StackInv' /\ KeyInv' /\ CbInv' /\ ListInv' /\ QcInv' /\ ResultInv' /\ SeenInv'
  <2>1. /\ IsSeq(pr'[p].onF) /\ \A g \in Items(pr'[p].onF) : g \in Callbacks
        /\ IsSeq(pr'[p].onR) /\ \A g \in Items(pr'[p].onR) : g.cb = "forward"
        /\ pr'[p].state \in {"None", "Pending", "Fulfilled", "Rejected"}
    BY <1>16, <1>17
  <2> QED BY <1>7, <1>20, <1>22, <1>23, <1>24, <1>25, <1>26, <1>27, <1>28, <1>29, <1>30, <2>1,
             ChangeStep
<1> QED BY <1>25, <1>4, <1>31 DEF CtlInv

(* A step that makes the promises of P and leaves the others alone, and    *)
(* that takes a callback from the stack only to call it.                   *)
Makes(P) ==
    /\ P \subseteq Promises /\ <<"qc">> \notin P
    /\ DOMAIN pr' = Promises /\ \A q \in Promises : q \notin P => pr'[q] = pr[q]
    /\ \A q \in P : /\ DOMAIN pr'[q] = Fields /\ pr'[q].onF = <<>> /\ pr'[q].onR = <<>>
                    /\ pr'[q].state \in {"Pending", "Fulfilled"}
                    /\ pr'[q].state = "Fulfilled" => ValueOK(q, pr[q].value)'
    /\ good' = good /\ setting' = setting /\ waits' = waits
    /\ DOMAIN seen' = Continuations
    /\ \A c \in Continuations : seen'[c] = <<>> \/ \E x : seen'[c] = <<x>>

(* What such a step has to show of the callbacks.                          *)
Begins ==
    \A g \in Callbacks :
        /\ KCb(g) \in Keys' => KCb(g) \in Keys \/ (~ Live(g) /\ Born(g)' /\ ~ Done(g)')
        /\ Done(g)' => Done(g) \/ (KCb(g) \in Keys /\ KCb(g) \notin Keys')

(* Making promises keeps the invariant if the callbacks that begin are new *)
(* and the flags are right.                                                *)
LEMMA MakeStep ==
    ASSUME CtlInv, Grows, NEW P, Makes(P), Begins, IsSeq(stack)', Linear(stack)',
           \A s \in Items(stack)' : s \in Items(stack) \/ (Shape(s) /\ Sound(s)'),
           KeyInv', SeenInv',
           \A p \in Alls : AllRun(p)' /\ (~ AllRun(p) \/ p \in P) => ResultOK(p)'
    PROVE  TypeOK' /\ StackInv' /\ KeyInv' /\ CbInv' /\ ListInv' /\ QcInv' /\ ResultInv' /\ SeenInv'
<1>0. Items(<<>>) = {} /\ IsSeq(<<>>) /\ Inj(<<>>)
  BY NoSteps DEF Inj
<1>1. TypeOK'
  <2>1. ASSUME NEW q \in Promises
        PROVE  /\ DOMAIN pr'[q] = Fields
               /\ pr'[q].state \in {"None", "Pending", "Fulfilled", "Rejected"}
               /\ IsSeq(pr'[q].onF) /\ \A f \in Items(pr'[q].onF) : f \in Callbacks
               /\ IsSeq(pr'[q].onR) /\ \A f \in Items(pr'[q].onR) : f.cb = "forward"
    <3>1. CASE q \in P
      <4>1. /\ DOMAIN pr'[q] = Fields /\ pr'[q].onF = <<>> /\ pr'[q].onR = <<>>
            /\ pr'[q].state \in {"Pending", "Fulfilled"}
        BY <3>1 DEF Makes
      <4> QED BY <1>0, <4>1
    <3>2. CASE q \notin P
      <4>1. pr'[q] = pr[q]
        BY <3>2 DEF Makes
      <4> QED BY <4>1 DEF CtlInv, TypeOK
    <3> QED BY <3>1, <3>2
  <2>2. /\ DOMAIN pr' = Promises /\ good' = good /\ setting' = setting /\ waits' = waits
        /\ DOMAIN seen' = Continuations
        /\ \A c \in Continuations : seen'[c] = <<>> \/ \E x : seen'[c] = <<x>>
    BY DEF Makes
  <2>3. /\ good \in [Tasks -> {"true", "false"}]
        /\ waits \in 0..MaxWaits /\ setting \in Settings
    BY DEF CtlInv, TypeOK
  <2>4. /\ good' \in [Tasks -> {"true", "false"}]
        /\ waits' \in 0..MaxWaits /\ setting' \in Settings
    BY <2>2, <2>3
  <2> QED BY <2>1, <2>2, <2>4 DEF TypeOK, IsSeq, Items
<1>2. StackInv'
  BY StackStays DEF CtlInv
<1>3. ListInv'
  <2> SUFFICES ASSUME NEW q \in Promises PROVE ListOK(q)'
    BY DEF ListInv
  <2>1. CASE q \notin P
    <3>1. pr'[q] = pr[q] /\ ListOK(q)
      BY <2>1 DEF Makes, CtlInv, ListInv
    <3> QED BY <3>1, ListStays
  <2>2. CASE q \in P
    <3>1. /\ pr'[q].onF = <<>> /\ pr'[q].onR = <<>>
          /\ pr'[q].state \in {"Pending", "Fulfilled"}
          /\ pr'[q].state = "Fulfilled" => ValueOK(q, pr[q].value)'
      BY <2>2 DEF Makes
    <3>2. /\ \A f \in Items(pr'[q].onF) : Home(f) = q
          /\ Inj(pr'[q].onF)
      BY <1>0, <3>1
    <3> QED BY <3>1, <3>2 DEF ListOK, Items, Inj
  <2> QED BY <2>1, <2>2
<1>4. QcInv'
  <2>1. pr'[<<"qc">>] = pr[<<"qc">>]
    BY PromisesThere DEF Makes
  <2> QED BY <2>1 DEF CtlInv, QcInv, Items
<1>5. ResultInv'
  <2> SUFFICES ASSUME NEW q \in Alls, AllRun(q)' PROVE ResultOK(q)'
    BY DEF ResultInv
  <2>1. CASE q \notin P /\ AllRun(q)
    <3>1. pr'[q] = pr[q] /\ ResultOK(q)
      BY <2>1, AllParts DEF Makes, CtlInv, ResultInv
    <3>2. pr'[q].state # "None"
      BY <3>1 DEF ResultOK
    <3> QED BY <3>1, <3>2, ResultStays
  <2> QED BY <2>1
<1>6. CbInv'
  <2> SUFFICES ASSUME NEW g \in Callbacks PROVE CbOK(g)'
    BY DEF CbInv
  <2>1. CbOK(g)
    BY DEF CtlInv, CbInv
  <2>2. Waiting(g)' => Waiting(g)
    <3>1. Home(g) \in Promises
      BY CallbackPlaces
    <3>2. CASE Home(g) \in P
      BY <1>0, <3>2 DEF Waiting, Makes
    <3>3. CASE Home(g) \notin P
      BY <3>1, <3>3 DEF Waiting, Makes
    <3> QED BY <3>2, <3>3
  <2>3. Born(g) => Born(g)'
    BY BornStays
  <2>4. /\ KCb(g) \in Keys' => KCb(g) \in Keys \/ (~ Live(g) /\ Born(g)' /\ ~ Done(g)')
        /\ Done(g)' => Done(g) \/ (KCb(g) \in Keys /\ KCb(g) \notin Keys')
    BY DEF Begins
  <2> QED BY <2>1, <2>2, <2>3, <2>4 DEF CbOK, Live
<1> QED BY <1>1, <1>2, <1>3, <1>4, <1>5, <1>6

(* The steps that promise::all puts on the stack.                          *)
LEMMA ThensAre ==
    ASSUME NEW p \in Alls, NEW new,
           new = [i \in 1..Len(Refs(p)) |-> Then(Refs(p)[i], Collect(p, i), Forward(p))]
    PROVE  /\ IsSeq(new) /\ Linear(new)
           /\ \A z \in Items(new) : Shape(z) /\ Sound(z)'
           /\ \A k : k \in KeysOf(new) <=> \E i \in DOMAIN Refs(p) : k = KCb(Collect(p, i))
<1>1. DOMAIN Refs(p) = 1..Len(Refs(p)) /\ Len(Refs(p)) \in Nat
  BY RefsAre, LenProperties
<1>2. PICK n \in Nat : n = Len(Refs(p)) /\ DOMAIN Refs(p) = 1..n
  BY <1>1
<1>3. DOMAIN new = 1..n
  BY <1>2
<1>4. ASSUME NEW i \in 1..n
      PROVE  /\ new[i] = Then(Refs(p)[i], Collect(p, i), Forward(p))
             /\ Key(new[i]) = KCb(Collect(p, i)) /\ Key(new[i]) # Free
             /\ Shape(new[i]) /\ Sound(new[i])'
  <2>1. new[i] = Then(Refs(p)[i], Collect(p, i), Forward(p))
    BY <1>2
  <2>2. Collect(p, i) \in Callbacks /\ Home(Collect(p, i)) = Refs(p)[i] /\ After(Collect(p, i)) = p
    BY <1>2, CallbacksThere, CollectIs
  <2>3. Key(new[i]) = KCb(Collect(p, i))
    BY <2>1, KeyIs
  <2>4. new[i] = Then(Home(Collect(p, i)), Collect(p, i), Forward(After(Collect(p, i))))
    BY <2>1, <2>2
  <2>5. Shape(new[i])
    BY <2>2, <2>4, ItemShapes
  <2>6. new[i].op = "then"
    BY <2>1, OpsDiffer
  <2>7. Sound(new[i])'
    BY <2>6 DEF Sound
  <2> QED BY <2>1, <2>3, <2>5, <2>7, KeysDiffer
<1>5. IsSeq(new)
  <2>1. \A i \in 1..n : new[i] \in Items(new)
    BY <1>3 DEF Items
  <2>2. new = [i \in 1..n |-> new[i]]
    BY <1>2
  <2> QED BY <2>1, <2>2 DEF IsSeq
<1>6. Linear(new)
  <2>1. ASSUME NEW i \in 1..n, NEW j \in 1..n, Key(new[i]) = Key(new[j])
        PROVE  i = j
    <3>1. Key(new[i]) = KCb(Collect(p, i)) /\ Key(new[j]) = KCb(Collect(p, j))
      BY <1>4
    <3>2. Collect(p, i) = Collect(p, j)
      BY <2>1, <3>1, KeysDiffer
    <3> QED BY <3>2, CallbacksDiffer
  <2> QED BY <1>3, <2>1 DEF Linear
<1>7. \A z \in Items(new) : Shape(z) /\ Sound(z)'
  <2> SUFFICES ASSUME NEW z \in Items(new) PROVE Shape(z) /\ Sound(z)'
    OBVIOUS
  <2>1. PICK i \in 1..n : z = new[i]
    BY <1>3 DEF Items
  <2> QED BY <1>4, <2>1
<1>8. \A k : k \in KeysOf(new) <=> \E i \in 1..n : k = KCb(Collect(p, i))
  BY <1>3, <1>4 DEF KeysOf
<1> QED BY <1>2, <1>5, <1>6, <1>7, <1>8

(* promise::all begins.                                                    *)
LEMMA AllStep ==
    ASSUME CtlInv, RunAll
    PROVE  CtlInv' /\ Grows
<1>1. PICK s : s = Head(stack)
  OBVIOUS
<1>2. PICK p, n : p = s.p /\ n = Len(s.ps)
  OBVIOUS
<1>3. PICK new : new = [i \in 1..n |-> Then(s.ps[i], Collect(p, i), Forward(p))]
  OBVIOUS
<1>4. /\ s.op = "all" /\ stack # <<>> /\ Do(new) /\ thrown' = (thrown \/ n = 0)
      /\ pr' = [pr EXCEPT ![p] = [Made EXCEPT !.size = n, !.results = [i \in 1..n |-> Empty]]]
      /\ seen' = seen /\ good' = good /\ setting' = setting /\ waits' = waits
  BY <1>1, <1>2, <1>3 DEF RunAll, Top, own, threads
<1>5. p \in Alls /\ s = All(p, Refs(p)) /\ s.ps = Refs(p)
  BY <1>1, <1>2, <1>4, TopIs, ShapeOf
<1>6. p \in Promises /\ p[1] \in {"sigs", "all"} /\ p[2] \in Owners /\ p = <<p[1], p[2]>>
  BY <1>5, AllParts
<1>7. n \in Nat /\ n > 0 /\ DOMAIN Refs(p) = 1..n /\ n = Len(Refs(p))
  BY <1>2, <1>5, RefsAre, LenProperties
<1>8. Key(s) = KAll(p) /\ KAll(p) \in Keys /\ AllBorn(p) /\ ~ AllRun(p)
  <2>1. Key(s) = KAll(p) /\ KAll(p) \in Keys
    BY <1>1, <1>4, <1>5, KeyIs, TopIs, KeysDiffer
  <2> QED BY <1>5, <2>1 DEF CtlInv, KeyInv, AllRun
<1>9. /\ IsSeq(new) /\ Linear(new)
      /\ \A z \in Items(new) : Shape(z) /\ Sound(z)'
      /\ \A k : k \in KeysOf(new) <=> \E i \in DOMAIN Refs(p) : k = KCb(Collect(p, i))
  BY <1>3, <1>5, <1>7, ThensAre
<1>10. ASSUME NEW i \in DOMAIN Refs(p)
       PROVE  Collect(p, i) \in Callbacks /\ ~ Live(Collect(p, i))
  <2>1. Collect(p, i) \in Callbacks /\ ~ Born(Collect(p, i))
    BY <1>5, <1>8, CallbacksThere, CollectIs
  <2> QED BY <2>1 DEF CtlInv, CbInv, CbOK
<1>11. /\ IsSeq(stack)' /\ Linear(stack)'
       /\ \A z : z \in Items(stack)' => z \in Items(stack) \/ z \in Items(new)
       /\ \A z : z \in Items(stack) => z = s \/ z \in Items(stack)'
       /\ Keys' = (Keys \ {KAll(p)}) \cup KeysOf(new)
  <2>1. IsSeq(stack) /\ Linear(stack)
    BY DEF CtlInv, StackInv
  <2>2. \A k \in KeysOf(new) : k \notin Keys
    BY <1>9, <1>10 DEF Live
  <2>3. /\ IsSeq(stack)' /\ Linear(stack)'
        /\ \A z : z \in Items(stack)' => z \in Items(stack) \/ z \in Items(new)
        /\ \A z : z \in Items(stack) => z = Head(stack) \/ z \in Items(stack)'
        /\ Keys' = (Keys \ {Key(Head(stack))}) \cup KeysOf(new)
    BY <1>4, <1>9, <2>1, <2>2, Moved
  <2> QED BY <1>1, <1>8, <2>3
<1>12. \A z : /\ KVerify(z) \in Keys' <=> KVerify(z) \in Keys
              /\ KAll(z) \in Keys' <=> KAll(z) \in Keys /\ z # p
              /\ KCb(z) \in Keys' <=> KCb(z) \in Keys \/ \E i \in DOMAIN Refs(p) : z = Collect(p, i)
  BY <1>9, <1>11, KeysDiffer
<1>13. /\ DOMAIN pr = Promises /\ pr[p].state # "Fulfilled"
  <2>1. ListOK(p) /\ DOMAIN pr = Promises
    BY <1>6 DEF CtlInv, TypeOK, ListInv
  <2> QED BY <1>6, <1>8, <2>1 DEF ListOK, ValueOK
<1>14. /\ DOMAIN pr' = Promises /\ (\A q \in Promises : q # p => pr'[q] = pr[q])
       /\ DOMAIN pr'[p] = Fields /\ pr'[p].state = "Pending"
       /\ pr'[p].onF = <<>> /\ pr'[p].onR = <<>>
       /\ pr'[p].size = n /\ pr'[p].results = [i \in 1..n |-> Empty]
  <2>1. pr'[p] = [Made EXCEPT !.size = n, !.results = [i \in 1..n |-> Empty]]
    BY <1>4, <1>6, <1>13
  <2> QED BY <1>4, <1>6, <1>13, <2>1 DEF Made, Unmade, Fields
<1>15. \A o \in Owners : Started(o)' <=> Started(o)
  <2> SUFFICES ASSUME NEW o \in Owners PROVE Started(o)' <=> Started(o)
    OBVIOUS
  <2>1. CASE o[1] = "blk"
    BY <1>4, <2>1 DEF Started
  <2>2. CASE o[1] # "blk" /\ p # <<"all", o>>
    BY <1>12, <1>14, <2>2, PromisesThere DEF Started
  <2>3. CASE o[1] # "blk" /\ p = <<"all", o>>
    BY <1>8, <1>14, <2>3 DEF Started
  <2> QED BY <2>1, <2>2, <2>3
<1>16. \A o \in Owners : Verified(o)' <=> Verified(o)
  BY <1>12, <1>15 DEF Verified
<1>17. \A q \in Alls : AllBorn(q)' <=> AllBorn(q)
  BY <1>15, <1>16, AllParts DEF AllBorn
<1>18. \A q \in Alls : AllRun(q)' <=> AllRun(q) \/ q = p
  BY <1>5, <1>8, <1>12, <1>17 DEF AllRun
<1>19. Grows
  <2>1. \A k \in 1..MaxWaits : Dropped(k) => Dropped(k)'
    <3> SUFFICES ASSUME NEW k \in 1..MaxWaits, Dropped(k) PROVE Dropped(k)'
      OBVIOUS
    <3>1. pr'[<<"qc">>] = pr[<<"qc">>]
      BY <1>6, <1>14, PromisesThere
    <3>2. \A i : Continue(<<"next", k>>) # Collect(p, i)
      BY NextIs, CollectIs
    <3> QED BY <1>4, <1>12, <3>1, <3>2 DEF Dropped
  <2>2. \A q \in Alls : /\ AllRun(q) => AllRun(q)'
                        /\ AllRun(q) /\ Full(q) => pr'[q].results = pr[q].results
    BY <1>8, <1>14, <1>18, AllParts
  <2>3. \A q \in Promises :
         /\ pr[q].state # "None" => pr'[q].state # "None"
         /\ pr[q].state = "Fulfilled" =>
              pr'[q].state = "Fulfilled" /\ pr'[q].value = pr[q].value
    BY <1>13, <1>14
  <2>4. waits \in Nat /\ waits' \in Nat /\ waits <= waits'
    BY <1>4, VeriPoolAssumption DEF CtlInv, TypeOK
  <2> QED BY <1>4, <1>15, <1>16, <2>1, <2>2, <2>3, <2>4 DEF Grows
<1>20. Makes({p})
  <2>1. /\ DOMAIN seen' = Continuations
        /\ \A c \in Continuations : seen'[c] = <<>> \/ \E x : seen'[c] = <<x>>
    BY <1>4 DEF CtlInv, TypeOK
  <2>2. <<"qc">> # p
    BY <1>6
  <2> QED BY <1>4, <1>6, <1>14, <2>1, <2>2 DEF Makes
<1>21. Begins
  <2> SUFFICES ASSUME NEW g \in Callbacks
               PROVE  /\ KCb(g) \in Keys' => KCb(g) \in Keys \/ (~ Live(g) /\ Born(g)' /\ ~ Done(g)')
                      /\ Done(g)' => Done(g)
    BY DEF Begins
  <2>1. KCb(g) \in Keys' => KCb(g) \in Keys \/ (~ Live(g) /\ Born(g)' /\ ~ Done(g)')
    <3> SUFFICES ASSUME NEW i \in DOMAIN Refs(p), g = Collect(p, i)
                 PROVE  ~ Live(g) /\ Born(g)' /\ ~ Done(g)'
      BY <1>12
    <3>1. g.cb = "collect" /\ g.p = p /\ g.i = i
      BY CollectIs
    <3>2. Born(g)'
      BY <1>5, <1>18, <3>1 DEF Born
    <3>3. ~ Done(g)'
      BY <1>7, <1>14, <3>1 DEF Done
    <3> QED BY <1>10, <3>2, <3>3
  <2>2. Done(g)' => Done(g)
    <3>1. CASE g.cb # "collect"
      BY <1>4, <3>1 DEF Done
    <3>2. CASE g.cb = "collect"
      <4>1. g.p \in Alls /\ g.i \in DOMAIN Refs(g.p) /\ g.p \in Promises
        BY <3>2, CallbackOfKind, AllParts
      <4>2. CASE g.p # p
        BY <1>14, <3>2, <4>1, <4>2 DEF Done
      <4>3. CASE g.p = p
        BY <1>7, <1>14, <3>2, <4>1, <4>3 DEF Done
      <4> QED BY <4>2, <4>3
    <3> QED BY <3>1, <3>2
  <2> QED BY <2>1, <2>2
<1>22. KeyInv'
  <2>1. \A o \in Owners : KVerify(o) \in Keys' => Started(o)'
    BY <1>12, <1>15 DEF CtlInv, KeyInv
  <2>2. \A q \in Alls : KAll(q) \in Keys' => AllBorn(q)'
    <3> SUFFICES ASSUME NEW q \in Alls, KAll(q) \in Keys' PROVE AllBorn(q)'
      OBVIOUS
    <3>1. AllBorn(q)
      BY <1>12 DEF CtlInv, KeyInv
    <3> QED BY <1>17, <3>1
  <2> QED BY <2>1, <2>2 DEF KeyInv
<1>23. SeenInv'
  <2>1. \A c \in Continuations : Resolve(<<"npm", c>>, "void") \in Items(stack) =>
          Resolve(<<"npm", c>>, "void") \in Items(stack)'
    BY <1>4, <1>11, OpsDiffer
  <2> QED BY <1>4, <1>19, <2>1, SeenStays DEF CtlInv
<1>24. \A q \in Alls : AllRun(q)' /\ (~ AllRun(q) \/ q \in {p}) => ResultOK(q)'
  <2> SUFFICES ResultOK(p)'
    BY <1>18
  <2>1. {i \in DOMAIN Refs(p) : pr'[p].results[i] = Empty} = 1..n
    BY <1>7, <1>14
  <2>2. Cardinality(1..n) = n
    <3>1. 1 \in Int /\ n \in Int /\ ~ (1 > n) /\ n - 1 + 1 = n
      BY <1>7
    <3>2. Cardinality(1..n) = IF 1 > n THEN 0 ELSE n - 1 + 1
      BY ONLY <3>1, FS_Interval
    <3> QED BY <3>1, <3>2
  <2>3. pr'[p].results = [i \in DOMAIN Refs(p) |-> pr'[p].results[i]]
    BY <1>7, <1>14
  <2>4. \A i \in DOMAIN Refs(p) : pr'[p].results[i] = Empty
    BY <1>7, <1>14
  <2> QED BY <1>14, <2>1, <2>2, <2>3, <2>4 DEF ResultOK
<1>25. \A z \in Items(stack)' : z \in Items(stack) \/ (Shape(z) /\ Sound(z)')
  BY <1>9, <1>11
<1>26. TypeOK' /\ StackInv' /\ KeyInv' /\ CbInv' /\ ListInv' /\ QcInv' /\ ResultInv' /\ SeenInv'
  BY <1>11, <1>19, <1>20, <1>21, <1>22, <1>23, <1>24, <1>25, MakeStep
<1>27. ~ thrown'
  <2>1. ~ thrown /\ n # 0
    BY <1>7 DEF CtlInv
  <2> QED BY <1>4, <2>1, Zenon
<1> QED BY <1>19, <1>26, <1>27 DEF CtlInv

(* verify of a certificate begins: what is made, and what is put on the    *)
(* stack.                                                                  *)
NewTasks(o) == {<<"task", o, i>> : i \in 1..Sigs(o)}
VerifyMakes(o) == {<<"cert", o>>} \cup (IF Trusted(o) THEN {} ELSE NewTasks(o))
VerifySteps(o) ==
    IF Trusted(o) THEN <<>>
    ELSE <<All(<<"sigs", o>>, Refs(<<"sigs", o>>)),
           Then(<<"sigs", o>>, Verdict(o), Forward(<<"cert", o>>))>>

(* The promises that verify makes are the tasks and the verdict.           *)
LEMMA VerifyMakesAre ==
    ASSUME NEW o \in Owners, NEW q \in VerifyMakes(o)
    PROVE  q \in Promises /\ q[1] \in {"task", "cert"} /\ q[2] = o
<1>1. CASE q = <<"cert", o>>
  BY <1>1, PromisesThere
<1>2. CASE q \in NewTasks(o)
  <2>1. PICK i \in 1..Sigs(o) : q = <<"task", o, i>>
    BY <1>2 DEF NewTasks
  <2> QED BY <2>1, TaskParts, PromisesThere
<1> QED BY <1>1, <1>2 DEF VerifyMakes

(* What RunVerify does to the promises and the stack.                      *)
LEMMA VerifyDoes ==
    ASSUME CtlInv, RunVerify, NEW o \in Owners, o = Head(stack).o
    PROVE  /\ Do(VerifySteps(o)) /\ DOMAIN pr' = Promises
           /\ \A q \in Promises : q \notin VerifyMakes(o) => pr'[q] = pr[q]
           /\ \A q \in VerifyMakes(o) :
                /\ DOMAIN pr'[q] = Fields /\ pr'[q].onF = <<>> /\ pr'[q].onR = <<>>
                /\ pr'[q].state \in {"Pending", "Fulfilled"}
                /\ pr'[q].state = "Fulfilled" => /\ q = <<"cert", o>> /\ Trusted(o)
                                                 /\ pr'[q].value = "true"
<1>1. DOMAIN pr = Promises /\ <<"cert", o>> \in Promises
  BY PromisesThere DEF CtlInv, TypeOK
<1>2. CASE Trusted(o)
  <2>1. /\ pr' = [pr EXCEPT ![<<"cert", o>>] =
                             [Made EXCEPT !.state = "Fulfilled", !.value = "true"]]
        /\ Do(<<>>)
    BY <1>2 DEF RunVerify
  <2>2. VerifyMakes(o) = {<<"cert", o>>} /\ VerifySteps(o) = <<>>
    BY <1>2 DEF VerifyMakes, VerifySteps
  <2>3. pr'[<<"cert", o>>] = [Made EXCEPT !.state = "Fulfilled", !.value = "true"]
    BY <1>1, <2>1
  <2>4. LET m == [Made EXCEPT !.state = "Fulfilled", !.value = "true"]
        IN  DOMAIN m = Fields /\ m.onF = <<>> /\ m.onR = <<>> /\ m.state = "Fulfilled" /\ m.value = "true"
    BY DEF Made, Unmade, Fields
  <2> QED BY <1>1, <1>2, <2>1, <2>2, <2>3, <2>4
<1>3. CASE ~ Trusted(o)
  <2> DEFINE new == [i \in 1..Sigs(o) |-> <<"task", o, i>>]
             ids == {new[i] : i \in DOMAIN new}
  <2>1. /\ pr' = [p \in Promises |-> IF p \in ids \cup {<<"cert", o>>} THEN Made ELSE pr[p]]
        /\ Do(<<All(<<"sigs", o>>, new),
                Then(<<"sigs", o>>, Verdict(o), Forward(<<"cert", o>>))>>)
    BY <1>3 DEF RunVerify
  <2>2. ids = NewTasks(o)
    BY DEF NewTasks
  <2>3. Refs(<<"sigs", o>>) = new
    <3>1. <<"sigs", o>> \in Alls /\ <<"sigs", o>>[1] = "sigs" /\ <<"sigs", o>>[2] = o
      BY <1>3, AllParts
    <3> QED BY <3>1, RefsAre
  <2> HIDE DEF new, ids
  <2>4. VerifyMakes(o) = ids \cup {<<"cert", o>>}
    BY <1>3, <2>2 DEF VerifyMakes
  <2>5. DOMAIN Made = Fields /\ Made.onF = <<>> /\ Made.onR = <<>> /\ Made.state = "Pending"
    BY DEF Made, Unmade, Fields
  <2>6. \A q \in VerifyMakes(o) : q \in Promises
    BY VerifyMakesAre
  <2>7. \A q \in VerifyMakes(o) : pr'[q] = Made
    BY <2>1, <2>4, <2>6
  <2>8. DOMAIN pr' = Promises /\ \A q \in Promises : q \notin VerifyMakes(o) => pr'[q] = pr[q]
    BY <2>1, <2>4
  <2>9. Do(VerifySteps(o))
    BY <1>3, <2>1, <2>3 DEF VerifySteps
  <2> QED BY <2>5, <2>7, <2>8, <2>9
<1> QED BY <1>2, <1>3

(* The steps that verify puts on the stack.                                *)
LEMMA VerifyPuts ==
    ASSUME NEW o \in Owners, NEW new, new = VerifySteps(o)
    PROVE  /\ IsSeq(new) /\ Linear(new)
           /\ \A z \in Items(new) : Shape(z) /\ Sound(z)'
           /\ KeysOf(new) = IF Trusted(o) THEN {} ELSE {KAll(<<"sigs", o>>), KCb(Verdict(o))}
<1>1. CASE Trusted(o)
  BY <1>1, NoSteps DEF VerifySteps
<1>2. CASE ~ Trusted(o)
  <2>1. PICK a, b : /\ a = All(<<"sigs", o>>, Refs(<<"sigs", o>>))
                    /\ b = Then(<<"sigs", o>>, Verdict(o), Forward(<<"cert", o>>))
    OBVIOUS
  <2>2. new = <<a, b>>
    BY <1>2, <2>1 DEF VerifySteps
  <2>3. Key(a) = KAll(<<"sigs", o>>) /\ Key(b) = KCb(Verdict(o))
    BY <2>1, KeyIs
  <2>4. Key(a) # Key(b) /\ Key(a) # Free /\ Key(b) # Free
    BY <2>3, KeysDiffer
  <2>5. <<"sigs", o>> \in Alls /\ Verdict(o) \in Callbacks
    BY <1>2, AllParts, CallbacksThere
  <2>6. b = Then(Home(Verdict(o)), Verdict(o), Forward(After(Verdict(o))))
    BY <2>1, VerdictIs
  <2>7. Shape(a) /\ Shape(b)
    BY <2>1, <2>5, <2>6, ItemShapes
  <2>8. a.op = "all" /\ b.op = "then"
    BY <2>1, OpsDiffer
  <2>9. Sound(a)' /\ Sound(b)'
    BY <2>8 DEF Sound
  <2>10. /\ IsSeq(<<a, b>>) /\ Linear(<<a, b>>) /\ Items(<<a, b>>) = {a, b}
         /\ KeysOf(<<a, b>>) = {Key(a), Key(b)} \ {Free}
    BY <2>4, TwoSteps
  <2> QED BY <1>2, <2>2, <2>3, <2>4, <2>7, <2>9, <2>10
<1> QED BY <1>1, <1>2

(* What the tasks, the list and the verdict of a certificate are before    *)
(* it is verified.                                                         *)
LEMMA NotVerified ==
    ASSUME CtlInv, NEW o \in Owners, ~ Verified(o)
    PROVE  /\ KAll(<<"sigs", o>>) \notin Keys \/ Trusted(o)
           /\ ~ Trusted(o) => ~ Live(Verdict(o))
           /\ \A q \in VerifyMakes(o) : pr[q].state # "Fulfilled"
<1>1. ~ Trusted(o) => KAll(<<"sigs", o>>) \notin Keys
  <2> HAVE ~ Trusted(o)
  <2>1. <<"sigs", o>> \in Alls /\ <<"sigs", o>>[1] = "sigs" /\ <<"sigs", o>>[2] = o
    BY AllParts
  <2>2. ~ AllBorn(<<"sigs", o>>)
    BY <2>1 DEF AllBorn
  <2> QED BY <2>1, <2>2 DEF CtlInv, KeyInv
<1>2. ~ Trusted(o) => ~ Live(Verdict(o))
  <2> HAVE ~ Trusted(o)
  <2>1. Verdict(o) \in Callbacks /\ ~ Born(Verdict(o))
    BY CallbacksThere, VerdictIs
  <2> QED BY <2>1 DEF CtlInv, CbInv, CbOK
<1>3. ASSUME NEW q \in VerifyMakes(o), pr[q].state = "Fulfilled" PROVE FALSE
  <2>1. q \in Promises /\ q[1] \in {"task", "cert"} /\ q[2] = o
    BY VerifyMakesAre
  <2>2. ValueOK(q, pr[q].value)
    BY <1>3, <2>1 DEF CtlInv, ListInv, ListOK
  <2> QED BY <2>1, <2>2 DEF ValueOK
<1> QED BY <1>1, <1>2, <1>3

(* verify of a certificate.                                                *)
LEMMA VerifyStep ==
    ASSUME CtlInv, RunVerify
    PROVE  /\ CtlInv' /\ Grows
           /\ \A u : u = Head(stack).o => u \in Owners /\ ~ Verified(u) /\ Verified(u)'
<1>1. PICK s : s = Head(stack)
  OBVIOUS
<1>2. PICK o, new, P : o = s.o /\ new = VerifySteps(o) /\ P = VerifyMakes(o)
  OBVIOUS
<1>3. /\ s.op = "verify" /\ stack # <<>>
      /\ seen' = seen /\ good' = good /\ setting' = setting /\ waits' = waits /\ thrown' = thrown
  BY <1>1 DEF RunVerify, Top, own
<1>4. o \in Owners /\ s = Verify(o)
  BY <1>1, <1>2, <1>3, TopIs, ShapeOf
<1>5. /\ Do(new) /\ DOMAIN pr' = Promises
      /\ \A q \in Promises : q \notin P => pr'[q] = pr[q]
      /\ \A q \in P : /\ DOMAIN pr'[q] = Fields /\ pr'[q].onF = <<>> /\ pr'[q].onR = <<>>
                      /\ pr'[q].state \in {"Pending", "Fulfilled"}
                      /\ pr'[q].state = "Fulfilled" => /\ q = <<"cert", o>> /\ Trusted(o)
                                                       /\ pr'[q].value = "true"
  BY <1>1, <1>2, <1>4, VerifyDoes
<1>6. \A q \in P : q \in Promises /\ q[1] \in {"task", "cert"} /\ q[2] = o
  BY <1>2, <1>4, VerifyMakesAre
<1>7. Key(s) = KVerify(o) /\ KVerify(o) \in Keys /\ Started(o) /\ ~ Verified(o)
  <2>1. Key(s) = KVerify(o) /\ KVerify(o) \in Keys
    BY <1>1, <1>3, <1>4, KeyIs, TopIs, KeysDiffer
  <2> QED BY <1>4, <2>1 DEF CtlInv, KeyInv, Verified
<1>8. /\ KAll(<<"sigs", o>>) \notin Keys \/ Trusted(o)
      /\ ~ Trusted(o) => ~ Live(Verdict(o))
      /\ \A q \in P : pr[q].state # "Fulfilled"
  BY <1>2, <1>4, <1>7, NotVerified
<1>9. /\ IsSeq(new) /\ Linear(new)
      /\ \A z \in Items(new) : Shape(z) /\ Sound(z)'
      /\ KeysOf(new) = IF Trusted(o) THEN {} ELSE {KAll(<<"sigs", o>>), KCb(Verdict(o))}
  BY <1>2, <1>4, VerifyPuts
<1>10. /\ IsSeq(stack)' /\ Linear(stack)'
       /\ \A z : z \in Items(stack)' => z \in Items(stack) \/ z \in Items(new)
       /\ \A z : z \in Items(stack) => z = s \/ z \in Items(stack)'
       /\ Keys' = (Keys \ {KVerify(o)}) \cup KeysOf(new)
  <2>1. IsSeq(stack) /\ Linear(stack)
    BY DEF CtlInv, StackInv
  <2>2. \A k \in KeysOf(new) : k \notin Keys
    BY <1>8, <1>9 DEF Live
  <2>3. /\ IsSeq(stack)' /\ Linear(stack)'
        /\ \A z : z \in Items(stack)' => z \in Items(stack) \/ z \in Items(new)
        /\ \A z : z \in Items(stack) => z = Head(stack) \/ z \in Items(stack)'
        /\ Keys' = (Keys \ {Key(Head(stack))}) \cup KeysOf(new)
    BY <1>3, <1>5, <1>9, <2>1, <2>2, Moved
  <2> QED BY <1>1, <1>7, <2>3
<1>11. \A z : /\ KVerify(z) \in Keys' <=> KVerify(z) \in Keys /\ z # o
              /\ KAll(z) \in Keys' <=> KAll(z) \in Keys \/ (~ Trusted(o) /\ z = <<"sigs", o>>)
              /\ KCb(z) \in Keys' <=> KCb(z) \in Keys \/ (~ Trusted(o) /\ z = Verdict(o))
  BY <1>9, <1>10, KeysDiffer
<1>12. \A u \in Owners : Started(u)' <=> Started(u)
  <2> SUFFICES ASSUME NEW u \in Owners PROVE Started(u)' <=> Started(u)
    OBVIOUS
  <2>1. CASE u[1] = "blk"
    BY <1>3, <2>1 DEF Started
  <2>2. CASE u[1] # "blk"
    <3>1. <<"all", u>> \in Promises /\ <<"all", u>> \notin P /\ <<"all", u>> # <<"sigs", o>>
      BY <1>6, PromisesThere
    <3> QED BY <1>5, <1>11, <2>2, <3>1 DEF Started
  <2> QED BY <2>1, <2>2
<1>13. \A u \in Owners : Verified(u)' <=> Verified(u) \/ u = o
  BY <1>4, <1>7, <1>11, <1>12 DEF Verified
<1>14. \A q \in Alls : AllBorn(q)' <=> AllBorn(q) \/ (~ Trusted(o) /\ q = <<"sigs", o>>)
  <2> SUFFICES ASSUME NEW q \in Alls
               PROVE  AllBorn(q)' <=> AllBorn(q) \/ (~ Trusted(o) /\ q = <<"sigs", o>>)
    OBVIOUS
  <2>1. q[2] \in Owners /\ q = <<q[1], q[2]>> /\ (q[1] = "all" \/ (q[1] = "sigs" /\ ~ Trusted(q[2])))
    BY AllParts
  <2>2. CASE q[1] = "all"
    BY <1>12, <2>1, <2>2 DEF AllBorn
  <2>3. CASE q[1] = "sigs"
    <3>1. q = <<"sigs", o>> <=> q[2] = o
      BY <2>1, <2>3
    <3> QED BY <1>13, <2>1, <2>3, <3>1 DEF AllBorn
  <2> QED BY <2>1, <2>2, <2>3
<1>15. \A q \in Alls : AllRun(q)' <=> AllRun(q)
  <2> SUFFICES ASSUME NEW q \in Alls PROVE AllRun(q)' <=> AllRun(q)
    OBVIOUS
  <2>1. CASE ~ Trusted(o) /\ q = <<"sigs", o>>
    <3>1. ~ AllBorn(q)
      <4>1. q[1] = "sigs" /\ q[2] = o
        BY <2>1
      <4> QED BY <1>7, <4>1 DEF AllBorn
    <3> QED BY <1>11, <2>1, <3>1 DEF AllRun
  <2>2. CASE ~ (~ Trusted(o) /\ q = <<"sigs", o>>)
    BY <1>11, <1>14, <2>2 DEF AllRun
  <2> QED BY <2>1, <2>2
<1>16. \A q \in Alls : q \in Promises /\ q \notin P /\ pr'[q] = pr[q]
  BY <1>5, <1>6, AllParts
<1>17. <<"qc">> \in Promises /\ <<"qc">> \notin P /\ pr'[<<"qc">>] = pr[<<"qc">>]
  BY <1>5, <1>6, PromisesThere
<1>18. Grows
  <2>1. \A k \in 1..MaxWaits : Dropped(k) => Dropped(k)'
    <3> SUFFICES ASSUME NEW k \in 1..MaxWaits, Dropped(k) PROVE Dropped(k)'
      OBVIOUS
    <3>2. Continue(<<"next", k>>) # Verdict(o)
      BY NextIs, VerdictIs
    <3> QED BY <1>3, <1>11, <1>17, <3>2 DEF Dropped
  <2>2. \A q \in Alls : /\ AllRun(q) => AllRun(q)'
                        /\ AllRun(q) /\ Full(q) => pr'[q].results = pr[q].results
    BY <1>15, <1>16
  <2>3. \A q \in Promises :
         /\ pr[q].state # "None" => pr'[q].state # "None"
         /\ pr[q].state = "Fulfilled" =>
              pr'[q].state = "Fulfilled" /\ pr'[q].value = pr[q].value
    BY <1>5, <1>8
  <2>4. waits \in Nat /\ waits' \in Nat /\ waits <= waits'
    BY <1>3, VeriPoolAssumption DEF CtlInv, TypeOK
  <2> QED BY <1>3, <1>12, <1>13, <2>1, <2>2, <2>3, <2>4 DEF Grows
<1>19. Makes(P)
  <2>1. /\ DOMAIN seen' = Continuations
        /\ \A c \in Continuations : seen'[c] = <<>> \/ \E x : seen'[c] = <<x>>
    BY <1>3 DEF CtlInv, TypeOK
  <2>2. ASSUME NEW q \in P, pr'[q].state = "Fulfilled"
        PROVE  ValueOK(q, pr[q].value)'
    <3>1. q = <<"cert", o>> /\ Trusted(o) /\ pr'[q].value = "true"
      BY <1>5, <2>2
    <3>2. q[1] = "cert" /\ q[2] = o
      BY <3>1
    <3>3. Verified(o)' /\ AllGood(o)'
      BY <1>4, <1>13, <3>1 DEF AllGood
    <3> QED BY <3>1, <3>2, <3>3 DEF ValueOK
  <2> QED BY <1>3, <1>5, <1>6, <1>17, <2>1, <2>2 DEF Makes
<1>20. Begins
  <2> SUFFICES ASSUME NEW g \in Callbacks
               PROVE  /\ KCb(g) \in Keys' => KCb(g) \in Keys \/ (~ Live(g) /\ Born(g)' /\ ~ Done(g)')
                      /\ Done(g)' => Done(g)
    BY DEF Begins
  <2>1. KCb(g) \in Keys' => KCb(g) \in Keys \/ (~ Live(g) /\ Born(g)' /\ ~ Done(g)')
    <3> SUFFICES ASSUME ~ Trusted(o), g = Verdict(o)
                 PROVE  ~ Live(g) /\ Born(g)' /\ ~ Done(g)'
      BY <1>11
    <3>1. g.cb = "verdict" /\ g.o = o
      BY VerdictIs
    <3>2. Born(g)'
      BY <1>4, <1>13, <3>1 DEF Born
    <3>3. ~ Done(g)'
      BY <3>1 DEF Done
    <3> QED BY <1>8, <3>2, <3>3
  <2>2. Done(g)' => Done(g)
    <3>1. g.cb = "collect" => g.p \in Alls
      BY CallbackOfKind
    <3> QED BY <1>3, <1>16, <3>1 DEF Done
  <2> QED BY <2>1, <2>2
<1>21. KeyInv'
  <2>1. \A u \in Owners : KVerify(u) \in Keys' => Started(u)'
    BY <1>11, <1>12 DEF CtlInv, KeyInv
  <2>2. ASSUME NEW q \in Alls, KAll(q) \in Keys' PROVE AllBorn(q)'
    <3>1. KAll(q) \in Keys => AllBorn(q)
      BY DEF CtlInv, KeyInv
    <3> QED BY <1>11, <1>14, <2>2, <3>1
  <2> QED BY <2>1, <2>2 DEF KeyInv
<1>22. SeenInv'
  <2>1. \A c \in Continuations : Resolve(<<"npm", c>>, "void") \in Items(stack) =>
          Resolve(<<"npm", c>>, "void") \in Items(stack)'
    BY <1>3, <1>10, OpsDiffer
  <2> QED BY <1>3, <1>18, <2>1, SeenStays DEF CtlInv
<1>23. \A q \in Alls : AllRun(q)' /\ (~ AllRun(q) \/ q \in P) => ResultOK(q)'
  BY <1>15, <1>16
<1>24. \A z \in Items(stack)' : z \in Items(stack) \/ (Shape(z) /\ Sound(z)')
  BY <1>9, <1>10
<1>25. TypeOK' /\ StackInv' /\ KeyInv' /\ CbInv' /\ ListInv' /\ QcInv' /\ ResultInv' /\ SeenInv'
  BY <1>10, <1>18, <1>19, <1>20, <1>21, <1>22, <1>23, <1>24, MakeStep
<1>26. CtlInv'
  BY <1>3, <1>25 DEF CtlInv
<1>27. Verified(o)' /\ ~ Verified(o)
  BY <1>4, <1>7, <1>13
<1>28. o = Head(stack).o
  BY <1>1, <1>2
<1> QED BY <1>4, <1>18, <1>26, <1>27, <1>28

(* The callbacks that are continuations.                                   *)
ContinuationKinds == {"fetched", "delivery", "relayed", "next"}

(* A continuation of the replica is called: it had not been called, is     *)
(* recorded, and what then returned for it is about to be resolved.        *)
Called(c, x, steps) ==
    /\ c \in Continuations /\ Head(stack) = Call(Continue(c), v)
    /\ Sound(Head(stack)) /\ KCb(Continue(c)) \in Keys /\ Born(Continue(c))
    /\ seen[c] = <<>> /\ seen'[c] = <<x>> /\ DOMAIN seen' = Continuations
    /\ \A d \in Continuations : d # c => seen'[d] = seen[d]
    /\ pr' = pr /\ good' = good /\ setting' = setting /\ waits' = waits /\ thrown' = thrown
    /\ IsSeq(stack)' /\ Linear(stack)'
    /\ \A z : z \in Items(stack)' =>
         z \in Items(stack) \/ z \in Items(steps) \/ z = Resolve(<<"npm", c>>, "void")
    /\ \A d : Resolve(<<"npm", d>>, "void") \in Items(stack) \/ d = c =>
         Resolve(<<"npm", d>>, "void") \in Items(stack)'
    /\ Keys' = (Keys \ {KCb(Continue(c))}) \cup KeysOf(steps)

(* Every call of a continuation is the first.                              *)
LEMMA ContinuationDoes ==
    ASSUME CtlInv, stack # <<>>, Head(stack).op = "call", Head(stack).c.cb \in ContinuationKinds,
           NEW c, c = <<Head(stack).c.cb, Head(stack).c.id>>,
           NEW x, NEW steps, Continuation(x, steps), IsSeq(steps), Linear(steps),
           \A k \in KeysOf(steps) : k \notin Keys
    PROVE  Called(c, x, steps)
<1>1. PICK s, f : s = Head(stack) /\ f = s.c
  OBVIOUS
<1>2. Shape(s) /\ Sound(s) /\ s.op = "call" /\ f.cb \in ContinuationKinds
  BY <1>1, TopIs
<1>3. f \in Callbacks /\ s = Call(f, s.v)
  <2>1. f.cb # "forward"
    BY <1>2 DEF ContinuationKinds
  <2>2. s = Call(f, s.v) /\ (f \in Callbacks \/ f = Forward(f.p))
    BY <1>1, <1>2, ShapeOf
  <2> QED BY <2>1, <2>2, CallbacksDiffer
<1>4. c \in Continuations /\ f = Continue(c)
  <2>1. c = <<f.cb, f.id>>
    BY <1>1
  <2> QED BY <1>2, <1>3, <2>1, CallbackOfKind, ContinuationParts DEF ContinuationKinds
<1>5. Key(s) = KCb(f) /\ KCb(f) \in Keys
  <2>1. f.cb # "forward"
    BY <1>2 DEF ContinuationKinds
  <2> QED BY <1>1, <1>3, <2>1, KeyIs, TopIs, KeysDiffer
<1>6. Born(f) /\ ~ Done(f)
  BY <1>3, <1>5 DEF CtlInv, CbInv, CbOK, Live
<1>7. seen[c] = <<>>
  BY <1>1, <1>2, <1>6 DEF Done, ContinuationKinds
<1>8. PICK d : d = Resolve(<<"npm", c>>, "void")
  OBVIOUS
<1>9. /\ seen' = [seen EXCEPT ![c] = Append(@, x)] /\ Do(Append(steps, d))
      /\ pr' = pr /\ good' = good /\ setting' = setting /\ waits' = waits /\ thrown' = thrown
  BY <1>8 DEF Continuation, cb, rest, own
<1>10. /\ seen'[c] = <<x>> /\ DOMAIN seen' = Continuations
       /\ \A e \in Continuations : e # c => seen'[e] = seen[e]
  <2>1. DOMAIN seen = Continuations
    BY DEF CtlInv, TypeOK
  <2>2. Append(<<>>, x) = <<x>>
    OBVIOUS
  <2> QED BY <1>4, <1>7, <1>9, <2>1, <2>2
<1>11. Key(d) = Free
  BY <1>8, KeyIs
<1>12. /\ IsSeq(Append(steps, d)) /\ Linear(Append(steps, d))
       /\ Items(Append(steps, d)) = Items(steps) \cup {d}
       /\ KeysOf(Append(steps, d)) = KeysOf(steps)
  <2>1. /\ IsSeq(<<d>>) /\ Linear(<<d>>) /\ Items(<<d>>) = {d} /\ KeysOf(<<d>>) = {}
    BY <1>11, OneStep
  <2>2. /\ IsSeq(steps \o <<d>>) /\ Linear(steps \o <<d>>)
        /\ Items(steps \o <<d>>) = Items(steps) \cup {d}
        /\ KeysOf(steps \o <<d>>) = KeysOf(steps)
    <3>1. \A k \in KeysOf(steps) : k \notin KeysOf(<<d>>)
      BY <2>1
    <3>2. /\ IsSeq(steps \o <<d>>) /\ Linear(steps \o <<d>>)
          /\ Items(steps \o <<d>>) = Items(steps) \cup Items(<<d>>)
          /\ KeysOf(steps \o <<d>>) = KeysOf(steps) \cup KeysOf(<<d>>)
      BY <2>1, <3>1, Joined
    <3> QED BY <2>1, <3>2
  <2>3. Append(steps, d) = steps \o <<d>>
    <3>1. PICK S : steps \in Seq(S)
      BY DEF IsSeq
    <3>2. steps \in Seq(S \cup {d}) /\ d \in S \cup {d}
      BY <3>1
    <3> QED BY <3>2, AppendIsConcat
  <2> QED BY <2>2, <2>3
<1>13. /\ IsSeq(stack)' /\ Linear(stack)'
       /\ \A z : z \in Items(stack)' => z \in Items(stack) \/ z \in Items(Append(steps, d))
       /\ \A z : z \in Items(stack) => z = Head(stack) \/ z \in Items(stack)'
       /\ \A z : z \in Items(Append(steps, d)) => z \in Items(stack)'
       /\ Keys' = (Keys \ {Key(Head(stack))}) \cup KeysOf(Append(steps, d))
  <2>1. IsSeq(stack) /\ Linear(stack)
    BY DEF CtlInv, StackInv
  <2> QED BY <1>9, <1>12, <2>1, Moved
<1>14. \A e : Resolve(<<"npm", e>>, "void") # Head(stack)
  BY OpsDiffer
<1>15. \A e : Resolve(<<"npm", e>>, "void") \in Items(stack) \/ e = c =>
         Resolve(<<"npm", e>>, "void") \in Items(stack)'
  BY <1>8, <1>12, <1>13, <1>14
<1>16. Keys' = (Keys \ {KCb(Continue(c))}) \cup KeysOf(steps)
  BY <1>1, <1>4, <1>5, <1>12, <1>13
<1>17. \A z : z \in Items(stack)' =>
         z \in Items(stack) \/ z \in Items(steps) \/ z = Resolve(<<"npm", c>>, "void")
  BY <1>8, <1>12, <1>13
<1>18. Head(stack) = Call(Continue(c), v) /\ Sound(Head(stack)) /\ KCb(Continue(c)) \in Keys
       /\ Born(Continue(c))
  BY <1>1, <1>2, <1>3, <1>4, <1>5, <1>6 DEF v
<1> QED BY <1>4, <1>7, <1>9, <1>10, <1>13, <1>15, <1>16, <1>17, <1>18 DEF Called

(* What is recorded is right, if the new entry is.                         *)
LEMMA SeenAdded ==
    ASSUME SeenInv, Grows, NEW c \in Continuations, NEW x, NEW steps, Called(c, x, steps),
           \A b \in Blocks : c = <<"delivery", b>> => JudgedOK(c, <<"blk", b>>)',
           \A r \in Relays : c = <<"relayed", r>> =>
              JudgedOK(c, <<"relay", r>>)' /\ pr'[<<"deliver", RelayOf[r].blk>>].state = "Fulfilled"
    PROVE  SeenInv'
<1>1. /\ pr' = pr
      /\ \A d \in Continuations : d # c => seen'[d] = seen[d]
      /\ \A d : Resolve(<<"npm", d>>, "void") \in Items(stack) \/ d = c =>
           Resolve(<<"npm", d>>, "void") \in Items(stack)'
  BY DEF Called
<1>2. \A d \in Continuations : SeenOK(d)'
  <2> SUFFICES ASSUME NEW d \in Continuations, seen'[d] # <<>>
               PROVE  \/ pr'[<<"npm", d>>].state = "Fulfilled"
                      \/ Resolve(<<"npm", d>>, "void") \in Items(stack)'
    BY DEF SeenOK
  <2>1. CASE d = c
    BY <1>1, <2>1
  <2>2. CASE d # c
    BY <1>1, <2>2 DEF SeenInv, SeenOK
  <2> QED BY <2>1, <2>2
<1>3. ASSUME NEW d \in Continuations, d # c, NEW o, JudgedOK(d, o) PROVE JudgedOK(d, o)'
  <2>1. seen'[d] = seen[d]
    BY <1>1, <1>3
  <2> QED BY <1>1, <1>3, <2>1 DEF JudgedOK
<1>4. ASSUME NEW b \in Blocks PROVE JudgedOK(<<"delivery", b>>, <<"blk", b>>)'
  <2>1. <<"delivery", b>> \in Continuations /\ JudgedOK(<<"delivery", b>>, <<"blk", b>>)
    BY ContinuationParts DEF SeenInv
  <2>2. CASE c = <<"delivery", b>>
    BY <2>2
  <2> QED BY <1>3, <2>1, <2>2
<1>5. ASSUME NEW r \in Relays
      PROVE  /\ JudgedOK(<<"relayed", r>>, <<"relay", r>>)'
             /\ seen'[<<"relayed", r>>] # <<>> => pr'[<<"deliver", RelayOf[r].blk>>].state = "Fulfilled"
  <2>1. /\ <<"relayed", r>> \in Continuations /\ JudgedOK(<<"relayed", r>>, <<"relay", r>>)
        /\ seen[<<"relayed", r>>] # <<>> => pr[<<"deliver", RelayOf[r].blk>>].state = "Fulfilled"
    BY ContinuationParts DEF SeenInv
  <2>2. CASE c = <<"relayed", r>>
    BY <2>2
  <2>3. CASE c # <<"relayed", r>>
    BY <1>1, <1>3, <2>1, <2>3
  <2> QED BY <2>2, <2>3
<1> QED BY <1>2, <1>4, <1>5 DEF SeenInv

(* A call of a continuation keeps the invariant if what it begins is new   *)
(* and what it records is right.                                           *)
LEMMA CalledStep ==
    ASSUME CtlInv, NEW c, NEW x, NEW steps, Called(c, x, steps),
           \A z \in Items(steps) : Shape(z) /\ (Sound(z) \/ Sound(z)'),
           \A o \in Owners : (Started(o) => Started(o)') /\ (Verified(o) => Verified(o)'),
           \A q \in Alls : AllRun(q)' <=> AllRun(q), KeyInv',
           \A g \in Callbacks : KCb(g) \in KeysOf(steps) =>
              ~ Live(g) /\ Born(g)' /\ ~ Done(g)' /\ g.cb # "next",
           \A b \in Blocks : c = <<"delivery", b>> => JudgedOK(c, <<"blk", b>>)',
           \A r \in Relays : c = <<"relayed", r>> =>
              JudgedOK(c, <<"relay", r>>)' /\ pr'[<<"deliver", RelayOf[r].blk>>].state = "Fulfilled"
    PROVE  CtlInv' /\ Grows
<1>1. /\ c \in Continuations /\ KCb(Continue(c)) \in Keys /\ seen[c] = <<>> /\ seen'[c] = <<x>>
      /\ DOMAIN seen' = Continuations
      /\ \A d \in Continuations : d # c => seen'[d] = seen[d]
      /\ pr' = pr /\ good' = good /\ setting' = setting /\ waits' = waits /\ thrown' = thrown
      /\ IsSeq(stack)' /\ Linear(stack)'
      /\ \A z : z \in Items(stack)' =>
           z \in Items(stack) \/ z \in Items(steps) \/ z = Resolve(<<"npm", c>>, "void")
      /\ Keys' = (Keys \ {KCb(Continue(c))}) \cup KeysOf(steps)
  BY DEF Called
<1>2. Grows
  <2>1. \A k \in 1..MaxWaits : Dropped(k) => Dropped(k)'
    <3> SUFFICES ASSUME NEW k \in 1..MaxWaits, Dropped(k) PROVE Dropped(k)'
      OBVIOUS
    <3>1. /\ <<"next", k>> \in Continuations /\ Continue(<<"next", k>>) \in Callbacks
          /\ Continue(<<"next", k>>).cb = "next"
      BY ContinuationParts, CallbacksThere, NextIs
    <3>2. KCb(Continue(<<"next", k>>)) \notin Keys /\ c # <<"next", k>>
      BY <1>1 DEF Dropped
    <3>3. KCb(Continue(<<"next", k>>)) \notin Keys' /\ seen'[<<"next", k>>] = seen[<<"next", k>>]
      BY <1>1, <3>1, <3>2
    <3> QED BY <1>1, <3>3 DEF Dropped
  <2>2. \A q \in Alls : /\ AllRun(q) => AllRun(q)'
                        /\ AllRun(q) /\ Full(q) => pr'[q].results = pr[q].results
    BY <1>1
  <2>3. \A q \in Promises :
         /\ pr[q].state # "None" => pr'[q].state # "None"
         /\ pr[q].state = "Fulfilled" =>
              pr'[q].state = "Fulfilled" /\ pr'[q].value = pr[q].value
    BY <1>1
  <2>4. waits \in Nat /\ waits' \in Nat /\ waits <= waits'
    BY <1>1, VeriPoolAssumption DEF CtlInv, TypeOK
  <2>5. \A d \in Continuations : seen[d] # <<>> => seen'[d] = seen[d]
    BY <1>1
  <2> QED BY <1>1, <2>1, <2>2, <2>3, <2>4, <2>5 DEF Grows
<1>3. Makes({})
  <2>1. \A d \in Continuations : seen'[d] = <<>> \/ \E y : seen'[d] = <<y>>
    BY <1>1 DEF CtlInv, TypeOK
  <2>2. DOMAIN pr' = Promises
    BY <1>1 DEF CtlInv, TypeOK
  <2> QED BY <1>1, <2>1, <2>2 DEF Makes
<1>4. Begins
  <2> SUFFICES ASSUME NEW g \in Callbacks
               PROVE  /\ KCb(g) \in Keys' => KCb(g) \in Keys \/ (~ Live(g) /\ Born(g)' /\ ~ Done(g)')
                      /\ Done(g)' => Done(g) \/ (KCb(g) \in Keys /\ KCb(g) \notin Keys')
    BY DEF Begins
  <2>1. KCb(g) \in Keys' => KCb(g) \in Keys \/ (~ Live(g) /\ Born(g)' /\ ~ Done(g)')
    BY <1>1
  <2>2. Done(g)' => Done(g) \/ (KCb(g) \in Keys /\ KCb(g) \notin Keys')
    <3> HAVE Done(g)'
    <3>1. CASE g.cb = "collect"
      BY <1>1, <3>1 DEF Done
    <3>2. CASE g.cb = "verdict"
      BY <3>2 DEF Done
    <3>3. CASE g.cb \notin {"collect", "verdict"}
      <4>1. PICK d : d = <<g.cb, g.id>>
        OBVIOUS
      <4>2. d \in Continuations /\ g = Continue(d)
        <5>1. \E e \in Continuations : g = Continue(e)
          <6>1. \/ \E p \in Alls : \E i \in DOMAIN Refs(p) : g = Collect(p, i)
                \/ \E o \in Owners : g = Verdict(o)
                \/ \E e \in Continuations : g = Continue(e)
            BY DEF Callbacks, Collects
          <6> QED BY <3>3, <6>1, CollectIs, VerdictIs
        <5>2. PICK e \in Continuations : g = Continue(e)
          BY <5>1
        <5>3. g.cb = e[1] /\ g.id = e[2]
          BY <5>2 DEF Continue
        <5>4. e = <<e[1], e[2]>>
          BY ContinuationParts
        <5> QED BY <4>1, <5>2, <5>3, <5>4
      <4>3. seen'[d] # <<>> /\ (Done(g) <=> seen[d] # <<>>)
        BY <3>3, <4>1 DEF Done
      <4>4. CASE d # c
        BY <1>1, <4>2, <4>3, <4>4
      <4>5. CASE d = c
        <5>1. KCb(g) \in Keys
          BY <1>1, <4>2, <4>5
        <5>2. KCb(g) \notin KeysOf(steps)
          BY <5>1 DEF Live
        <5> QED BY <1>1, <4>2, <4>5, <5>1, <5>2
      <4> QED BY <4>4, <4>5
    <3> QED BY <3>1, <3>2, <3>3
  <2> QED BY <2>1, <2>2
<1>5. \A z \in Items(stack)' : z \in Items(stack) \/ (Shape(z) /\ Sound(z)')
  <2>1. PICK z : z = Resolve(<<"npm", c>>, "void")
    OBVIOUS
  <2>2. Shape(z)
    BY <1>1, <2>1, PromisesThere, ItemShapes
  <2>3. Sound(z)'
    <3>1. z.op = "resolve" /\ z.p = <<"npm", c>> /\ z.v = "void"
      BY <2>1, OpsDiffer
    <3>2. z.p[1] = "npm" /\ z.p[2] = c
      BY <3>1
    <3>3. seen'[c] # <<>>
      BY <1>1
    <3>4. ValueOK(z.p, z.v)'
      BY <3>2, <3>3 DEF ValueOK
    <3> QED BY <3>1, <3>4 DEF Sound
  <2>4. \A y \in Items(steps) : Shape(y) /\ Sound(y)'
    BY <1>2, SoundStays
  <2> QED BY <1>1, <2>1, <2>2, <2>3, <2>4
<1>6. SeenInv'
  BY <1>1, <1>2, SeenAdded DEF CtlInv
<1>7. TypeOK' /\ StackInv' /\ KeyInv' /\ CbInv' /\ ListInv' /\ QcInv' /\ ResultInv' /\ SeenInv'
  BY <1>1, <1>2, <1>3, <1>4, <1>5, <1>6, MakeStep
<1> QED BY <1>2, <1>1, <1>7 DEF CtlInv

(* A continuation that begins no verification.                             *)
LEMMA PlainCalled ==
    ASSUME CtlInv, NEW c, NEW x, NEW steps, Called(c, x, steps), KeysOf(steps) = {},
           c[1] # "fetched",
           \A z \in Items(steps) : Shape(z) /\ (Sound(z) \/ Sound(z)'),
           \A b \in Blocks : c = <<"delivery", b>> => JudgedOK(c, <<"blk", b>>)',
           \A r \in Relays : c = <<"relayed", r>> =>
              JudgedOK(c, <<"relay", r>>)' /\ pr'[<<"deliver", RelayOf[r].blk>>].state = "Fulfilled"
    PROVE  CtlInv' /\ Grows
<1>1. /\ \A d \in Continuations : d # c => seen'[d] = seen[d]
      /\ pr' = pr /\ Keys' = Keys \ {KCb(Continue(c))}
  BY DEF Called
<1>2. \A z : /\ KVerify(z) \in Keys' <=> KVerify(z) \in Keys
             /\ KAll(z) \in Keys' <=> KAll(z) \in Keys
  BY <1>1, KeysDiffer
<1>3. FlagsStay
  <2>1. ASSUME NEW o \in Owners PROVE Started(o)' <=> Started(o)
    <3>1. CASE o[1] = "blk"
      <4>1. PICK b \in Blocks : o = <<"blk", b>>
        BY <3>1, OwnerParts
      <4>2. o[2] = b /\ <<"fetched", b>> \in Continuations
        BY <4>1, ContinuationParts
      <4>3. <<"fetched", b>> # c
        <5>1. <<"fetched", b>>[1] = "fetched"
          OBVIOUS
        <5> QED BY <5>1
      <4> QED BY <1>1, <3>1, <4>2, <4>3 DEF Started
    <3>2. CASE o[1] # "blk"
      BY <1>1, <1>2, <3>2 DEF Started
    <3> QED BY <3>1, <3>2
  <2> QED BY <1>2, <2>1 DEF FlagsStay
<1>4. /\ \A o \in Owners : (Started(o) => Started(o)') /\ (Verified(o) => Verified(o)')
      /\ \A q \in Alls : AllRun(q)' <=> AllRun(q)
      /\ KeyInv'
  BY <1>3, FlagsFacts DEF FlagsStay, CtlInv
<1> QED BY <1>4, CalledStep

(* What a continuation that waits at promise::all is called with.          *)
LEMMA JudgedBy ==
    ASSUME CtlInv, NEW c, NEW x, NEW steps, Called(c, x, steps), NEW o \in Owners,
           Home(Continue(c)) = <<"all", o>>, Continue(c).cb \notin {"forward", "next"}
    PROVE  LET p == <<"all", o>>
           IN  /\ DOMAIN v = DOMAIN Refs(p)
               /\ \A i \in DOMAIN Refs(p) : /\ pr[Refs(p)[i]].state = "Fulfilled"
                                            /\ v[i] = pr[Refs(p)[i]].value
<1> DEFINE p == <<"all", o>>
<1>1. Head(stack) = Call(Continue(c), v) /\ Sound(Head(stack))
  BY DEF Called
<1>2. Sound(Call(Continue(c), v))
  BY <1>1
<1>3. pr[p].state = "Fulfilled" /\ pr[p].value = v
  BY <1>2, ItemSounds
<1>4. p \in Alls
  BY AllParts
<1> HIDE DEF p
<1>5. /\ DOMAIN pr[p].value = DOMAIN Refs(p)
      /\ \A i \in DOMAIN Refs(p) : /\ pr[Refs(p)[i]].state = "Fulfilled"
                                   /\ pr[p].value[i] = pr[Refs(p)[i]].value
  BY <1>3, <1>4, CollectedAre
<1> QED BY <1>3, <1>5 DEF p

(* What the delivery of a block waits for: its certificate comes first.    *)
LEMMA BlkRefs ==
    ASSUME NEW b \in Blocks
    PROVE  /\ Refs(<<"all", <<"blk", b>>>>) =
                IF b = 1 THEN <<<<"cert", <<"blk", b>>>>>>
                ELSE <<<<"cert", <<"blk", b>>>>, <<"fetch", b - 1>>, <<"deliver", b - 1>>>>
           /\ 1 \in DOMAIN Refs(<<"all", <<"blk", b>>>>)
           /\ Refs(<<"all", <<"blk", b>>>>)[1] = <<"cert", <<"blk", b>>>>
<1>1. PICK p, o, c, f, d : /\ p = <<"all", o>> /\ o = <<"blk", b>> /\ c = <<"cert", o>>
                           /\ f = <<"fetch", b - 1>> /\ d = <<"deliver", b - 1>>
  OBVIOUS
<1>2. p[1] = "all" /\ p[2] = o /\ o[1] = "blk" /\ o[2] = b
  BY <1>1
<1>3. Refs(p) = IF b = 1 THEN <<c>> ELSE <<c, f, d>>
  BY <1>1, <1>2 DEF Refs
<1>4. 1 \in DOMAIN Refs(p) /\ Refs(p)[1] = c
  BY <1>3
<1> QED BY <1>1, <1>3, <1>4

(* What a relay waits for: the block first, then its certificate.          *)
LEMMA RelayRefs ==
    ASSUME NEW r \in Relays
    PROVE  /\ Refs(<<"all", <<"relay", r>>>>) =
                <<<<"deliver", RelayOf[r].blk>>, <<"cert", <<"relay", r>>>>>>
           /\ 1 \in DOMAIN Refs(<<"all", <<"relay", r>>>>)
           /\ 2 \in DOMAIN Refs(<<"all", <<"relay", r>>>>)
           /\ Refs(<<"all", <<"relay", r>>>>)[1] = <<"deliver", RelayOf[r].blk>>
           /\ Refs(<<"all", <<"relay", r>>>>)[2] = <<"cert", <<"relay", r>>>>
<1>1. PICK p, o, c, d : /\ p = <<"all", o>> /\ o = <<"relay", r>> /\ c = <<"cert", o>>
                        /\ d = <<"deliver", RelayOf[r].blk>>
  OBVIOUS
<1>2. p[1] = "all" /\ p[2] = o /\ o[1] = "relay" /\ o[2] = r
  BY <1>1
<1>3. Refs(p) = <<d, c>>
  BY <1>1, <1>2 DEF Refs
<1>4. 1 \in DOMAIN Refs(p) /\ 2 \in DOMAIN Refs(p) /\ Refs(p)[1] = d /\ Refs(p)[2] = c
  BY <1>3
<1> QED BY <1>1, <1>3, <1>4

(* The pacemaker goes on.                                                  *)
LEMMA NextStep ==
    ASSUME CtlInv, CallNext
    PROVE  CtlInv' /\ Grows
<1>1. PICK c, x : c = <<Head(stack).c.cb, Head(stack).c.id>> /\ x = v
  OBVIOUS
<1>2. /\ stack # <<>> /\ Head(stack).op = "call" /\ Head(stack).c.cb = "next"
      /\ Continuation(x, <<>>)
  BY <1>1 DEF CallNext, Calling, Top, cb
<1>3. Called(c, x, <<>>)
  BY <1>1, <1>2, NoSteps, ContinuationDoes DEF ContinuationKinds
<1>4. c[1] = "next"
  BY <1>1, <1>2
<1>5. \A y : c # <<"delivery", y>> /\ c # <<"relayed", y>>
  BY <1>4
<1> QED BY <1>3, <1>4, <1>5, NoSteps, PlainCalled

(* vote_relay_handler once the block is delivered and the verdict is in.   *)
LEMMA RelayedStep ==
    ASSUME CtlInv, CallRelayed
    PROVE  CtlInv' /\ Grows
<1>1. PICK c, x, r : c = <<Head(stack).c.cb, Head(stack).c.id>> /\ x = v[2] /\ r = Head(stack).c.id
  OBVIOUS
<1>2. /\ stack # <<>> /\ Head(stack).op = "call" /\ Head(stack).c.cb = "relayed"
      /\ Continuation(x, <<>>)
  BY <1>1 DEF CallRelayed, Calling, Top, cb
<1>3. Called(c, x, <<>>)
  BY <1>1, <1>2, NoSteps, ContinuationDoes DEF ContinuationKinds
<1>4. c = <<"relayed", r>>
  BY <1>1, <1>2
<1>5. r \in Relays
  <2>1. c \in Continuations
    BY <1>3 DEF Called
  <2> QED BY <1>4, <2>1, ContinuationParts
<1>6. <<"relay", r>> \in Owners
  BY <1>5, OwnerParts
<1>7. Home(Continue(c)) = <<"all", <<"relay", r>>>> /\ Continue(c).cb = "relayed"
  BY <1>4, RelayedIs
<1>8. /\ pr[<<"deliver", RelayOf[r].blk>>].state = "Fulfilled"
      /\ pr[<<"cert", <<"relay", r>>>>].state = "Fulfilled"
      /\ pr[<<"cert", <<"relay", r>>>>].value = x
  <2>1. \A i \in DOMAIN Refs(<<"all", <<"relay", r>>>>) :
           /\ pr[Refs(<<"all", <<"relay", r>>>>)[i]].state = "Fulfilled"
           /\ v[i] = pr[Refs(<<"all", <<"relay", r>>>>)[i]].value
    BY <1>3, <1>4, <1>6, <1>7, JudgedBy
  <2> QED BY <1>1, <1>5, <2>1, RelayRefs
<1>9. JudgedOK(c, <<"relay", r>>)' /\ pr' = pr
  <2>1. pr' = pr /\ seen'[c] = <<x>>
    BY <1>3 DEF Called
  <2>2. Head(<<x>>) = x
    OBVIOUS
  <2> QED BY <1>8, <2>1, <2>2 DEF JudgedOK
<1>10. \A y : c # <<"delivery", y>>
  BY <1>4
<1>11. \A y : c = <<"relayed", y>> => y = r
  BY <1>4
<1>12. c[1] # "fetched"
  BY <1>4
<1> QED BY <1>3, <1>8, <1>9, <1>10, <1>11, <1>12, NoSteps, PlainCalled

(* async_deliver_blk once the certificate of the block is judged.          *)
LEMMA DeliveryStep ==
    ASSUME CtlInv, CallDelivery
    PROVE  CtlInv' /\ Grows
<1>1. PICK c, x, b, steps :
         /\ c = <<Head(stack).c.cb, Head(stack).c.id>> /\ x = v[1] /\ b = Head(stack).c.id
         /\ steps = IF x = "true" THEN <<Resolve(<<"deliver", b>>, "blk")>> ELSE <<>>
  OBVIOUS
<1>2. /\ stack # <<>> /\ Head(stack).op = "call" /\ Head(stack).c.cb = "delivery"
      /\ Continuation(x, steps)
  BY <1>1 DEF CallDelivery, Calling, Top, cb
<1>3. /\ IsSeq(steps) /\ Linear(steps) /\ KeysOf(steps) = {}
      /\ \A z \in Items(steps) : z = Resolve(<<"deliver", b>>, "blk")
  <2>1. Key(Resolve(<<"deliver", b>>, "blk")) = Free
    BY KeyIs
  <2> QED BY <1>1, <2>1, NoSteps, OneStep
<1>4. Called(c, x, steps)
  BY <1>1, <1>2, <1>3, ContinuationDoes DEF ContinuationKinds
<1>5. c = <<"delivery", b>>
  BY <1>1, <1>2
<1>6. b \in Blocks
  <2>1. c \in Continuations
    BY <1>4 DEF Called
  <2> QED BY <1>5, <2>1, ContinuationParts
<1>7. <<"blk", b>> \in Owners
  BY <1>6, OwnerParts
<1>8. Home(Continue(c)) = <<"all", <<"blk", b>>>> /\ Continue(c).cb = "delivery"
  BY <1>5, DeliveryIs
<1>9. /\ pr[<<"cert", <<"blk", b>>>>].state = "Fulfilled"
      /\ pr[<<"cert", <<"blk", b>>>>].value = x
  <2>1. \A i \in DOMAIN Refs(<<"all", <<"blk", b>>>>) :
           /\ pr[Refs(<<"all", <<"blk", b>>>>)[i]].state = "Fulfilled"
           /\ v[i] = pr[Refs(<<"all", <<"blk", b>>>>)[i]].value
    BY <1>4, <1>5, <1>7, <1>8, JudgedBy
  <2> QED BY <1>1, <1>6, <2>1, BlkRefs
<1>10. JudgedOK(c, <<"blk", b>>)'
  <2>1. pr' = pr /\ seen'[c] = <<x>>
    BY <1>4 DEF Called
  <2>2. Head(<<x>>) = x
    OBVIOUS
  <2> QED BY <1>9, <2>1, <2>2 DEF JudgedOK
<1>11. \A z \in Items(steps) : Shape(z) /\ Sound(z)
  <2>1. PICK z : z = Resolve(<<"deliver", b>>, "blk")
    OBVIOUS
  <2>2. Shape(z)
    BY <1>6, <2>1, PromisesThere, ItemShapes
  <2>3. z.op = "resolve" /\ z.p = <<"deliver", b>> /\ z.v = "blk"
    BY <2>1, OpsDiffer
  <2>4. z.p[1] = "deliver"
    BY <2>3
  <2>5. Sound(z)
    BY <2>3, <2>4 DEF Sound, ValueOK
  <2> QED BY <1>3, <2>1, <2>2, <2>5
<1>12. \A y : c # <<"relayed", y>> /\ (c = <<"delivery", y>> => y = b)
  BY <1>5
<1>13. c[1] # "fetched"
  BY <1>5
<1> QED BY <1>3, <1>4, <1>10, <1>11, <1>12, <1>13, PlainCalled

(* The steps of async_deliver_blk once the block is fetched.               *)
LEMMA FetchedSteps ==
    ASSUME NEW b \in Blocks, NEW o, o = <<"blk", b>>, NEW steps,
           steps = <<Verify(o)>> \o (IF b = 1 THEN <<>> ELSE <<Deliver(b - 1)>>) \o
                   <<All(<<"all", o>>, Refs(<<"all", o>>)),
                     ThenDo(<<"all", o>>, <<"delivery", b>>)>>
    PROVE  /\ IsSeq(steps) /\ Linear(steps)
           /\ \A z \in Items(steps) : Shape(z) /\ Sound(z)
           /\ KeysOf(steps) = {KVerify(o), KAll(<<"all", o>>), KCb(Continue(<<"delivery", b>>))}
<1>1. PICK a, d, x, y, f :
         /\ a = Verify(o) /\ d = Deliver(b - 1) /\ x = All(<<"all", o>>, Refs(<<"all", o>>))
         /\ y = ThenDo(<<"all", o>>, <<"delivery", b>>) /\ f = Continue(<<"delivery", b>>)
  OBVIOUS
<1>2. PICK m : m = IF b = 1 THEN <<>> ELSE <<d>>
  OBVIOUS
<1>3. steps = <<a>> \o m \o <<x, y>>
  BY <1>1, <1>2
<1>4. o \in Owners /\ <<"all", o>> \in Alls /\ f \in Callbacks
  BY <1>1, OwnerParts, AllParts, ContinuationParts, CallbacksThere
<1>5. y = Then(Home(f), f, Forward(After(f)))
  BY <1>1, DeliveryIs DEF ThenDo
<1>6. b # 1 => b - 1 \in Blocks
  BY VeriPoolAssumption DEF Blocks
<1>7. /\ Shape(a) /\ Shape(x) /\ Shape(y) /\ (b # 1 => Shape(d))
  BY <1>1, <1>4, <1>5, <1>6, ItemShapes
<1>8. Sound(a) /\ Sound(x) /\ Sound(y) /\ Sound(d)
  BY <1>1, <1>5, ItemSounds
<1>9. /\ Key(a) = KVerify(o) /\ Key(x) = KAll(<<"all", o>>) /\ Key(y) = KCb(f) /\ Key(d) = Free
  BY <1>1, <1>5, KeyIs
<1>10. /\ IsSeq(<<a>>) /\ Linear(<<a>>) /\ Items(<<a>>) = {a} /\ KeysOf(<<a>>) = {KVerify(o)}
  BY <1>9, OneStep, KeysDiffer
<1>11. /\ IsSeq(m) /\ Linear(m) /\ KeysOf(m) = {} /\ \A z \in Items(m) : Shape(z) /\ Sound(z)
  BY <1>2, <1>7, <1>8, <1>9, NoSteps, OneStep
<1>12. /\ IsSeq(<<x, y>>) /\ Linear(<<x, y>>) /\ Items(<<x, y>>) = {x, y}
       /\ KeysOf(<<x, y>>) = {KAll(<<"all", o>>), KCb(f)}
  BY <1>9, TwoSteps, KeysDiffer
<1>13. PICK h : h = <<a>> \o m
  OBVIOUS
<1>14. /\ IsSeq(h) /\ Linear(h) /\ KeysOf(h) = {KVerify(o)}
       /\ \A z \in Items(h) : Shape(z) /\ Sound(z)
  <2>1. \A k \in KeysOf(<<a>>) : k \notin KeysOf(m)
    BY <1>11
  <2>2. /\ IsSeq(h) /\ Linear(h)
        /\ Items(h) = Items(<<a>>) \cup Items(m)
        /\ KeysOf(h) = KeysOf(<<a>>) \cup KeysOf(m)
    BY <1>10, <1>11, <1>13, <2>1, Joined
  <2> QED BY <1>7, <1>8, <1>10, <1>11, <2>2
<1>15. /\ IsSeq(h \o <<x, y>>) /\ Linear(h \o <<x, y>>)
       /\ Items(h \o <<x, y>>) = Items(h) \cup Items(<<x, y>>)
       /\ KeysOf(h \o <<x, y>>) = KeysOf(h) \cup KeysOf(<<x, y>>)
  <2>1. \A k \in KeysOf(h) : k \notin KeysOf(<<x, y>>)
    BY <1>12, <1>14, KeysDiffer
  <2> QED BY <1>12, <1>14, <2>1, Joined
<1>16. steps = h \o <<x, y>>
  BY <1>3, <1>13
<1> QED BY <1>1, <1>7, <1>8, <1>12, <1>14, <1>15, <1>16

(* async_deliver_blk once the block is fetched.                            *)
LEMMA FetchedStep ==
    ASSUME CtlInv, CallFetched
    PROVE  CtlInv' /\ Grows
<1>1. PICK c, x, b, o : /\ c = <<Head(stack).c.cb, Head(stack).c.id>> /\ x = v
                        /\ b = Head(stack).c.id /\ o = <<"blk", b>>
  OBVIOUS
<1>2. PICK steps :
           steps = <<Verify(o)>> \o (IF b = 1 THEN <<>> ELSE <<Deliver(b - 1)>>) \o
                   <<All(<<"all", o>>, Refs(<<"all", o>>)),
                     ThenDo(<<"all", o>>, <<"delivery", b>>)>>
  OBVIOUS
<1>3. stack # <<>> /\ Head(stack).op = "call" /\ Head(stack).c.cb = "fetched"
  BY DEF CallFetched, Calling, Top, cb
<1>4. b \in Blocks /\ Head(stack).c \in Callbacks
  <2>1. PICK s, f : s = Head(stack) /\ f = s.c
    OBVIOUS
  <2>2. Shape(s) /\ s.op = "call" /\ f.cb = "fetched"
    BY <1>3, <2>1, TopIs
  <2>3. f \in Callbacks \/ f = Forward(f.p)
    BY <2>1, <2>2, ShapeOf
  <2>4. f \in Callbacks
    BY <2>2, <2>3, CallbacksDiffer
  <2> QED BY <1>1, <2>1, <2>2, <2>4, CallbackOfKind
<1>5. Continuation(x, steps)
  <2>1. PICK refs, parent :
           /\ refs = IF b = 1 THEN <<>> ELSE <<<<"fetch", b - 1>>, <<"deliver", b - 1>>>>
           /\ parent = IF b = 1 THEN <<>> ELSE <<Deliver(b - 1)>>
    OBVIOUS
  <2>2. Continuation(x, <<Verify(o)>> \o parent \o
                        <<All(<<"all", o>>, <<<<"cert", o>>>> \o refs),
                          ThenDo(<<"all", o>>, <<"delivery", b>>)>>)
    BY <1>1, <2>1 DEF CallFetched, cb
  <2>3. <<<<"cert", o>>>> \o refs = Refs(<<"all", o>>)
    <3>1. PICK k, p, q : k = <<"cert", o>> /\ p = <<"fetch", b - 1>> /\ q = <<"deliver", b - 1>>
      OBVIOUS
    <3>2. <<k>> \o <<>> = <<k>>
      <4>1. <<k>> \in Seq({k})
        OBVIOUS
      <4> QED BY <4>1, ConcatEmptySeq
    <3>4. <<k>> \o <<p, q>> = <<k, p, q>>
      <4> DEFINE S == {k, p, q}
                 t == <<k>> \o <<p, q>>
      <4>1. <<k>> \in Seq(S) /\ <<p, q>> \in Seq(S) /\ <<k, p, q>> \in Seq(S)
        OBVIOUS
      <4>2. Len(<<k>>) = 1 /\ Len(<<p, q>>) = 2 /\ Len(<<k, p, q>>) = 3
        OBVIOUS
      <4> HIDE DEF S
      <4>3. /\ t \in Seq(S) /\ Len(t) = 3
            /\ \A i \in 1..3 : t[i] = IF i <= 1 THEN <<k>>[i] ELSE <<p, q>>[i - 1]
        BY <4>1, <4>2, ConcatProperties
      <4>4. t[1] = k /\ t[2] = p /\ t[3] = q
        BY <4>3
      <4>5. \A i \in 1..3 : t[i] = <<k, p, q>>[i]
        BY <4>4
      <4>6. PICK a, z : a = t /\ z = <<k, p, q>>
        OBVIOUS
      <4>7. a \in Seq(S) /\ z \in Seq(S) /\ Len(a) = 3 /\ Len(z) = 3 /\ \A i \in 1..3 : a[i] = z[i]
        BY <4>1, <4>2, <4>3, <4>5, <4>6
      <4>8. a = z
        BY ONLY <4>7, SeqEqual
      <4> QED BY <4>6, <4>8
    <3>3. Refs(<<"all", o>>) = IF b = 1 THEN <<k>> ELSE <<k, p, q>>
      BY <1>1, <1>4, <3>1, BlkRefs
    <3> QED BY <2>1, <3>1, <3>2, <3>3, <3>4
  <2> QED BY <1>2, <2>1, <2>2, <2>3
<1>6. c = <<"fetched", b>> /\ c \in Continuations
  BY <1>1, <1>3, <1>4, ContinuationParts
<1>7. /\ IsSeq(steps) /\ Linear(steps)
      /\ \A z \in Items(steps) : Shape(z) /\ Sound(z)
      /\ KeysOf(steps) = {KVerify(o), KAll(<<"all", o>>), KCb(Continue(<<"delivery", b>>))}
  BY <1>1, <1>2, <1>4, FetchedSteps
<1>8. PICK d, p : d = Continue(<<"delivery", b>>) /\ p = <<"all", o>>
  OBVIOUS
<1>9. /\ o \in Owners /\ o[1] = "blk" /\ o[2] = b /\ p \in Alls /\ p[1] = "all" /\ p[2] = o
      /\ d \in Callbacks /\ d.cb = "delivery" /\ d.id = b /\ p \in Promises
  BY <1>1, <1>4, <1>8, OwnerParts, AllParts, ContinuationParts, CallbacksThere, DeliveryIs
<1>10. ~ Started(o)
  <2>1. PICK s, f : s = Head(stack) /\ f = s.c
    OBVIOUS
  <2>2. Shape(s) /\ s.op = "call" /\ f.cb = "fetched" /\ f.id = b /\ f \in Callbacks
    BY <1>1, <1>3, <1>4, <2>1, TopIs
  <2>3. s = Call(f, s.v)
    BY <2>1, <2>2, ShapeOf
  <2>4. KCb(f) \in Keys
    BY <1>3, <2>1, <2>2, <2>3, KeyIs, TopIs, KeysDiffer
  <2>5. ~ Done(f)
    BY <2>2, <2>4 DEF CtlInv, CbInv, CbOK, Live
  <2> QED BY <1>9, <2>2, <2>5 DEF Done, Started
<1>11. KVerify(o) \notin Keys /\ KAll(p) \notin Keys /\ ~ Live(d) /\ ~ Done(d)
  <2>1. KVerify(o) \notin Keys
    BY <1>9, <1>10 DEF CtlInv, KeyInv
  <2>2. ~ AllBorn(p)
    BY <1>9, <1>10 DEF AllBorn
  <2>3. KAll(p) \notin Keys
    BY <1>9, <2>2 DEF CtlInv, KeyInv
  <2>4. ~ Born(d)
    BY <1>1, <1>9, <1>10 DEF Born
  <2> QED BY <1>9, <2>1, <2>3, <2>4 DEF CtlInv, CbInv, CbOK
<1>12. \A k \in KeysOf(steps) : k \notin Keys
  BY <1>7, <1>8, <1>11 DEF Live
<1>13. Called(c, x, steps)
  BY <1>1, <1>3, <1>5, <1>7, <1>12, ContinuationDoes DEF ContinuationKinds
<1>14. /\ seen'[c] = <<x>> /\ (\A e \in Continuations : e # c => seen'[e] = seen[e])
       /\ pr' = pr /\ Keys' = (Keys \ {KCb(Continue(c))}) \cup KeysOf(steps)
  BY <1>13 DEF Called
<1>15. \A z : /\ KVerify(z) \in Keys' <=> KVerify(z) \in Keys \/ z = o
              /\ KAll(z) \in Keys' <=> KAll(z) \in Keys \/ z = p
  BY <1>7, <1>8, <1>14, KeysDiffer
<1>16. \A u \in Owners : Started(u)' <=> Started(u) \/ u = o
  <2> SUFFICES ASSUME NEW u \in Owners PROVE Started(u)' <=> Started(u) \/ u = o
    OBVIOUS
  <2>1. CASE u[1] = "blk"
    <3>1. PICK e \in Blocks : u = <<"blk", e>>
      BY <2>1, OwnerParts
    <3>2. u[2] = e /\ <<"fetched", e>> \in Continuations /\ (u = o <=> e = b)
      BY <1>1, <3>1, ContinuationParts
    <3>3. <<"fetched", e>> = c <=> e = b
      BY <1>6
    <3>4. Started(u)' <=> seen'[<<"fetched", e>>] # <<>>
      BY <2>1, <3>2 DEF Started
    <3>5. Started(u) <=> seen[<<"fetched", e>>] # <<>>
      BY <2>1, <3>2 DEF Started
    <3>6. <<x>> # <<>>
      OBVIOUS
    <3> QED BY <1>14, <3>2, <3>3, <3>4, <3>5, <3>6
  <2>2. CASE u[1] # "blk"
    <3>1. <<"all", u>> # p /\ u # o
      BY <1>9, <2>2
    <3> QED BY <1>14, <1>15, <2>2, <3>1 DEF Started
  <2> QED BY <2>1, <2>2
<1>17. \A u \in Owners : Verified(u)' <=> Verified(u)
  BY <1>9, <1>10, <1>15, <1>16 DEF Verified
<1>18. \A q \in Alls : AllBorn(q)' <=> AllBorn(q) \/ q = p
  <2> SUFFICES ASSUME NEW q \in Alls PROVE AllBorn(q)' <=> AllBorn(q) \/ q = p
    OBVIOUS
  <2>1. q[2] \in Owners /\ q = <<q[1], q[2]>> /\ q[1] \in {"sigs", "all"}
    BY AllParts
  <2>2. CASE q[1] = "sigs"
    BY <1>9, <1>17, <2>1, <2>2 DEF AllBorn
  <2>3. CASE q[1] = "all"
    <3>1. q = p <=> q[2] = o
      BY <1>8, <2>1, <2>3
    <3> QED BY <1>16, <2>1, <2>3, <3>1 DEF AllBorn
  <2> QED BY <2>1, <2>2, <2>3
<1>19. \A q \in Alls : AllRun(q)' <=> AllRun(q)
  <2>1. ~ AllBorn(p)
    BY <1>9, <1>10 DEF AllBorn
  <2> QED BY <1>15, <1>18, <2>1 DEF AllRun
<1>20. KeyInv'
  <2>1. ASSUME NEW u \in Owners, KVerify(u) \in Keys' PROVE Started(u)'
    <3>1. KVerify(u) \in Keys => Started(u)
      BY DEF CtlInv, KeyInv
    <3> QED BY <1>15, <1>16, <2>1, <3>1
  <2>2. ASSUME NEW q \in Alls, KAll(q) \in Keys' PROVE AllBorn(q)'
    <3>1. KAll(q) \in Keys => AllBorn(q)
      BY DEF CtlInv, KeyInv
    <3> QED BY <1>15, <1>18, <2>2, <3>1
  <2> QED BY <2>1, <2>2 DEF KeyInv
<1>21. ASSUME NEW g \in Callbacks, KCb(g) \in KeysOf(steps)
       PROVE  ~ Live(g) /\ Born(g)' /\ ~ Done(g)' /\ g.cb # "next"
  <2>1. g = d
    BY <1>7, <1>8, <1>21, KeysDiffer
  <2>2. Started(o)'
    BY <1>9, <1>16
  <2>3. Born(d)'
    BY <1>1, <1>9, <2>2 DEF Born
  <2>4. <<"delivery", b>> \in Continuations /\ <<"delivery", b>> # c
    BY <1>4, <1>6, ContinuationParts
  <2>5. seen'[<<"delivery", b>>] = seen[<<"delivery", b>>]
    BY <1>14, <2>4
  <2>6. ~ Done(d)'
    BY <1>9, <1>11, <2>5 DEF Done
  <2> QED BY <1>9, <1>11, <2>1, <2>3, <2>6
<1>22. \A y : c # <<"relayed", y>> /\ c # <<"delivery", y>>
  BY <1>6
<1> QED BY <1>7, <1>13, <1>16, <1>17, <1>19, <1>20, <1>21, <1>22, CalledStep

(* A list of four steps, the first of them without a key.                  *)
LEMMA FourSteps ==
    ASSUME NEW a, NEW b, NEW c, NEW d, Key(a) = Free,
           Key(b) # Key(c), Key(b) # Key(d), Key(c) # Key(d)
    PROVE  /\ IsSeq(<<a, b, c, d>>) /\ Linear(<<a, b, c, d>>) /\ Items(<<a, b, c, d>>) = {a, b, c, d}
           /\ KeysOf(<<a, b, c, d>>) = {Key(b), Key(c), Key(d)} \ {Free}
<1>1. PICK t : t = <<a, b, c, d>>
  OBVIOUS
<1>2. DOMAIN t = {1, 2, 3, 4} /\ t[1] = a /\ t[2] = b /\ t[3] = c /\ t[4] = d /\ t \in Seq({a, b, c, d})
  BY <1>1
<1>3. Items(t) = {a, b, c, d}
  BY ONLY <1>2 DEF Items
<1>4. KeysOf(t) = {Key(a), Key(b), Key(c), Key(d)} \ {Free}
  BY ONLY <1>2 DEF KeysOf
<1>5. Linear(t)
  BY <1>2 DEF Linear
<1>6. IsSeq(t)
  BY <1>2, SeqIsSeq
<1> QED BY <1>1, <1>3, <1>4, <1>5, <1>6

(* A vote relay has come.                                                  *)
LEMMA RelayStep ==
    ASSUME CtlInv, NEW r \in Relays, VoteRelayHandler(r)
    PROVE  CtlInv' /\ Grows
<1>1. PICK o, p, f : o = <<"relay", r>> /\ p = <<"all", o>> /\ f = Continue(<<"relayed", r>>)
  OBVIOUS
<1>2. PICK a, b, c, d : /\ a = Deliver(RelayOf[r].blk) /\ b = Verify(o)
                        /\ c = All(p, Refs(p)) /\ d = ThenDo(p, <<"relayed", r>>)
  OBVIOUS
<1>3. /\ stack = <<>> /\ stack' = <<a, b, c, d>> /\ pr[p].state = "None"
      /\ pr' = pr /\ seen' = seen /\ good' = good /\ setting' = setting /\ waits' = waits
      /\ thrown' = thrown
  <2>1. Refs(p) = <<<<"deliver", RelayOf[r].blk>>, <<"cert", o>>>>
    BY <1>1, RelayRefs
  <2> QED BY <1>1, <1>2, <2>1 DEF VoteRelayHandler, Handler, Idle, own, threads
<1>4. /\ o \in Owners /\ o[1] # "blk" /\ p \in Alls /\ p[1] = "all" /\ p[2] = o /\ p \in Promises
      /\ f \in Callbacks /\ f.cb = "relayed" /\ f.id = r /\ Home(f) = p /\ RelayOf[r].blk \in Blocks
      /\ <<"npm", <<"relayed", r>>>> = After(f)
  BY <1>1, OwnerParts, AllParts, ContinuationParts, CallbacksThere, RelayedIs, VeriPoolAssumption
<1>5. d = Then(Home(f), f, Forward(After(f)))
  BY <1>1, <1>2, <1>4 DEF ThenDo
<1>6. Key(a) = Free /\ Key(b) = KVerify(o) /\ Key(c) = KAll(p) /\ Key(d) = KCb(f)
  BY <1>2, <1>5, KeyIs
<1>7. Shape(a) /\ Shape(b) /\ Shape(c) /\ Shape(d) /\ Sound(a) /\ Sound(b) /\ Sound(c) /\ Sound(d)
  BY <1>2, <1>4, <1>5, ItemShapes, ItemSounds
<1>8. Keys = {} /\ Items(stack) = {}
  BY <1>3, NoSteps DEF Keys
<1>9. /\ IsSeq(stack)' /\ Linear(stack)' /\ Items(stack)' = {a, b, c, d}
      /\ Keys' = {KVerify(o), KAll(p), KCb(f)}
  <2>1. /\ IsSeq(<<a, b, c, d>>) /\ Linear(<<a, b, c, d>>) /\ Items(<<a, b, c, d>>) = {a, b, c, d}
        /\ KeysOf(<<a, b, c, d>>) = {KVerify(o), KAll(p), KCb(f)}
    BY <1>6, FourSteps, KeysDiffer
  <2> QED BY <1>3, <2>1 DEF Keys
<1>10. \A z : /\ KVerify(z) \in Keys' <=> z = o
              /\ KAll(z) \in Keys' <=> z = p
              /\ KCb(z) \in Keys' <=> z = f
  BY <1>9, KeysDiffer
<1>11. ~ Started(o)
  BY <1>1, <1>3, <1>4, <1>8 DEF Started
<1>12. \A u \in Owners : Started(u)' <=> Started(u) \/ u = o
  <2> SUFFICES ASSUME NEW u \in Owners PROVE Started(u)' <=> Started(u) \/ u = o
    OBVIOUS
  <2>1. CASE u[1] = "blk"
    BY <1>3, <1>4, <2>1 DEF Started
  <2>2. CASE u[1] # "blk"
    <3>1. <<"all", u>> = p <=> u = o
      BY <1>1
    <3> QED BY <1>3, <1>8, <1>10, <2>2, <3>1 DEF Started
  <2> QED BY <2>1, <2>2
<1>13. \A u \in Owners : Verified(u)' <=> Verified(u)
  <2> SUFFICES ASSUME NEW u \in Owners PROVE Verified(u)' <=> Verified(u)
    OBVIOUS
  <2>1. KVerify(u) \notin Keys
    BY <1>8
  <2>2. CASE u = o
    BY <1>10, <1>11, <2>2 DEF Verified
  <2>3. CASE u # o
    BY <1>10, <1>12, <2>1, <2>3 DEF Verified
  <2> QED BY <2>2, <2>3
<1>14. \A q \in Alls : AllBorn(q)' <=> AllBorn(q) \/ q = p
  <2> SUFFICES ASSUME NEW q \in Alls PROVE AllBorn(q)' <=> AllBorn(q) \/ q = p
    OBVIOUS
  <2>1. q[2] \in Owners /\ q = <<q[1], q[2]>> /\ q[1] \in {"sigs", "all"}
    BY AllParts
  <2>2. CASE q[1] = "sigs"
    BY <1>4, <1>13, <2>1, <2>2 DEF AllBorn
  <2>3. CASE q[1] = "all"
    <3>1. q = p <=> q[2] = o
      BY <1>1, <2>1, <2>3
    <3> QED BY <1>12, <2>1, <2>3, <3>1 DEF AllBorn
  <2> QED BY <2>1, <2>2, <2>3
<1>15. ~ AllBorn(p)
  BY <1>4, <1>11 DEF AllBorn
<1>16. \A q \in Alls : AllRun(q)' <=> AllRun(q)
  <2> SUFFICES ASSUME NEW q \in Alls PROVE AllRun(q)' <=> AllRun(q)
    OBVIOUS
  <2>1. KAll(q) \notin Keys
    BY <1>8
  <2>2. CASE q = p
    BY <1>10, <1>15, <2>2 DEF AllRun
  <2>3. CASE q # p
    BY <1>10, <1>14, <2>1, <2>3 DEF AllRun
  <2> QED BY <2>2, <2>3
<1>17. Grows
  <2>1. \A k \in 1..MaxWaits : Dropped(k) => Dropped(k)'
    <3> SUFFICES ASSUME NEW k \in 1..MaxWaits, Dropped(k) PROVE Dropped(k)'
      OBVIOUS
    <3>2. Continue(<<"next", k>>) # f
      BY <1>4, NextIs
    <3> QED BY <1>3, <1>10, <3>2 DEF Dropped
  <2>2. \A q \in Alls : /\ AllRun(q) => AllRun(q)'
                        /\ AllRun(q) /\ Full(q) => pr'[q].results = pr[q].results
    BY <1>3, <1>16
  <2>3. \A q \in Promises :
         /\ pr[q].state # "None" => pr'[q].state # "None"
         /\ pr[q].state = "Fulfilled" =>
              pr'[q].state = "Fulfilled" /\ pr'[q].value = pr[q].value
    BY <1>3
  <2>4. waits \in Nat /\ waits' \in Nat /\ waits <= waits'
    BY <1>3, VeriPoolAssumption DEF CtlInv, TypeOK
  <2> QED BY <1>3, <1>12, <1>13, <2>1, <2>2, <2>3, <2>4 DEF Grows
<1>18. Makes({})
  <2>1. /\ DOMAIN seen' = Continuations /\ DOMAIN pr' = Promises
        /\ \A e \in Continuations : seen'[e] = <<>> \/ \E x : seen'[e] = <<x>>
    BY <1>3 DEF CtlInv, TypeOK
  <2> QED BY <1>3, <2>1 DEF Makes
<1>19. Begins
  <2> SUFFICES ASSUME NEW g \in Callbacks
               PROVE  /\ KCb(g) \in Keys' => ~ Live(g) /\ Born(g)' /\ ~ Done(g)'
                      /\ Done(g)' => Done(g)
    BY DEF Begins
  <2>1. Done(g)' => Done(g)
    BY <1>3 DEF Done
  <2>2. ASSUME g = f PROVE ~ Live(g) /\ Born(g)' /\ ~ Done(g)
    <3>1. ~ Born(g)
      BY <1>1, <1>4, <1>11, <2>2 DEF Born
    <3>2. Started(o)'
      BY <1>4, <1>12
    <3>3. Born(g)'
      BY <1>1, <1>4, <2>2, <3>2 DEF Born
    <3> QED BY <1>4, <2>2, <3>1, <3>3 DEF CtlInv, CbInv, CbOK
  <2> QED BY <1>10, <2>1, <2>2
<1>20. KeyInv'
  <2>1. \A u \in Owners : KVerify(u) \in Keys' => Started(u)'
    BY <1>10, <1>12
  <2>2. \A q \in Alls : KAll(q) \in Keys' => AllBorn(q)'
    BY <1>10, <1>14
  <2> QED BY <2>1, <2>2 DEF KeyInv
<1>21. SeenInv'
  <2>1. \A e \in Continuations : Resolve(<<"npm", e>>, "void") \notin Items(stack)
    BY <1>8
  <2> QED BY <1>3, <1>17, <2>1, SeenStays DEF CtlInv
<1>22. \A z \in Items(stack)' : z \in Items(stack) \/ (Shape(z) /\ Sound(z)')
  BY <1>7, <1>9, <1>17, SoundStays
<1>23. TypeOK' /\ StackInv' /\ KeyInv' /\ CbInv' /\ ListInv' /\ QcInv' /\ ResultInv' /\ SeenInv'
  BY <1>9, <1>16, <1>17, <1>18, <1>19, <1>20, <1>21, <1>22, MakeStep
<1> QED BY <1>17, <1>3, <1>23 DEF CtlInv

(* In the initial state nothing has begun.                                 *)
LEMMA CtlInit ==
    ASSUME Init
    PROVE  CtlInv
<1>1. /\ pr = [p \in Promises |-> IF p[1] = "qc" THEN Made ELSE Unmade]
      /\ stack = <<>> /\ seen = [c \in Continuations |-> <<>>] /\ thrown = FALSE
      /\ waits = 0 /\ setting \in Settings /\ good \in [Tasks -> {"true", "false"}]
  BY DEF Init
<1>2. Items(<<>>) = {} /\ IsSeq(<<>>) /\ Inj(<<>>) /\ Linear(<<>>)
  BY NoSteps DEF Inj
<1>3. Keys = {} /\ Items(stack) = {}
  BY <1>1, NoSteps DEF Keys
<1>4. ASSUME NEW p \in Promises
      PROVE  /\ DOMAIN pr[p] = Fields /\ pr[p].state \in {"None", "Pending"}
             /\ pr[p].onF = <<>> /\ pr[p].onR = <<>>
             /\ p[1] # "qc" => pr[p].state = "None"
  <2>1. \A m \in {Made, Unmade} : DOMAIN m = Fields /\ m.onF = <<>> /\ m.onR = <<>>
    BY DEF Made, Unmade, Fields
  <2>2. Made.state = "Pending" /\ Unmade.state = "None"
    BY DEF Made, Unmade
  <2>3. pr[p] = IF p[1] = "qc" THEN Made ELSE Unmade
    BY <1>1
  <2> QED BY <2>1, <2>2, <2>3
<1>5. \A o \in Owners : ~ Started(o)
  <2> SUFFICES ASSUME NEW o \in Owners PROVE ~ Started(o)
    OBVIOUS
  <2>1. CASE o[1] = "blk"
    <3>1. PICK b \in Blocks : o = <<"blk", b>>
      BY <2>1, OwnerParts
    <3>2. o[2] = b /\ <<"fetched", b>> \in Continuations
      BY <3>1, ContinuationParts
    <3> QED BY <1>1, <2>1, <3>2 DEF Started
  <2>2. CASE o[1] # "blk"
    <3>1. <<"all", o>> \in Promises /\ <<"all", o>>[1] # "qc"
      BY PromisesThere
    <3>2. pr[<<"all", o>>].state = "None"
      BY <1>4, <3>1
    <3> QED BY <1>3, <2>2, <3>2 DEF Started
  <2> QED BY <2>1, <2>2
<1>6. TypeOK
  <2>1. waits \in 0..MaxWaits
    BY <1>1, VeriPoolAssumption
  <2>2. DOMAIN pr = Promises /\ DOMAIN seen = Continuations /\ \A c \in Continuations : seen[c] = <<>>
    BY <1>1
  <2>3. \A p \in Promises :
         /\ DOMAIN pr[p] = Fields
         /\ pr[p].state \in {"None", "Pending", "Fulfilled", "Rejected"}
         /\ IsSeq(pr[p].onF) /\ \A f \in Items(pr[p].onF) : f \in Callbacks
         /\ IsSeq(pr[p].onR) /\ \A f \in Items(pr[p].onR) : f.cb = "forward"
    BY <1>2, <1>4
  <2> QED BY <1>1, <2>1, <2>2, <2>3 DEF TypeOK
<1>7. StackInv
  BY <1>1, <1>2, <1>3 DEF StackInv
<1>8. KeyInv
  BY <1>3 DEF KeyInv
<1>9. CbInv
  <2> SUFFICES ASSUME NEW f \in Callbacks PROVE CbOK(f)
    BY DEF CbInv
  <2>1. KCb(f) \notin Keys
    BY <1>3
  <2>2. ~ Waiting(f)
    <3>1. Home(f) \in Promises
      BY CallbackPlaces
    <3>2. pr[Home(f)].onF = <<>>
      BY <1>4, <3>1
    <3> QED BY <1>2, <3>2 DEF Waiting
  <2>3. f.cb # "collect" => ~ Done(f)
    <3>1. CASE f.cb = "verdict"
      BY <3>1 DEF Done
    <3>2. CASE f.cb \notin {"collect", "verdict"}
      <4>1. \/ \E p \in Alls : \E i \in DOMAIN Refs(p) : f = Collect(p, i)
            \/ \E o \in Owners : f = Verdict(o)
            \/ \E e \in Continuations : f = Continue(e)
        BY DEF Callbacks, Collects
      <4>2. PICK e \in Continuations : f = Continue(e)
        BY <3>2, <4>1, CollectIs, VerdictIs
      <4>3. f.cb = e[1] /\ f.id = e[2]
        BY <4>2 DEF Continue
      <4>4. e = <<e[1], e[2]>>
        BY ContinuationParts
      <4>5. seen[<<f.cb, f.id>>] = <<>>
        BY <1>1, <4>3, <4>4
      <4> QED BY <3>2, <4>5 DEF Done
    <3> QED BY <3>1, <3>2
  <2> QED BY <2>1, <2>2, <2>3 DEF CbOK, Live
<1>10. ListInv
  <2> SUFFICES ASSUME NEW p \in Promises PROVE ListOK(p)
    BY DEF ListInv
  <2>1. pr[p].onF = <<>> /\ pr[p].onR = <<>> /\ pr[p].state \in {"None", "Pending"}
    BY <1>4
  <2> QED BY <1>2, <2>1 DEF ListOK
<1>11. QcInv
  BY <1>2, <1>4, PromisesThere DEF QcInv
<1>12. ResultInv
  <2>1. \A p \in Alls : ~ AllRun(p)
    BY <1>5, AllParts DEF AllRun, AllBorn, Verified
  <2> QED BY <2>1 DEF ResultInv
<1>13. SeenInv
  <2>1. \A c \in Continuations : seen[c] = <<>>
    BY <1>1
  <2> QED BY <2>1, ContinuationParts DEF SeenInv, SeenOK, JudgedOK
<1> QED BY <1>1, <1>6, <1>7, <1>8, <1>9, <1>10, <1>11, <1>12, <1>13 DEF CtlInv

(* A step of a thread, or none.                                            *)
LEMMA CtlIdle ==
    ASSUME CtlInv, UNCHANGED mainVars, good' = good
    PROVE  CtlInv' /\ Grows
<1>1. /\ pr' = pr /\ stack' = stack /\ seen' = seen /\ setting' = setting /\ waits' = waits
      /\ thrown' = thrown
  BY DEF mainVars
<1>2. /\ Keys' = Keys /\ Items(stack)' = Items(stack) /\ (IsSeq(stack)' <=> IsSeq(stack))
      /\ Linear(stack)' <=> Linear(stack)
  BY <1>1 DEF Keys, KeysOf, Items, IsSeq, Linear
<1>3. Quiet
  <2>1. IsSeq(stack) /\ Linear(stack) /\ waits \in 0..MaxWaits
    BY DEF CtlInv, StackInv, TypeOK
  <2>2. waits' \in waits..MaxWaits
    BY <1>1, <2>1, VeriPoolAssumption
  <2> QED BY <1>1, <1>2, <2>1, <2>2 DEF Quiet, Dropped
<1> QED BY <1>2, <1>3, QuietStep

(* Every step keeps what is said of the main thread.                       *)
LEMMA CtlStep ==
    ASSUME CtlInv, PoolInv, [Next]_vars
    PROVE  CtlInv' /\ Grows
<1>1. CASE UNCHANGED vars
  BY <1>1, CtlIdle DEF vars, mainVars
<1>2. ASSUME NEW w \in Workers, WorkerWakes(w) \/ WorkerTakes(w) \/ WorkerDone(w) PROVE CtlInv' /\ Grows
  <2>1. UNCHANGED mainVars /\ good' = good
    BY <1>2 DEF WorkerWakes, WorkerTakes, WorkerDone
  <2> QED BY <2>1, CtlIdle
<1>3. CASE Step
  <2>1. CASE RunResolve
    BY <2>1, ResolveAgain, ResolveFirst
  <2>2. CASE RunReject
    BY <2>2, RejectAgain, RejectFirst
  <2>3. CASE RunThen
    BY <2>3, ThenAtOnce, ThenRejected, ThenLater
  <2>4. CASE RunDeliver
    BY <2>4, DeliverAgain, DeliverFirst
  <2>5. CASE PoolHandler
    BY <2>5, HandlerSteps
  <2> QED BY <1>3, <2>1, <2>2, <2>3, <2>4, <2>5, AllStep, VerifyStep, CollectStep, ForwardStep,
             VerdictStep, FetchedStep, DeliveryStep, RelayedStep, NextStep, DrainStep, EraseStep
             DEF Step
<1>4. ASSUME NEW b \in Blocks, OnFetchBlk(b) \/ ProposeHandler(b) PROVE CtlInv' /\ Grows
  BY <1>4, HandlerSteps
<1>5. setting.proposed \subseteq Blocks /\ setting.relays \subseteq Relays
  BY VeriPoolAssumption DEF CtlInv, TypeOK
<1>6. ASSUME NEW r \in setting.relays, VoteRelayHandler(r) PROVE CtlInv' /\ Grows
  BY <1>5, <1>6, RelayStep
<1>7. CASE WaitQc \/ GiveUp \/ QcFinish
  BY <1>7, WaitStep, HandlerSteps
<1> QED BY <1>1, <1>2, <1>3, <1>4, <1>5, <1>6, <1>7 DEF Next

(* Lists of steps that erase nothing.                                      *)
Erases(st, t) == \E z \in Items(st) : z.op = "erase" /\ z.t = t
NoErase(st) == IsSeq(st) /\ \A z \in Items(st) : z.op # "erase"

(* The key of Erase(t) tells that a step erases t.                         *)
LEMMA KeyErases ==
    ASSUME NEW st, NEW t
    PROVE  KErase(t) \in KeysOf(st) <=> Erases(st, t)
<1>1. \A z : Key(z) = KErase(t) <=> z.op = "erase" /\ z.t = t
  <2> SUFFICES ASSUME NEW z PROVE Key(z) = KErase(t) <=> z.op = "erase" /\ z.t = t
    OBVIOUS
  <2>1. CASE z.op = "erase"
    BY <2>1, KeysDiffer DEF Key
  <2>2. CASE z.op # "erase"
    <3>1. \/ Key(z) = KCb(z.f) \/ Key(z) = KCb(z.c) \/ Key(z) = KAll(z.p) \/ Key(z) = KVerify(z.o)
          \/ Key(z) = Free
      BY <2>2 DEF Key
    <3> QED BY <2>2, <3>1, KeysDiffer
  <2> QED BY <2>1, <2>2
<1> QED BY <1>1, KeysDiffer DEF KeysOf, Erases, Items

(* The items of two lists together.                                        *)
LEMMA ItemsJoined ==
    ASSUME NEW a, NEW b, IsSeq(a), IsSeq(b)
    PROVE  IsSeq(a \o b) /\ Items(a \o b) = Items(a) \cup Items(b)
<1> DEFINE S == Items(a) \cup Items(b)
<1>1. a \in Seq(S) /\ b \in Seq(S)
  BY DEF IsSeq
<1> HIDE DEF S
<1>2. /\ a \o b \in Seq(S) /\ Len(a \o b) = Len(a) + Len(b)
      /\ \A i \in 1..Len(a) + Len(b) : (a \o b)[i] = IF i <= Len(a) THEN a[i] ELSE b[i - Len(a)]
  BY <1>1, ConcatProperties
<1>3. /\ DOMAIN a = 1..Len(a) /\ DOMAIN b = 1..Len(b) /\ Len(a) \in Nat /\ Len(b) \in Nat
      /\ DOMAIN (a \o b) = 1..Len(a) + Len(b)
  BY <1>1, <1>2, LenProperties
<1>4. IsSeq(a \o b)
  BY <1>2, SeqIsSeq
<1>5. \A z : z \in Items(a) => z \in Items(a \o b)
  <2> SUFFICES ASSUME NEW i \in 1..Len(a) PROVE a[i] \in Items(a \o b)
    BY <1>3 DEF Items
  <2>1. i \in 1..Len(a) + Len(b) /\ (a \o b)[i] = a[i]
    BY <1>2, <1>3
  <2> QED BY <1>3, <2>1 DEF Items
<1>6. \A z : z \in Items(b) => z \in Items(a \o b)
  <2> SUFFICES ASSUME NEW i \in 1..Len(b) PROVE b[i] \in Items(a \o b)
    BY <1>3 DEF Items
  <2>1. i + Len(a) \in 1..Len(a) + Len(b) /\ (a \o b)[i + Len(a)] = b[i]
    BY <1>2, <1>3
  <2> QED BY <1>3, <2>1 DEF Items
<1>7. Items(a \o b) \subseteq S
  BY <1>2, SeqIsSeq
<1> QED BY <1>4, <1>5, <1>6, <1>7 DEF S

(* Short lists of steps that erase nothing, and what they make together.   *)
LEMMA NoErases ==
    /\ NoErase(<<>>)
    /\ \A a : a.op # "erase" => NoErase(<<a>>)
    /\ \A a, b : a.op # "erase" /\ b.op # "erase" => NoErase(<<a, b>>)
    /\ \A a, b : NoErase(a) /\ NoErase(b) => NoErase(a \o b)
    /\ \A st, a : NoErase(st) /\ a.op # "erase" => NoErase(Append(st, a))
<1>1. NoErase(<<>>)
  BY NoSteps DEF NoErase
<1>2. \A a : a.op # "erase" => NoErase(<<a>>)
  <2> SUFFICES ASSUME NEW a, a.op # "erase" PROVE NoErase(<<a>>)
    OBVIOUS
  <2>1. IsSeq(<<a>>) /\ Items(<<a>>) = {a}
    BY OneStep
  <2> QED BY <2>1 DEF NoErase
<1>3. \A a, b : NoErase(a) /\ NoErase(b) => NoErase(a \o b)
  BY ItemsJoined DEF NoErase
<1>4. \A st, a : NoErase(st) /\ a.op # "erase" => NoErase(Append(st, a))
  BY AppendedIs DEF NoErase
<1>5. ASSUME NEW a, NEW b, a.op # "erase", b.op # "erase" PROVE NoErase(<<a, b>>)
  <2>1. PICK t : t = <<a, b>>
    OBVIOUS
  <2>2. DOMAIN t = {1, 2} /\ t[1] = a /\ t[2] = b /\ t \in Seq({a, b})
    BY <2>1
  <2>3. Items(t) = {a, b}
    BY ONLY <2>2 DEF Items
  <2> QED BY <1>5, <2>1, <2>2, <2>3, SeqIsSeq DEF NoErase
<1> QED BY <1>1, <1>2, <1>3, <1>4, <1>5

(* A step that erases nothing and begins nothing that does.                *)
LEMMA ErasesStay ==
    ASSUME CtlInv, stack # <<>>, Head(stack).op # "erase", NEW new, Do(new), NoErase(new)
    PROVE  \A t : KErase(t) \in Keys' <=> KErase(t) \in Keys
<1>1. /\ IsSeq(Tail(stack)) /\ Items(stack) = {Head(stack)} \cup Items(Tail(stack))
  BY Popped DEF CtlInv, StackInv
<1>2. Items(new \o Tail(stack)) = Items(new) \cup Items(Tail(stack))
  BY <1>1, ItemsJoined DEF NoErase
<1>3. stack' = new \o Tail(stack)
  BY DEF Do
<1> SUFFICES ASSUME NEW t PROVE KErase(t) \in Keys' <=> KErase(t) \in Keys
  OBVIOUS
<1>4. KErase(t) \in Keys <=> Erases(stack, t)
  BY KeyErases DEF Keys
<1>5. KErase(t) \in KeysOf(new \o Tail(stack)) <=> Erases(new \o Tail(stack), t)
  BY KeyErases
<1>6. KErase(t) \in Keys' <=> KErase(t) \in KeysOf(new \o Tail(stack))
  BY <1>3 DEF Keys
<1>7. Erases(new \o Tail(stack), t) <=> Erases(stack, t)
  BY <1>1, <1>2 DEF Erases, NoErase
<1> QED BY <1>4, <1>5, <1>6, <1>7

(* The owner of a task; no task is None.                                   *)
LEMMA TaskOwner ==
    ASSUME NEW t \in Tasks
    PROVE  t[2] \in Owners /\ t # None
<1>1. PICK o \in Owners : \E i \in 1..Sigs(o) : t = <<"task", o, i>>
  BY TaskParts
<1>2. t[1] = "task" /\ t[2] = o
  BY <1>1
<1>3. None[1] = "none"
  BY DEF None
<1> QED BY <1>2, <1>3

(* The tasks stay where they are.                                          *)
LEMMA PoolStays ==
    ASSUME PoolInv, Grows, in_queue' = in_queue, out_queue' = out_queue, work' = work, pms' = pms,
           \A t : KErase(t) \in Keys' <=> KErase(t) \in Keys
    PROVE  PoolInv'
<1>1. \A t, x : At(t, x)' <=> At(t, x)
  BY DEF At, Items
<1>2. PoolTypeOK' /\ Inj(in_queue)' /\ \A w \in Workers : Inj(out_queue[w])'
  <2>1. Inj(in_queue)' /\ \A w \in Workers : Inj(out_queue[w])'
    BY DEF PoolInv, Inj
  <2>2. PoolTypeOK
    BY DEF PoolInv
  <2>3. PoolTypeOK' <=> PoolTypeOK
    BY DEF PoolTypeOK, Items, IsSeq
  <2> QED BY <2>1, <2>2, <2>3
<1>3. \A t \in pms' : t \in Tasks /\ Verified(t[2])'
  BY TaskOwner DEF PoolInv, Grows
<1>4. /\ \A t \in Tasks : \A x, y \in Places : At(t, x) /\ At(t, y) => x = y
      /\ \A t \in Tasks : t \in pms <=> \E x \in Places : At(t, x)
  BY DEF PoolInv
<1>5. /\ \A t \in Tasks : \A x, y \in Places : At(t, x)' /\ At(t, y)' => x = y
      /\ \A t \in Tasks : t \in pms' <=> \E x \in Places : At(t, x)'
  BY <1>1, <1>4
<1> QED BY <1>2, <1>3, <1>5 DEF PoolInv

(* A handler starts.                                                       *)
LEMMA HandlerErases ==
    ASSUME CtlInv, stack = <<>>, \A z \in Items(stack)' : z.op # "erase"
    PROVE  \A t : KErase(t) \in Keys' <=> KErase(t) \in Keys
<1> SUFFICES ASSUME NEW t PROVE KErase(t) \notin Keys' /\ KErase(t) \notin Keys
  OBVIOUS
<1>1. KErase(t) \notin Keys
  BY NoSteps DEF Keys
<1>2. PICK st : st = stack'
  OBVIOUS
<1>3. ~ Erases(st, t)
  BY <1>2 DEF Erases, Items
<1>4. KErase(t) \notin KeysOf(st)
  BY <1>3, KeyErases
<1> QED BY <1>1, <1>2, <1>4 DEF Keys

(* Erase is the only step that erases.                                     *)
LEMMA ErasesOps ==
    /\ \A p, x : Resolve(p, x).op # "erase" /\ Reject(p, x).op # "erase"
    /\ \A p, f, r : Then(p, f, r).op # "erase"
    /\ \A p, ps : All(p, ps).op # "erase"
    /\ \A c, x : Call(c, x).op # "erase"
    /\ \A x : Verify(x).op # "erase" /\ Deliver(x).op # "erase" /\ Drain(x).op # "erase"
    /\ \A t : Erase(t).op = "erase" /\ Erase(t).t = t
    /\ \A p, c : ThenDo(p, c).op # "erase"
  BY DEF Resolve, Reject, Then, All, Call, Verify, Deliver, Drain, Erase, ThenDo

(* The steps of the main thread that touch neither a queue nor pms.        *)
LEMMA PlainErases ==
    ASSUME CtlInv,
           \/ RunResolve \/ RunReject \/ RunThen \/ RunAll \/ RunDeliver
           \/ CallCollect \/ CallForward \/ CallVerdict \/ CallFetched \/ CallDelivery
           \/ CallRelayed \/ CallNext
    PROVE  /\ \A t : KErase(t) \in Keys' <=> KErase(t) \in Keys
           /\ in_queue' = in_queue /\ out_queue' = out_queue /\ work' = work /\ pms' = pms
<1> USE DEF Top
<1>1. PICK s : s = Head(stack)
  OBVIOUS
<1>2. ASSUME RunResolve \/ RunReject PROVE \E new : Do(new) /\ NoErase(new)
  <2>1. stack # <<>> /\ s.op \in {"resolve", "reject"}
    BY <1>1, <1>2 DEF RunResolve, RunReject
  <2>2. s.p \in Promises
    BY <1>1, <2>1, TopIs, ShapeOf
  <2>3. IsSeq(pr[s.p].onF) /\ IsSeq(pr[s.p].onR)
    BY <2>2 DEF CtlInv, TypeOK
  <2>4. NoErase(Calls(pr[s.p].onF, s.v)) /\ NoErase(Calls(pr[s.p].onR, s.v))
    BY <2>3, CallsAre, ErasesOps DEF NoErase
  <2>5. Do(<<>>) \/ Do(Calls(pr[s.p].onF, s.v)) \/ Do(Calls(pr[s.p].onR, s.v))
    BY <1>1, <1>2 DEF RunResolve, RunReject, Settle
  <2> QED BY <2>4, <2>5, NoErases
<1>3. ASSUME RunThen PROVE \E new : Do(new) /\ NoErase(new)
  <2>1. \/ Do(<<Call(s.f, pr[s.p].value)>>) \/ Do(<<Call(s.r, pr[s.p].value)>>) \/ Do(<<>>)
    BY <1>1, <1>3 DEF RunThen
  <2>2. NoErase(<<Call(s.f, pr[s.p].value)>>) /\ NoErase(<<Call(s.r, pr[s.p].value)>>) /\ NoErase(<<>>)
    BY NoErases, ErasesOps
  <2> QED BY <2>1, <2>2
<1>4. ASSUME RunAll PROVE \E new : Do(new) /\ NoErase(new)
  <2>1. stack # <<>> /\ s.op = "all"
    BY <1>1, <1>4 DEF RunAll
  <2>2. s.p \in Alls /\ s.ps = Refs(s.p)
    BY <1>1, <2>1, TopIs, ShapeOf
  <2>3. PICK new : new = [i \in 1..Len(Refs(s.p)) |-> Then(Refs(s.p)[i], Collect(s.p, i), Forward(s.p))]
    OBVIOUS
  <2>4. Do(new)
    BY <1>1, <1>4, <2>2, <2>3 DEF RunAll
  <2>5. IsSeq(new)
    BY <2>2, <2>3, ThensAre
  <2>6. \A z \in Items(new) : z.op # "erase"
    BY <2>3, ErasesOps DEF Items
  <2> QED BY <2>4, <2>5, <2>6 DEF NoErase
<1>5. ASSUME RunDeliver PROVE \E new : Do(new) /\ NoErase(new)
  <2>1. \/ Do(<<ThenDo(<<"fetch", s.b>>, <<"fetched", s.b>>)>>) \/ Do(<<>>)
    BY <1>1, <1>5 DEF RunDeliver
  <2>2. NoErase(<<ThenDo(<<"fetch", s.b>>, <<"fetched", s.b>>)>>) /\ NoErase(<<>>)
    BY NoErases, ErasesOps
  <2> QED BY <2>1, <2>2
<1>6. ASSUME CallCollect \/ CallForward \/ CallVerdict PROVE \E new : Do(new) /\ NoErase(new)
  <2>1. \E p, x : Do(<<Resolve(p, x)>>) \/ Do(<<Reject(p, x)>>) \/ Do(<<>>)
    BY <1>6 DEF CallCollect, CallForward, CallVerdict
  <2>2. \A p, x : NoErase(<<Resolve(p, x)>>) /\ NoErase(<<Reject(p, x)>>) /\ NoErase(<<>>)
    BY NoErases, ErasesOps
  <2> QED BY <2>1, <2>2
<1>7. ASSUME NEW x, NEW steps, Continuation(x, steps), NoErase(steps)
      PROVE  \E new : Do(new) /\ NoErase(new)
  <2>1. PICK d : d = Resolve(<<"npm", <<cb.cb, cb.id>>>>, "void")
    OBVIOUS
  <2>2. Do(Append(steps, d))
    BY <1>7, <2>1 DEF Continuation
  <2>3. NoErase(Append(steps, d))
    BY <1>7, <2>1, NoErases, ErasesOps
  <2> QED BY <2>2, <2>3
<1>8. ASSUME CallNext \/ CallRelayed PROVE \E new : Do(new) /\ NoErase(new)
  <2>1. \E x : Continuation(x, <<>>)
    BY <1>8 DEF CallNext, CallRelayed
  <2> QED BY <1>7, <2>1, NoErases
<1>9. ASSUME CallDelivery PROVE \E new : Do(new) /\ NoErase(new)
  <2>1. PICK z : z = Resolve(<<"deliver", cb.id>>, "blk")
    OBVIOUS
  <2>2. Continuation(v[1], <<z>>) \/ Continuation(v[1], <<>>)
    BY <1>9, <2>1 DEF CallDelivery
  <2>3. NoErase(<<z>>) /\ NoErase(<<>>)
    BY <2>1, NoErases, ErasesOps
  <2> QED BY <1>7, <2>2, <2>3
<1>10. ASSUME CallFetched PROVE \E new : Do(new) /\ NoErase(new)
  <2>1. PICK a, m, x, y :
           /\ a.op # "erase" /\ x.op # "erase" /\ y.op # "erase" /\ NoErase(m)
           /\ Continuation(v, <<a>> \o m \o <<x, y>>)
    <3>1. PICK b, o : b = cb.id /\ o = <<"blk", b>>
      OBVIOUS
    <3>2. PICK a, m, x, y :
            /\ a = Verify(o) /\ m = IF b = 1 THEN <<>> ELSE <<Deliver(b - 1)>>
            /\ x = All(<<"all", o>>, <<<<"cert", o>>>> \o
                     (IF b = 1 THEN <<>> ELSE <<<<"fetch", b - 1>>, <<"deliver", b - 1>>>>))
            /\ y = ThenDo(<<"all", o>>, <<"delivery", b>>)
      OBVIOUS
    <3>3. Continuation(v, <<a>> \o m \o <<x, y>>)
      BY <1>10, <3>1, <3>2 DEF CallFetched
    <3>4. a.op # "erase" /\ x.op # "erase" /\ y.op # "erase" /\ NoErase(m)
      BY <3>2, NoErases, ErasesOps
    <3> QED BY <3>3, <3>4
  <2>2. NoErase(<<a>>) /\ NoErase(<<x, y>>)
    BY <2>1, NoErases
  <2>3. NoErase(<<a>> \o m)
    BY <2>1, <2>2, NoErases
  <2>4. NoErase(<<a>> \o m \o <<x, y>>)
    BY <2>2, <2>3, NoErases
  <2> QED BY <1>7, <2>1, <2>4
<1>11. PICK new : Do(new) /\ NoErase(new)
  BY <1>2, <1>3, <1>4, <1>5, <1>6, <1>8, <1>9, <1>10
<1>12. stack # <<>> /\ Head(stack).op # "erase"
  BY DEF RunResolve, RunReject, RunThen, RunAll, RunDeliver, CallCollect, CallForward, CallVerdict,
         CallFetched, CallDelivery, CallRelayed, CallNext, Calling
<1>13. in_queue' = in_queue /\ out_queue' = out_queue /\ work' = work /\ pms' = pms
  BY DEF RunResolve, RunReject, RunThen, RunAll, RunDeliver, CallCollect, CallForward, CallVerdict,
         CallFetched, CallDelivery, CallRelayed, CallNext, Continuation, rest, threads
<1> QED BY <1>11, <1>12, <1>13, ErasesStay

(* What is left of a queue without repetitions, and two of them together.  *)
LEMMA Dequeued ==
    ASSUME NEW q, IsSeq(q), Inj(q), q # <<>>
    PROVE  /\ IsSeq(Tail(q)) /\ Inj(Tail(q)) /\ Head(q) \in Items(q)
           /\ Items(Tail(q)) = Items(q) \ {Head(q)}
<1>1. q \in Seq(Items(q))
  BY DEF IsSeq
<1>2. PICK n \in Nat : n = Len(q) /\ n > 0 /\ DOMAIN q = 1..n
  BY <1>1, LenProperties, EmptySeq
<1>3. /\ Tail(q) \in Seq(Items(q)) /\ Len(Tail(q)) = n - 1 /\ Head(q) = q[1]
      /\ \A i \in 1..(n - 1) : Tail(q)[i] = q[i + 1]
  BY <1>1, <1>2, HeadTailProperties
<1>4. PICK r : r = Tail(q)
  OBVIOUS
<1>5. DOMAIN r = 1..(n - 1) /\ (\A i \in 1..(n - 1) : r[i] = q[i + 1]) /\ IsSeq(r)
  BY <1>3, <1>4, LenProperties, SeqIsSeq
<1>6. Inj(r)
  <2> SUFFICES ASSUME NEW i \in 1..(n - 1), NEW j \in 1..(n - 1), r[i] = r[j] PROVE i = j
    BY <1>5 DEF Inj
  <2>1. i + 1 \in 1..n /\ j + 1 \in 1..n /\ q[i + 1] = q[j + 1]
    BY <1>2, <1>5
  <2>2. i + 1 = j + 1
    BY <1>2, <2>1 DEF Inj
  <2> QED BY <2>2
<1>7. q[1] \in Items(q)
  BY <1>2 DEF Items
<1>8. ASSUME NEW z, z \in Items(r) PROVE z \in Items(q) /\ z # q[1]
  <2>1. PICK i \in 1..(n - 1) : z = q[i + 1]
    BY <1>5, <1>8 DEF Items
  <2>2. i + 1 \in 1..n /\ i + 1 # 1 /\ 1 \in 1..n
    BY <1>2
  <2> QED BY <1>2, <2>1, <2>2 DEF Items, Inj
<1>9. ASSUME NEW z, z \in Items(q), z # q[1] PROVE z \in Items(r)
  <2>1. PICK i \in 1..n : z = q[i]
    BY <1>2, <1>9 DEF Items
  <2>2. i # 1
    BY <1>9, <2>1
  <2>3. i - 1 \in 1..(n - 1) /\ (i - 1) + 1 = i
    BY <1>2, <2>2
  <2>4. r[i - 1] = z
    BY <1>5, <2>1, <2>3
  <2> QED BY <1>5, <2>3, <2>4 DEF Items
<1> QED BY <1>3, <1>4, <1>5, <1>6, <1>7, <1>8, <1>9

(* Two queues without repetitions and without a common task make one.      *)
LEMMA InjJoined ==
    ASSUME NEW a, NEW b, IsSeq(a), IsSeq(b), Inj(a), Inj(b), \A z \in Items(a) : z \notin Items(b)
    PROVE  Inj(a \o b)
<1>1. PICK m \in Nat, n \in Nat :
         /\ m = Len(a) /\ n = Len(b) /\ DOMAIN a = 1..m /\ DOMAIN b = 1..n
  BY SeqIsSeq, LenProperties DEF IsSeq
<1>2. PICK c : c = a \o b
  OBVIOUS
<1>3. DOMAIN c = 1..(m + n) /\ \A i \in 1..(m + n) : c[i] = IF i <= m THEN a[i] ELSE b[i - m]
  <2> DEFINE S == Items(a) \cup Items(b)
  <2>1. a \in Seq(S) /\ b \in Seq(S)
    BY DEF IsSeq
  <2> HIDE DEF S
  <2>2. /\ a \o b \in Seq(S) /\ Len(a \o b) = Len(a) + Len(b)
        /\ \A i \in 1..Len(a) + Len(b) : (a \o b)[i] = IF i <= Len(a) THEN a[i] ELSE b[i - Len(a)]
    BY <2>1, ConcatProperties
  <2>3. DOMAIN (a \o b) = 1..Len(a \o b)
    BY <2>2, LenProperties
  <2> QED BY <1>1, <1>2, <2>2, <2>3
<1>4. ASSUME NEW i \in 1..(m + n), NEW j \in 1..(m + n), c[i] = c[j] PROVE i = j
  <2>1. \A x \in 1..m : a[x] \in Items(a)
    BY <1>1 DEF Items
  <2>2. \A x \in 1..n : b[x] \in Items(b)
    BY <1>1 DEF Items
  <2>3. CASE i <= m /\ j <= m
    BY <1>1, <1>3, <1>4, <2>3 DEF Inj
  <2>4. CASE i > m /\ j > m
    <3>1. i - m \in 1..n /\ j - m \in 1..n /\ b[i - m] = b[j - m]
      BY <1>1, <1>3, <1>4, <2>4
    <3>2. i - m = j - m
      BY <1>1, <3>1 DEF Inj
    <3> QED BY <1>1, <3>2
  <2>5. CASE i <= m /\ j > m
    <3>1. i \in 1..m /\ j - m \in 1..n /\ a[i] = b[j - m]
      BY <1>1, <1>3, <1>4, <2>5
    <3> QED BY <2>1, <2>2, <3>1
  <2>6. CASE i > m /\ j <= m
    <3>1. j \in 1..m /\ i - m \in 1..n /\ a[j] = b[i - m]
      BY <1>1, <1>3, <1>4, <2>6
    <3> QED BY <2>1, <2>2, <3>1
  <2> QED BY <1>1, <2>3, <2>4, <2>5, <2>6
<1> QED BY <1>2, <1>3, <1>4 DEF Inj

(* One task goes from a to b.                                              *)
LEMMA PoolMove ==
    ASSUME PoolInv, PoolTypeOK', Inj(in_queue)', \A w \in Workers : Inj(out_queue[w])',
           NEW t \in Tasks, NEW a \in Places, NEW b \in Places, At(t, a), pms' = pms,
           \A u \in Tasks : \A x \in Places : u # t => (At(u, x)' <=> At(u, x)),
           \A x \in Places : At(t, x)' <=> x = b,
           \A o \in Owners : Verified(o) => Verified(o)'
    PROVE  PoolInv'
<1>1. /\ \A u \in Tasks : \A x, y \in Places : At(u, x) /\ At(u, y) => x = y
      /\ \A u \in Tasks : u \in pms <=> \E x \in Places : At(u, x)
      /\ \A u \in pms : u \in Tasks /\ Verified(u[2])
  BY DEF PoolInv
<1>2. \A u \in Tasks : \A x, y \in Places : At(u, x)' /\ At(u, y)' => x = y
  BY <1>1
<1>3. \A u \in Tasks : u \in pms' <=> \E x \in Places : At(u, x)'
  <2> SUFFICES ASSUME NEW u \in Tasks PROVE u \in pms <=> \E x \in Places : At(u, x)'
    OBVIOUS
  <2>1. CASE u = t
    BY <1>1, <2>1
  <2>2. CASE u # t
    BY <1>1, <2>2
  <2> QED BY <2>1, <2>2
<1>4. \A u \in pms' : u \in Tasks /\ Verified(u[2])'
  BY <1>1, TaskOwner
<1> QED BY <1>2, <1>3, <1>4 DEF PoolInv

(* The places of a task are different.                                     *)
LEMMA PlacesDiffer ==
    /\ <<"in">> \in Places /\ <<"erase">> \in Places /\ <<"in">> # <<"erase">>
    /\ \A w \in Workers : <<"work", w>> \in Places /\ <<"out", w>> \in Places
    /\ \A w, y : /\ <<"work", w>> # <<"in">> /\ <<"work", w>> # <<"erase">>
                 /\ <<"out", w>> # <<"in">> /\ <<"out", w>> # <<"erase">>
                 /\ <<"work", w>> # <<"out", y>>
                 /\ <<"work", w>> = <<"work", y>> => w = y
                 /\ <<"out", w>> = <<"out", y>> => w = y
<1>1. /\ <<"in">> \in Places /\ <<"erase">> \in Places
      /\ \A w \in Workers : <<"work", w>> \in Places /\ <<"out", w>> \in Places
  BY DEF Places
<1>2. <<"in">>[1] = "in" /\ <<"erase">>[1] = "erase"
  OBVIOUS
<1>3. \A w : /\ <<"work", w>>[1] = "work" /\ <<"work", w>>[2] = w
             /\ <<"out", w>>[1] = "out" /\ <<"out", w>>[2] = w
  OBVIOUS
<1> QED BY <1>1, <1>2, <1>3

(* Where a task is, before and after a step.                               *)
LEMMA AtIs ==
    ASSUME NEW t
    PROVE  /\ At(t, <<"in">>) <=> t \in Items(in_queue)
           /\ At(t, <<"erase">>) <=> KErase(t) \in Keys
           /\ \A w \in Workers : /\ At(t, <<"work", w>>) <=> work[w].task = t
                                 /\ At(t, <<"out", w>>) <=> t \in Items(out_queue[w])
  BY PlacesDiffer DEF At

(* The same for where it is after the step.                                *)
LEMMA AtWillBe ==
    ASSUME NEW t
    PROVE  /\ At(t, <<"in">>)' <=> t \in Items(in_queue)'
           /\ At(t, <<"erase">>)' <=> KErase(t) \in Keys'
           /\ \A w \in Workers : /\ At(t, <<"work", w>>)' <=> work'[w].task = t
                                 /\ At(t, <<"out", w>>)' <=> t \in Items(out_queue'[w])
  BY PlacesDiffer DEF At, Items

(* There are no other places.                                              *)
LEMMA PlaceParts ==
    ASSUME NEW x \in Places
    PROVE  \/ x = <<"in">> \/ x = <<"erase">>
           \/ \E w \in Workers : x = <<"work", w>> \/ x = <<"out", w>>
  BY DEF Places

(* A thread takes a task.                                                  *)
LEMMA PoolTakes ==
    ASSUME PoolInv, NEW w \in Workers, WorkerTakes(w)
    PROVE  PoolInv'
<1>1. /\ work[w].task = None /\ out_queue' = out_queue /\ pms' = pms /\ stack' = stack /\ pr' = pr
      /\ seen' = seen
  BY DEF WorkerTakes, mainVars
<1>2. Keys' = Keys /\ \A o : Verified(o)' <=> Verified(o)
  BY <1>1 DEF Keys, KeysOf, Verified, Started
<1>3. /\ IsSeq(in_queue) /\ (\A t \in Items(in_queue) : t \in Tasks)
      /\ DOMAIN out_queue = Workers /\ DOMAIN work = Workers
      /\ \A y \in Workers :
           /\ IsSeq(out_queue[y]) /\ \A t \in Items(out_queue[y]) : t \in Tasks
           /\ DOMAIN work[y] = {"task", "cnt"} /\ work[y].task \in Tasks \cup {None}
  BY DEF PoolInv, PoolTypeOK
<1>4. Inj(in_queue) /\ (\A y \in Workers : Inj(out_queue[y]))
  BY DEF PoolInv
<1>5. CASE in_queue = <<>>
  <2>1. work' = [work EXCEPT ![w].cnt = 0] /\ in_queue' = in_queue
    BY <1>5 DEF WorkerTakes
  <2>2. /\ DOMAIN work' = Workers
        /\ \A y \in Workers : DOMAIN work'[y] = {"task", "cnt"} /\ work'[y].task = work[y].task
    BY <1>3, <2>1
  <2>3. \A t, x : At(t, x)' <=> At(t, x)
    BY <1>1, <1>2, <2>1, <2>2 DEF At, Items
  <2>4. PoolTypeOK'
    <3>1. /\ IsSeq(in_queue)' /\ (\A u \in Items(in_queue)' : u \in Tasks)
      BY <1>3, <2>1 DEF IsSeq, Items
    <3>2. \A y \in Workers :
             /\ IsSeq(out_queue[y])' /\ \A u \in Items(out_queue[y])' : u \in Tasks
      BY <1>1, <1>3 DEF IsSeq, Items
    <3> QED BY <1>1, <1>3, <2>2, <3>1, <3>2 DEF PoolTypeOK
  <2>5. Inj(in_queue)' /\ \A y \in Workers : Inj(out_queue[y])'
    BY <1>1, <1>4, <2>1 DEF Inj
  <2>6. /\ \A u \in Tasks : \A x, y \in Places : At(u, x)' /\ At(u, y)' => x = y
        /\ \A u \in Tasks : u \in pms' <=> \E x \in Places : At(u, x)'
        /\ \A u \in pms' : u \in Tasks /\ Verified(u[2])'
    BY <1>1, <1>2, <2>3 DEF PoolInv
  <2> QED BY <2>4, <2>5, <2>6 DEF PoolInv
<1>6. CASE in_queue # <<>>
  <2>1. PICK t : t = Head(in_queue)
    OBVIOUS
  <2>2. work' = [work EXCEPT ![w].task = t] /\ in_queue' = Tail(in_queue)
    BY <1>6, <2>1 DEF WorkerTakes
  <2>3. /\ IsSeq(Tail(in_queue)) /\ Inj(Tail(in_queue)) /\ t \in Items(in_queue)
        /\ Items(Tail(in_queue)) = Items(in_queue) \ {t}
    BY <1>3, <1>4, <1>6, <2>1, Dequeued
  <2>4. t \in Tasks
    BY <1>3, <2>3
  <2>5. /\ DOMAIN work' = Workers /\ work'[w].task = t
        /\ \A y \in Workers : DOMAIN work'[y] = {"task", "cnt"}
        /\ \A y \in Workers : y # w => work'[y].task = work[y].task
    BY <1>3, <2>2
  <2>6. PoolTypeOK'
    <3>1. /\ IsSeq(in_queue)' /\ (\A u \in Items(in_queue)' : u \in Tasks)
      BY <1>3, <2>2, <2>3 DEF IsSeq, Items
    <3>2. \A y \in Workers :
             /\ IsSeq(out_queue[y])' /\ \A u \in Items(out_queue[y])' : u \in Tasks
      BY <1>1, <1>3 DEF IsSeq, Items
    <3>3. \A y \in Workers : work'[y].task \in Tasks \cup {None}
      BY <1>3, <2>4, <2>5
    <3> QED BY <1>1, <1>3, <2>5, <3>1, <3>2, <3>3 DEF PoolTypeOK
  <2>7. Inj(in_queue)' /\ \A y \in Workers : Inj(out_queue[y])'
    BY <1>1, <1>4, <2>2, <2>3 DEF Inj
  <2>8. At(t, <<"in">>)
    BY <2>3, AtIs
  <2>9. \A x \in Places : At(t, x) => x = <<"in">>
    BY <2>4, <2>8, PlacesDiffer DEF PoolInv
  <2>10. Items(in_queue)' = Items(in_queue) \ {t} /\ \A y : Items(out_queue'[y]) = Items(out_queue[y])
    BY <1>1, <2>2, <2>3 DEF Items
  <2>11. ASSUME NEW u \in Tasks, NEW x \in Places, u # t PROVE At(u, x)' <=> At(u, x)
    <3>1. u # None
      BY TaskOwner
    <3>2. CASE x = <<"in">>
      BY <2>10, <2>11, <3>2, AtIs, AtWillBe
    <3>3. CASE x = <<"erase">>
      BY <1>2, <3>3, AtIs, AtWillBe
    <3>4. ASSUME NEW y \in Workers, x = <<"work", y>> PROVE At(u, x)' <=> At(u, x)
      <4>1. work'[y].task = u <=> work[y].task = u
        BY <1>1, <2>5, <2>11, <3>1
      <4> QED BY <3>4, <4>1, AtIs, AtWillBe
    <3>5. ASSUME NEW y \in Workers, x = <<"out", y>> PROVE At(u, x)' <=> At(u, x)
      BY <2>10, <3>5, AtIs, AtWillBe
    <3> QED BY <3>2, <3>3, <3>4, <3>5, PlaceParts
  <2>12. ASSUME NEW x \in Places PROVE At(t, x)' <=> x = <<"work", w>>
    <3>1. CASE x = <<"in">>
      BY <2>10, <3>1, AtWillBe, PlacesDiffer
    <3>2. CASE x = <<"erase">>
      BY <1>2, <2>9, <3>2, AtIs, AtWillBe, PlacesDiffer
    <3>3. ASSUME NEW y \in Workers, x = <<"work", y>> PROVE At(t, x)' <=> x = <<"work", w>>
      <4>1. y # w => work[y].task # t
        BY <2>9, AtIs, PlacesDiffer
      <4>2. work'[y].task = t <=> y = w
        BY <2>5, <4>1
      <4> QED BY <3>3, <4>2, AtWillBe, PlacesDiffer
    <3>4. ASSUME NEW y \in Workers, x = <<"out", y>> PROVE At(t, x)' <=> x = <<"work", w>>
      <4>1. ~ At(t, x)
        BY <2>9, <3>4, PlacesDiffer
      <4> QED BY <2>10, <3>4, <4>1, AtIs, AtWillBe, PlacesDiffer
    <3> QED BY <3>1, <3>2, <3>3, <3>4, PlaceParts
  <2>13. <<"in">> \in Places /\ <<"work", w>> \in Places
    BY PlacesDiffer
  <2> QED BY <1>1, <1>2, <2>4, <2>6, <2>7, <2>8, <2>11, <2>12, <2>13, PoolMove
<1> QED BY <1>5, <1>6

(* A thread wakes.                                                         *)
LEMMA PoolWakes ==
    ASSUME PoolInv, NEW w \in Workers, WorkerWakes(w)
    PROVE  PoolInv'
<1>1. /\ out_queue' = out_queue /\ in_queue' = in_queue /\ pms' = pms /\ stack' = stack /\ pr' = pr
      /\ seen' = seen /\ work' = [work EXCEPT ![w].cnt = burst_size]
  BY DEF WorkerWakes, mainVars
<1>2. Keys' = Keys /\ \A o : Verified(o)' <=> Verified(o)
  BY <1>1 DEF Keys, KeysOf, Verified, Started
<1>3. /\ IsSeq(in_queue) /\ (\A t \in Items(in_queue) : t \in Tasks)
      /\ DOMAIN out_queue = Workers /\ DOMAIN work = Workers
      /\ \A y \in Workers :
           /\ IsSeq(out_queue[y]) /\ \A t \in Items(out_queue[y]) : t \in Tasks
           /\ DOMAIN work[y] = {"task", "cnt"} /\ work[y].task \in Tasks \cup {None}
  BY DEF PoolInv, PoolTypeOK
<1>4. /\ DOMAIN work' = Workers
      /\ \A y \in Workers : DOMAIN work'[y] = {"task", "cnt"} /\ work'[y].task = work[y].task
  BY <1>1, <1>3
<1>5. \A t, x : At(t, x)' <=> At(t, x)
  BY <1>1, <1>2, <1>4 DEF At, Items
<1>6. PoolTypeOK'
  <2>1. /\ IsSeq(in_queue)' /\ (\A u \in Items(in_queue)' : u \in Tasks)
    BY <1>1, <1>3 DEF IsSeq, Items
  <2>2. \A y \in Workers :
           /\ IsSeq(out_queue[y])' /\ \A u \in Items(out_queue[y])' : u \in Tasks
    BY <1>1, <1>3 DEF IsSeq, Items
  <2> QED BY <1>1, <1>3, <1>4, <2>1, <2>2 DEF PoolTypeOK
<1>7. Inj(in_queue)' /\ \A y \in Workers : Inj(out_queue[y])'
  BY <1>1 DEF PoolInv, Inj
<1>8. /\ \A u \in Tasks : \A x, y \in Places : At(u, x)' /\ At(u, y)' => x = y
      /\ \A u \in Tasks : u \in pms' <=> \E x \in Places : At(u, x)'
      /\ \A u \in pms' : u \in Tasks /\ Verified(u[2])'
  BY <1>1, <1>2, <1>5 DEF PoolInv
<1> QED BY <1>6, <1>7, <1>8 DEF PoolInv

(* A thread hands over the result of a task.                               *)
LEMMA PoolDone ==
    ASSUME PoolInv, NEW w \in Workers, WorkerDone(w)
    PROVE  PoolInv'
<1>1. PICK t : t = work[w].task
  OBVIOUS
<1>2. /\ t # None /\ in_queue' = in_queue /\ pms' = pms /\ stack' = stack /\ pr' = pr
      /\ seen' = seen /\ out_queue' = [out_queue EXCEPT ![w] = Append(@, t)]
      /\ work' = [work EXCEPT ![w] = [task |-> None, cnt |-> @.cnt - 1]]
  BY <1>1 DEF WorkerDone, mainVars
<1>3. Keys' = Keys /\ \A o : Verified(o)' <=> Verified(o)
  BY <1>2 DEF Keys, KeysOf, Verified, Started
<1>4. /\ IsSeq(in_queue) /\ (\A u \in Items(in_queue) : u \in Tasks)
      /\ DOMAIN out_queue = Workers /\ DOMAIN work = Workers
      /\ \A y \in Workers :
           /\ IsSeq(out_queue[y]) /\ \A u \in Items(out_queue[y]) : u \in Tasks
           /\ DOMAIN work[y] = {"task", "cnt"} /\ work[y].task \in Tasks \cup {None}
  BY DEF PoolInv, PoolTypeOK
<1>5. Inj(in_queue) /\ (\A y \in Workers : Inj(out_queue[y]))
  BY DEF PoolInv
<1>6. t \in Tasks
  BY <1>1, <1>2, <1>4
<1>7. /\ DOMAIN work' = Workers /\ work'[w].task = None
      /\ \A y \in Workers : DOMAIN work'[y] = {"task", "cnt"}
      /\ \A y \in Workers : y # w => work'[y].task = work[y].task
  BY <1>2, <1>4
<1>8. At(t, <<"work", w>>) /\ \A x \in Places : At(t, x) => x = <<"work", w>>
  <2>1. At(t, <<"work", w>>)
    BY <1>1, AtIs
  <2> QED BY <1>6, <2>1, PlacesDiffer DEF PoolInv
<1>9. t \notin Items(out_queue[w])
  BY <1>8, AtIs, PlacesDiffer
<1>10. PICK q : q = Append(out_queue[w], t)
  OBVIOUS
<1>11. IsSeq(q) /\ Items(q) = Items(out_queue[w]) \cup {t} /\ Inj(q)
  BY <1>4, <1>5, <1>9, <1>10, AppendedIs
<1>12. /\ DOMAIN out_queue' = Workers /\ out_queue'[w] = q
       /\ \A y \in Workers : y # w => out_queue'[y] = out_queue[y]
  BY <1>2, <1>4, <1>10
<1>13. PoolTypeOK'
  <2>1. /\ IsSeq(in_queue)' /\ (\A u \in Items(in_queue)' : u \in Tasks)
    BY <1>2, <1>4 DEF IsSeq, Items
  <2>2. ASSUME NEW y \in Workers
        PROVE  IsSeq(out_queue'[y]) /\ \A u \in Items(out_queue'[y]) : u \in Tasks
    BY <1>4, <1>6, <1>11, <1>12
  <2>3. \A y \in Workers :
           /\ IsSeq(out_queue[y])' /\ \A u \in Items(out_queue[y])' : u \in Tasks
    BY <2>2 DEF IsSeq, Items
  <2>4. \A y \in Workers : work'[y].task \in Tasks \cup {None}
    BY <1>4, <1>7
  <2> QED BY <1>7, <1>12, <2>1, <2>3, <2>4 DEF PoolTypeOK
<1>14. Inj(in_queue)' /\ \A y \in Workers : Inj(out_queue[y])'
  <2>1. \A y \in Workers : Inj(out_queue'[y])
    BY <1>5, <1>11, <1>12
  <2> QED BY <1>2, <1>5, <2>1 DEF Inj
<1>15. Items(in_queue)' = Items(in_queue)
  BY <1>2 DEF Items
<1>16. \A y \in Workers : \A u : u \in Items(out_queue'[y]) <=> u \in Items(out_queue[y]) \/ (y = w /\ u = t)
  BY <1>11, <1>12
<1>17. ASSUME NEW u \in Tasks, NEW x \in Places, u # t PROVE At(u, x)' <=> At(u, x)
  <2>1. u # None
    BY TaskOwner
  <2>2. CASE x = <<"in">>
    BY <1>15, <2>2, AtIs, AtWillBe
  <2>3. CASE x = <<"erase">>
    BY <1>3, <2>3, AtIs, AtWillBe
  <2>4. ASSUME NEW y \in Workers, x = <<"work", y>> PROVE At(u, x)' <=> At(u, x)
    <3>1. work'[y].task = u <=> work[y].task = u
      BY <1>1, <1>7, <1>17, <2>1
    <3> QED BY <2>4, <3>1, AtIs, AtWillBe
  <2>5. ASSUME NEW y \in Workers, x = <<"out", y>> PROVE At(u, x)' <=> At(u, x)
    BY <1>16, <1>17, <2>5, AtIs, AtWillBe
  <2> QED BY <2>2, <2>3, <2>4, <2>5, PlaceParts
<1>18. ASSUME NEW x \in Places PROVE At(t, x)' <=> x = <<"out", w>>
  <2>1. CASE x = <<"in">>
    BY <1>8, <1>15, <2>1, AtIs, AtWillBe, PlacesDiffer
  <2>2. CASE x = <<"erase">>
    BY <1>3, <1>8, <2>2, AtIs, AtWillBe, PlacesDiffer
  <2>3. ASSUME NEW y \in Workers, x = <<"work", y>> PROVE At(t, x)' <=> x = <<"out", w>>
    <3>1. y # w => work[y].task # t
      BY <1>8, AtIs, PlacesDiffer
    <3>2. work'[y].task # t
      BY <1>2, <1>7, <3>1
    <3> QED BY <2>3, <3>2, AtWillBe, PlacesDiffer
  <2>4. ASSUME NEW y \in Workers, x = <<"out", y>> PROVE At(t, x)' <=> x = <<"out", w>>
    <3>1. t \notin Items(out_queue[y])
      BY <1>8, AtIs, PlacesDiffer
    <3>2. t \in Items(out_queue'[y]) <=> y = w
      BY <1>16, <3>1
    <3> QED BY <2>4, <3>2, AtWillBe, PlacesDiffer
  <2> QED BY <2>1, <2>2, <2>3, <2>4, PlaceParts
<1>19. <<"work", w>> \in Places /\ <<"out", w>> \in Places
  BY PlacesDiffer
<1> QED BY <1>2, <1>3, <1>6, <1>8, <1>13, <1>14, <1>17, <1>18, <1>19, PoolMove

(* The entries that are to be erased, after a step that puts new on the    *)
(* stack.                                                                  *)
LEMMA ErasesAfter ==
    ASSUME CtlInv, stack # <<>>, NEW new, Do(new), IsSeq(new)
    PROVE  \A t : KErase(t) \in Keys' <=> \/ Erases(new, t)
                                          \/ KErase(t) \in Keys /\ KErase(t) # Key(Head(stack))
<1>1. IsSeq(Tail(stack)) /\ KeysOf(Tail(stack)) = Keys \ {Key(Head(stack))}
  BY Popped DEF CtlInv, StackInv, Keys
<1>2. Items(new \o Tail(stack)) = Items(new) \cup Items(Tail(stack))
  BY <1>1, ItemsJoined
<1>3. stack' = new \o Tail(stack)
  BY DEF Do
<1> SUFFICES ASSUME NEW t
             PROVE  KErase(t) \in Keys' <=> \/ Erases(new, t)
                                            \/ KErase(t) \in Keys /\ KErase(t) # Key(Head(stack))
  OBVIOUS
<1>4. KErase(t) \in KeysOf(Tail(stack)) <=> Erases(Tail(stack), t)
  BY KeyErases
<1>5. KErase(t) \in KeysOf(new \o Tail(stack)) <=> Erases(new \o Tail(stack), t)
  BY KeyErases
<1>6. KErase(t) \in Keys' <=> KErase(t) \in KeysOf(new \o Tail(stack))
  BY <1>3 DEF Keys
<1>7. Erases(new \o Tail(stack), t) <=> Erases(new, t) \/ Erases(Tail(stack), t)
  BY <1>2 DEF Erases
<1> QED BY <1>1, <1>4, <1>5, <1>6, <1>7

(* The entry of a task leaves pms.                                         *)
LEMMA PoolErases ==
    ASSUME CtlInv, PoolInv, Grows, RunErase
    PROVE  PoolInv'
<1>1. PICK t : t = Head(stack).t
  OBVIOUS
<1>2. /\ stack # <<>> /\ Head(stack).op = "erase" /\ Do(<<>>) /\ pms' = pms \ {t}
      /\ in_queue' = in_queue /\ out_queue' = out_queue /\ work' = work
  BY <1>1 DEF RunErase, Top, threads
<1>3. Key(Head(stack)) = KErase(t)
  BY <1>1, <1>2 DEF Key
<1>4. t \in Tasks /\ KErase(t) \in Keys
  BY <1>1, <1>2, <1>3, TopIs, ShapeOf, KeysDiffer
<1>5. \A u : KErase(u) \in Keys' <=> KErase(u) \in Keys /\ u # t
  <2>1. \A u : ~ Erases(<<>>, u) /\ IsSeq(<<>>)
    BY NoSteps DEF Erases
  <2> QED BY <1>2, <1>3, <2>1, ErasesAfter, KeysDiffer
<1>6. At(t, <<"erase">>) /\ \A x \in Places : At(t, x) => x = <<"erase">>
  <2>1. At(t, <<"erase">>)
    BY <1>4, AtIs
  <2> QED BY <1>4, <2>1, PlacesDiffer DEF PoolInv
<1>7. /\ Items(in_queue)' = Items(in_queue) /\ \A y : Items(out_queue'[y]) = Items(out_queue[y])
  BY <1>2 DEF Items
<1>8. ASSUME NEW u \in Tasks, NEW x \in Places PROVE At(u, x)' <=> At(u, x) /\ u # t
  <2>1. CASE x = <<"erase">>
    BY <1>5, <2>1, AtIs, AtWillBe
  <2>2. CASE x # <<"erase">>
    <3>1. At(u, x)' <=> At(u, x)
      <4>1. CASE x = <<"in">>
        BY <1>7, <4>1, AtIs, AtWillBe
      <4>2. ASSUME NEW y \in Workers, x = <<"work", y>> PROVE At(u, x)' <=> At(u, x)
        <5>1. work'[y].task = u <=> work[y].task = u
          BY <1>2
        <5> QED BY <4>2, <5>1, AtIs, AtWillBe
      <4>3. ASSUME NEW y \in Workers, x = <<"out", y>> PROVE At(u, x)' <=> At(u, x)
        BY <1>7, <4>3, AtIs, AtWillBe
      <4> QED BY <2>2, <4>1, <4>2, <4>3, PlaceParts
    <3> QED BY <1>6, <2>2, <3>1
  <2> QED BY <2>1, <2>2
<1>9. PoolTypeOK' /\ Inj(in_queue)' /\ \A w \in Workers : Inj(out_queue[w])'
  <2>1. Inj(in_queue)' /\ \A w \in Workers : Inj(out_queue[w])'
    BY <1>2 DEF PoolInv, Inj
  <2>2. PoolTypeOK
    BY DEF PoolInv
  <2>3. PoolTypeOK' <=> PoolTypeOK
    BY <1>2 DEF PoolTypeOK, Items, IsSeq
  <2> QED BY <2>1, <2>2, <2>3
<1>10. /\ \A u \in Tasks : \A x, y \in Places : At(u, x) /\ At(u, y) => x = y
       /\ \A u \in Tasks : u \in pms <=> \E x \in Places : At(u, x)
       /\ \A u \in pms : u \in Tasks /\ Verified(u[2])
  BY DEF PoolInv
<1>11. \A u \in Tasks : u \in pms' <=> \E x \in Places : At(u, x)'
  BY <1>2, <1>8, <1>10
<1>12. \A u \in pms' : u \in Tasks /\ Verified(u[2])'
  BY <1>2, <1>10, TaskOwner DEF Grows
<1>13. \A u \in Tasks : \A x, y \in Places : At(u, x)' /\ At(u, y)' => x = y
  BY <1>8, <1>10
<1> QED BY <1>9, <1>11, <1>12, <1>13 DEF PoolInv

(* The handler of out_queue takes a task, or ends.                         *)
LEMMA PoolDrains ==
    ASSUME CtlInv, PoolInv, Grows, RunDrain
    PROVE  PoolInv'
<1>1. /\ stack # <<>> /\ Head(stack).op = "drain" /\ pms' = pms /\ in_queue' = in_queue /\ work' = work
  BY DEF RunDrain, Top
<1>2. CASE Do(<<>>) /\ out_queue' = out_queue
  <2>1. \A t : KErase(t) \in Keys' <=> KErase(t) \in Keys
    BY <1>1, <1>2, NoErases, ErasesStay
  <2> QED BY <1>1, <1>2, <2>1, PoolStays
<1>3. ASSUME NEW w \in Workers, NEW k, out_queue[w] # <<>>,
             out_queue' = [out_queue EXCEPT ![w] = Tail(@)],
             Do(<<Resolve(Head(out_queue[w]), good[Head(out_queue[w])]),
                  Erase(Head(out_queue[w])), Drain(k - 1)>>)
      PROVE  PoolInv'
  <2>1. PICK t, q : t = Head(out_queue[w]) /\ q = Tail(out_queue[w])
    OBVIOUS
  <2>2. PICK a, b, d : a = Resolve(t, good[t]) /\ b = Erase(t) /\ d = Drain(k - 1)
    OBVIOUS
  <2>3. Do(<<a, b, d>>)
    BY <1>3, <2>1, <2>2
  <2>4. /\ IsSeq(in_queue) /\ (\A u \in Items(in_queue) : u \in Tasks)
        /\ DOMAIN out_queue = Workers /\ DOMAIN work = Workers
        /\ \A y \in Workers :
             /\ IsSeq(out_queue[y]) /\ \A u \in Items(out_queue[y]) : u \in Tasks
             /\ DOMAIN work[y] = {"task", "cnt"} /\ work[y].task \in Tasks \cup {None}
    BY DEF PoolInv, PoolTypeOK
  <2>5. Inj(in_queue) /\ (\A y \in Workers : Inj(out_queue[y]))
    BY DEF PoolInv
  <2>6. IsSeq(q) /\ Inj(q) /\ t \in Items(out_queue[w]) /\ Items(q) = Items(out_queue[w]) \ {t}
    BY <1>3, <2>1, <2>4, <2>5, Dequeued
  <2>7. t \in Tasks
    BY <2>4, <2>6
  <2>8. \A u : Erases(<<a, b, d>>, u) <=> u = t
    <3>1. a.op # "erase" /\ b.op = "erase" /\ b.t = t /\ d.op # "erase"
      BY <2>2, ErasesOps
    <3>2. PICK l : l = <<a, b, d>>
      OBVIOUS
    <3>3. DOMAIN l = {1, 2, 3} /\ l[1] = a /\ l[2] = b /\ l[3] = d
      BY <3>2
    <3>4. Items(l) = {a, b, d}
      BY ONLY <3>3 DEF Items
    <3> QED BY <3>1, <3>2, <3>4 DEF Erases
  <2>9. IsSeq(<<a, b, d>>)
    <3>1. <<a, b, d>> \in Seq({a, b, d})
      OBVIOUS
    <3> QED BY <3>1, SeqIsSeq
  <2>10. \A u : KErase(u) \in Keys' <=> KErase(u) \in Keys \/ u = t
    <3>1. \A u : KErase(u) # Key(Head(stack))
      BY <1>1, KeysDiffer DEF Key
    <3> QED BY <1>1, <2>3, <2>8, <2>9, <3>1, ErasesAfter
  <2>11. /\ DOMAIN out_queue' = Workers /\ out_queue'[w] = q
         /\ \A y \in Workers : y # w => out_queue'[y] = out_queue[y]
    BY <1>3, <2>1, <2>4
  <2>12. At(t, <<"out", w>>) /\ \A x \in Places : At(t, x) => x = <<"out", w>>
    <3>1. At(t, <<"out", w>>)
      BY <2>6, AtIs
    <3> QED BY <2>7, <3>1, PlacesDiffer DEF PoolInv
  <2>13. PoolTypeOK'
    <3>1. /\ IsSeq(in_queue)' /\ (\A u \in Items(in_queue)' : u \in Tasks)
      BY <1>1, <2>4 DEF IsSeq, Items
    <3>2. ASSUME NEW y \in Workers
          PROVE  IsSeq(out_queue'[y]) /\ \A u \in Items(out_queue'[y]) : u \in Tasks
      BY <2>4, <2>6, <2>11
    <3>3. \A y \in Workers :
             /\ IsSeq(out_queue[y])' /\ \A u \in Items(out_queue[y])' : u \in Tasks
      BY <3>2 DEF IsSeq, Items
    <3> QED BY <1>1, <2>4, <2>11, <3>1, <3>3 DEF PoolTypeOK
  <2>14. Inj(in_queue)' /\ \A y \in Workers : Inj(out_queue[y])'
    <3>1. \A y \in Workers : Inj(out_queue'[y])
      BY <2>5, <2>6, <2>11
    <3> QED BY <1>1, <2>5, <3>1 DEF Inj
  <2>15. Items(in_queue)' = Items(in_queue)
    BY <1>1 DEF Items
  <2>16. \A y \in Workers : \A u :
            u \in Items(out_queue'[y]) <=> u \in Items(out_queue[y]) /\ ~ (y = w /\ u = t)
    BY <2>6, <2>11
  <2>17. ASSUME NEW u \in Tasks, NEW x \in Places, u # t PROVE At(u, x)' <=> At(u, x)
    <3>1. CASE x = <<"erase">>
      BY <2>10, <2>17, <3>1, AtIs, AtWillBe
    <3>2. CASE x = <<"in">>
      BY <2>15, <3>2, AtIs, AtWillBe
    <3>3. ASSUME NEW y \in Workers, x = <<"work", y>> PROVE At(u, x)' <=> At(u, x)
      <4>1. work'[y].task = u <=> work[y].task = u
        BY <1>1
      <4> QED BY <3>3, <4>1, AtIs, AtWillBe
    <3>4. ASSUME NEW y \in Workers, x = <<"out", y>> PROVE At(u, x)' <=> At(u, x)
      BY <2>16, <2>17, <3>4, AtIs, AtWillBe
    <3> QED BY <3>1, <3>2, <3>3, <3>4, PlaceParts
  <2>18. ASSUME NEW x \in Places PROVE At(t, x)' <=> x = <<"erase">>
    <3>1. CASE x = <<"erase">>
      BY <2>10, <3>1, AtWillBe
    <3>2. CASE x = <<"in">>
      BY <2>12, <2>15, <3>2, AtIs, AtWillBe, PlacesDiffer
    <3>3. ASSUME NEW y \in Workers, x = <<"work", y>> PROVE ~ At(t, x)'
      BY <1>1, <2>12, <3>3, AtIs, AtWillBe, PlacesDiffer
    <3>4. ASSUME NEW y \in Workers, x = <<"out", y>> PROVE ~ At(t, x)'
      <4>1. y # w => t \notin Items(out_queue[y])
        BY <2>12, AtIs, PlacesDiffer
      <4> QED BY <2>16, <3>4, <4>1, AtWillBe
    <3> QED BY <3>1, <3>2, <3>3, <3>4, PlaceParts, PlacesDiffer
  <2>19. <<"out", w>> \in Places /\ <<"erase">> \in Places
    BY PlacesDiffer
  <2>20. \A o \in Owners : Verified(o) => Verified(o)'
    BY DEF Grows
  <2> QED BY <1>1, <2>7, <2>12, <2>13, <2>14, <2>17, <2>18, <2>19, <2>20, PoolMove
<1> QED BY <1>2, <1>3 DEF RunDrain

(* The list of the tasks of a certificate.                                 *)
LEMMA TaskList ==
    ASSUME NEW o \in Owners, NEW q, q = [i \in 1..Sigs(o) |-> <<"task", o, i>>]
    PROVE  IsSeq(q) /\ Inj(q) /\ Items(q) = NewTasks(o) /\ NewTasks(o) \subseteq Tasks
<1>1. NewTasks(o) \subseteq Tasks
  BY TaskParts DEF NewTasks
<1>2. Sigs(o) \in Nat
  BY SigsNat
<1>3. PICK n \in Nat : n = Sigs(o)
  BY <1>2
<1>4. DOMAIN q = 1..n /\ \A i \in 1..n : q[i] = <<"task", o, i>>
  BY <1>3
<1>5. Items(q) = NewTasks(o)
  BY <1>3, <1>4 DEF Items, NewTasks
<1>6. q \in Seq(NewTasks(o))
  <2>1. \A i \in 1..n : q[i] \in NewTasks(o)
    BY <1>3, <1>4 DEF NewTasks
  <2>2. q = [i \in 1..n |-> q[i]]
    BY <1>3
  <2>3. q \in [1..n -> NewTasks(o)]
    BY <2>1, <2>2
  <2> QED BY <2>3, SeqDef
<1>7. Inj(q)
  <2> SUFFICES ASSUME NEW i \in 1..n, NEW j \in 1..n, q[i] = q[j] PROVE i = j
    BY <1>4 DEF Inj
  <2>1. <<"task", o, i>> = <<"task", o, j>>
    BY <1>4
  <2>2. <<"task", o, i>>[3] = i /\ <<"task", o, j>>[3] = j
    OBVIOUS
  <2> QED BY <2>1, <2>2
<1> QED BY <1>1, <1>5, <1>6, <1>7, SeqIsSeq

(* verify of a certificate puts its tasks into pms and in_queue.           *)
LEMMA PoolVerifies ==
    ASSUME CtlInv, PoolInv, Grows, RunVerify
    PROVE  PoolInv'
<1>1. PICK o : o = Head(stack).o
  OBVIOUS
<1>2. o \in Owners /\ ~ Verified(o) /\ Verified(o)'
  BY <1>1, VerifyStep
<1>3. /\ stack # <<>> /\ Head(stack).op = "verify" /\ out_queue' = out_queue /\ work' = work
  BY DEF RunVerify, Top
<1>4. CASE Trusted(o)
  <2>1. Do(<<>>) /\ pms' = pms /\ in_queue' = in_queue
    BY <1>1, <1>4 DEF RunVerify
  <2>2. \A t : KErase(t) \in Keys' <=> KErase(t) \in Keys
    BY <1>3, <2>1, NoErases, ErasesStay
  <2> QED BY <1>3, <2>1, <2>2, PoolStays
<1>5. CASE ~ Trusted(o)
  <2>1. PICK q, a, b : /\ q = [i \in 1..Sigs(o) |-> <<"task", o, i>>]
                       /\ a = All(<<"sigs", o>>, q)
                       /\ b = Then(<<"sigs", o>>, Verdict(o), Forward(<<"cert", o>>))
    OBVIOUS
  <2>2. /\ IsSeq(q) /\ Inj(q) /\ Items(q) = NewTasks(o) /\ NewTasks(o) \subseteq Tasks
    BY <1>2, <2>1, TaskList
  <2>3. Do(<<a, b>>) /\ pms' = pms \cup Items(q) /\ in_queue' = in_queue \o q
    <3> DEFINE new == [i \in 1..Sigs(o) |-> <<"task", o, i>>]
               ids == {new[i] : i \in DOMAIN new}
    <3>1. /\ pms' = pms \cup ids /\ in_queue' = in_queue \o new
          /\ Do(<<All(<<"sigs", o>>, new),
                  Then(<<"sigs", o>>, Verdict(o), Forward(<<"cert", o>>))>>)
      <4>1. pms' = pms \cup ids
        BY <1>1, <1>5 DEF RunVerify
      <4>2. in_queue' = in_queue \o new
        BY <1>1, <1>5 DEF RunVerify
      <4>3. Do(<<All(<<"sigs", o>>, new),
                  Then(<<"sigs", o>>, Verdict(o), Forward(<<"cert", o>>))>>)
        BY <1>1, <1>5 DEF RunVerify
      <4> QED BY <4>1, <4>2, <4>3
    <3>2. q = new
      BY <2>1
    <3> HIDE DEF new
    <3> QED BY <2>1, <3>1, <3>2 DEF Items
  <2>4. \A t : KErase(t) \in Keys' <=> KErase(t) \in Keys
    <3>1. NoErase(<<a, b>>)
      BY <2>1, NoErases, ErasesOps
    <3> QED BY <1>3, <2>3, <3>1, ErasesStay
  <2>5. \A u \in Items(q) : u \in Tasks /\ u[2] = o
    BY <2>2 DEF NewTasks
  <2>6. /\ \A u \in Tasks : \A x, y \in Places : At(u, x) /\ At(u, y) => x = y
        /\ \A u \in Tasks : u \in pms <=> \E x \in Places : At(u, x)
        /\ \A u \in pms : u \in Tasks /\ Verified(u[2])
    BY DEF PoolInv
  <2>7. \A u \in Items(q) : u \notin pms /\ \A x \in Places : ~ At(u, x)
    BY <1>2, <2>5, <2>6
  <2>8. IsSeq(in_queue) /\ Inj(in_queue) /\ \A u \in Items(in_queue) : u \in Tasks
    BY DEF PoolInv, PoolTypeOK
  <2>9. \A u \in Items(in_queue) : u \notin Items(q)
    BY <2>7, AtIs, PlacesDiffer
  <2>10. PICK l : l = in_queue \o q
    OBVIOUS
  <2>11. IsSeq(l) /\ Inj(l) /\ Items(l) = Items(in_queue) \cup Items(q)
    BY <2>2, <2>8, <2>9, <2>10, InjJoined, ItemsJoined
  <2>12. in_queue' = l
    BY <2>3, <2>10
  <2>13. PoolTypeOK'
    <3>1. IsSeq(in_queue') /\ \A u \in Items(in_queue') : u \in Tasks
      BY <2>5, <2>8, <2>11, <2>12
    <3>2. IsSeq(in_queue)' /\ (\A u \in Items(in_queue)' : u \in Tasks)
      BY <3>1 DEF IsSeq, Items
    <3>3. /\ DOMAIN out_queue = Workers /\ DOMAIN work = Workers
          /\ \A y \in Workers :
               /\ IsSeq(out_queue[y]) /\ \A u \in Items(out_queue[y]) : u \in Tasks
               /\ DOMAIN work[y] = {"task", "cnt"} /\ work[y].task \in Tasks \cup {None}
      BY DEF PoolInv, PoolTypeOK
    <3>4. \A y \in Workers :
             /\ IsSeq(out_queue[y])' /\ \A u \in Items(out_queue[y])' : u \in Tasks
      BY <1>3, <3>3 DEF IsSeq, Items
    <3> QED BY <1>3, <3>2, <3>3, <3>4 DEF PoolTypeOK
  <2>14. Inj(in_queue)' /\ \A y \in Workers : Inj(out_queue[y])'
    <3>1. Inj(in_queue)'
      BY <2>11, <2>12 DEF Inj
    <3> QED BY <1>3, <3>1 DEF PoolInv, Inj
  <2>15. Items(in_queue)' = Items(in_queue) \cup Items(q)
    BY <2>11, <2>12 DEF Items
  <2>16. ASSUME NEW u \in Tasks, NEW x \in Places
         PROVE  At(u, x)' <=> At(u, x) \/ (x = <<"in">> /\ u \in Items(q))
    <3>1. CASE x = <<"in">>
      BY <2>15, <3>1, AtIs, AtWillBe
    <3>2. CASE x = <<"erase">>
      BY <2>4, <3>2, AtIs, AtWillBe, PlacesDiffer
    <3>3. ASSUME NEW y \in Workers, x = <<"work", y>>
          PROVE  (At(u, x)' <=> At(u, x)) /\ x # <<"in">>
      <4>1. work'[y].task = u <=> work[y].task = u
        BY <1>3
      <4> QED BY <3>3, <4>1, AtIs, AtWillBe, PlacesDiffer
    <3>4. ASSUME NEW y \in Workers, x = <<"out", y>>
          PROVE  (At(u, x)' <=> At(u, x)) /\ x # <<"in">>
      <4>1. u \in Items(out_queue'[y]) <=> u \in Items(out_queue[y])
        BY <1>3
      <4> QED BY <3>4, <4>1, AtIs, AtWillBe, PlacesDiffer
    <3> QED BY <3>1, <3>2, <3>3, <3>4, PlaceParts
  <2>17. <<"in">> \in Places
    BY PlacesDiffer
  <2>18. \A u \in Tasks : \A x, y \in Places : At(u, x)' /\ At(u, y)' => x = y
    BY <2>6, <2>7, <2>16
  <2>19. \A u \in Tasks : u \in pms' <=> \E x \in Places : At(u, x)'
    BY <2>3, <2>6, <2>7, <2>16, <2>17
  <2>20. ASSUME NEW u \in pms' PROVE u \in Tasks /\ Verified(u[2])'
    <3>1. CASE u \in pms
      BY <2>6, <3>1, TaskOwner DEF Grows
    <3>2. CASE u \in Items(q)
      BY <1>2, <2>5, <3>2
    <3> QED BY <2>3, <3>1, <3>2
  <2> QED BY <2>13, <2>14, <2>18, <2>19, <2>20 DEF PoolInv
<1> QED BY <1>4, <1>5

(* What the handlers put on the stack erases nothing.                      *)
LEMMA HandlerPuts ==
    ASSUME NEW st, \/ \E k : st = <<Drain(k)>>
                   \/ \E p, x : st = <<Resolve(p, x)>> \/ st = <<Reject(p, x)>>
                   \/ \E b : st = <<Deliver(b)>>
                   \/ \E p, c : st = <<ThenDo(p, c)>>
                   \/ \E c, x : st = <<Call(c, x)>>
                   \/ \E b, o, p, ps, q, c : st = <<Deliver(b), Verify(o), All(p, ps), ThenDo(q, c)>>
    PROVE  \A z \in Items(st) : z.op # "erase"
<1>1. ASSUME NEW a, st = <<a>>, a.op # "erase" PROVE \A z \in Items(st) : z.op # "erase"
  BY <1>1, OneStep
<1>2. ASSUME NEW a, NEW b, NEW c, NEW d, st = <<a, b, c, d>>,
             a.op # "erase", b.op # "erase", c.op # "erase", d.op # "erase"
      PROVE  \A z \in Items(st) : z.op # "erase"
  <2>1. DOMAIN st = {1, 2, 3, 4} /\ st[1] = a /\ st[2] = b /\ st[3] = c /\ st[4] = d
    BY <1>2
  <2>2. Items(st) = {a, b, c, d}
    BY ONLY <2>1 DEF Items
  <2> QED BY <1>2, <2>2
<1>3. CASE \E k : st = <<Drain(k)>>
  BY <1>1, <1>3, ErasesOps
<1>4. CASE \E p, x : st = <<Resolve(p, x)>> \/ st = <<Reject(p, x)>>
  BY <1>1, <1>4, ErasesOps
<1>5. CASE \E b : st = <<Deliver(b)>>
  BY <1>1, <1>5, ErasesOps
<1>6. CASE \E p, c : st = <<ThenDo(p, c)>>
  BY <1>1, <1>6, ErasesOps
<1>7. CASE \E c, x : st = <<Call(c, x)>>
  BY <1>1, <1>7, ErasesOps
<1>8. CASE \E b, o, p, ps, q, c : st = <<Deliver(b), Verify(o), All(p, ps), ThenDo(q, c)>>
  <2>1. PICK b, o, p, ps, q, c : st = <<Deliver(b), Verify(o), All(p, ps), ThenDo(q, c)>>
    BY <1>8
  <2>2. PICK z1, z2, z3, z4 : z1 = Deliver(b) /\ z2 = Verify(o) /\ z3 = All(p, ps) /\ z4 = ThenDo(q, c)
    OBVIOUS
  <2>3. z1.op # "erase" /\ z2.op # "erase" /\ z3.op # "erase" /\ z4.op # "erase"
    BY <2>2, ErasesOps
  <2> QED BY <1>2, <2>1, <2>2, <2>3
<1> QED BY <1>3, <1>4, <1>5, <1>6, <1>7, <1>8

(* A handler of the main thread starts.                                    *)
LEMMA PoolHandles ==
    ASSUME CtlInv, PoolInv, Grows,
           \/ PoolHandler \/ WaitQc \/ GiveUp \/ QcFinish
           \/ \E b \in Blocks : OnFetchBlk(b) \/ ProposeHandler(b)
           \/ \E r \in Relays : VoteRelayHandler(r)
    PROVE  PoolInv'
<1>1. /\ stack = <<>> /\ in_queue' = in_queue /\ out_queue' = out_queue /\ work' = work /\ pms' = pms
  BY DEF PoolHandler, WaitQc, GiveUp, QcFinish, OnFetchBlk, ProposeHandler, VoteRelayHandler,
         Handler, Idle, threads
<1>2. PICK st : st = stack'
  OBVIOUS
<1>3. \/ \E k : st = <<Drain(k)>>
      \/ \E p, x : st = <<Resolve(p, x)>> \/ st = <<Reject(p, x)>>
      \/ \E b : st = <<Deliver(b)>>
      \/ \E p, c : st = <<ThenDo(p, c)>>
      \/ \E c, x : st = <<Call(c, x)>>
      \/ \E b, o, p, ps, q, c : st = <<Deliver(b), Verify(o), All(p, ps), ThenDo(q, c)>>
  <2>1. CASE PoolHandler
    BY <1>2, <2>1 DEF PoolHandler
  <2>2. CASE WaitQc
    BY <1>2, <2>2 DEF WaitQc, Handler
  <2>3. CASE GiveUp \/ QcFinish
    BY <1>2, <2>3 DEF GiveUp, QcFinish, Handler
  <2>4. CASE \E b \in Blocks : OnFetchBlk(b) \/ ProposeHandler(b)
    BY <1>2, <2>4 DEF OnFetchBlk, ProposeHandler, Handler
  <2>5. CASE \E r \in Relays : VoteRelayHandler(r)
    BY <1>2, <2>5 DEF VoteRelayHandler, Handler
  <2> QED BY <2>1, <2>2, <2>3, <2>4, <2>5
<1>4. \A z \in Items(st) : z.op # "erase"
  BY <1>3, HandlerPuts
<1>5. \A z \in Items(stack)' : z.op # "erase"
  BY <1>2, <1>4 DEF Items
<1>6. \A t : KErase(t) \in Keys' <=> KErase(t) \in Keys
  BY <1>1, <1>5, HandlerErases
<1> QED BY <1>1, <1>6, PoolStays

(* Every step keeps what is said of the pool.                              *)
LEMMA PoolStep ==
    ASSUME CtlInv, PoolInv, [Next]_vars
    PROVE  PoolInv'
<1>1. Grows
  BY CtlStep
<1>2. CASE UNCHANGED vars
  <2>1. in_queue' = in_queue /\ out_queue' = out_queue /\ work' = work /\ pms' = pms /\ stack' = stack
    BY <1>2 DEF vars
  <2>2. Keys' = Keys
    BY <2>1 DEF Keys, KeysOf
  <2> QED BY <1>1, <2>1, <2>2, PoolStays
<1>3. CASE \E w \in Workers : WorkerWakes(w) \/ WorkerTakes(w) \/ WorkerDone(w)
  BY <1>3, PoolWakes, PoolTakes, PoolDone
<1>4. CASE Step
  <2>1. CASE \/ RunResolve \/ RunReject \/ RunThen \/ RunAll \/ RunDeliver
             \/ CallCollect \/ CallForward \/ CallVerdict \/ CallFetched \/ CallDelivery
             \/ CallRelayed \/ CallNext
    <3>1. /\ \A t : KErase(t) \in Keys' <=> KErase(t) \in Keys
          /\ in_queue' = in_queue /\ out_queue' = out_queue /\ work' = work /\ pms' = pms
      BY <2>1, PlainErases
    <3> QED BY <1>1, <3>1, PoolStays
  <2>2. CASE RunVerify
    BY <1>1, <2>2, PoolVerifies
  <2>3. CASE PoolHandler
    BY <1>1, <2>3, PoolHandles
  <2>4. CASE RunDrain
    BY <1>1, <2>4, PoolDrains
  <2>5. CASE RunErase
    BY <1>1, <2>5, PoolErases
  <2> QED BY <1>4, <2>1, <2>2, <2>3, <2>4, <2>5 DEF Step
<1>5. setting.proposed \subseteq Blocks /\ setting.relays \subseteq Relays
  BY VeriPoolAssumption DEF CtlInv, TypeOK
<1>6. CASE \/ \E b \in Blocks : OnFetchBlk(b)
           \/ \E b \in setting.proposed : ProposeHandler(b)
           \/ \E r \in setting.relays : VoteRelayHandler(r)
           \/ WaitQc \/ GiveUp \/ QcFinish
  <2>1. \/ PoolHandler \/ WaitQc \/ GiveUp \/ QcFinish
        \/ \E b \in Blocks : OnFetchBlk(b) \/ ProposeHandler(b)
        \/ \E r \in Relays : VoteRelayHandler(r)
    BY <1>5, <1>6
  <2> QED BY <1>1, <2>1, PoolHandles
<1> QED BY <1>2, <1>3, <1>4, <1>6 DEF Next

(* At the start the pool is empty.                                         *)
LEMMA PoolInit ==
    ASSUME Init
    PROVE  PoolInv
<1>1. /\ stack = <<>> /\ pms = {} /\ in_queue = <<>> /\ out_queue = [w \in Workers |-> <<>>]
      /\ work = [w \in Workers |-> [task |-> None, cnt |-> 0]]
  BY DEF Init
<1>2. Keys = {} /\ IsSeq(<<>>) /\ Items(<<>>) = {}
  BY <1>1, NoSteps DEF Keys
<1>3. /\ DOMAIN out_queue = Workers /\ DOMAIN work = Workers
      /\ \A w \in Workers : /\ out_queue[w] = <<>>
                            /\ DOMAIN work[w] = {"task", "cnt"} /\ work[w].task = None
  BY <1>1
<1>4. PoolTypeOK
  BY <1>1, <1>2, <1>3 DEF PoolTypeOK
<1>5. Inj(<<>>)
  BY DEF Inj
<1>6. \A t \in Tasks : \A x \in Places : ~ At(t, x)
  BY <1>1, <1>2, <1>3, TaskOwner DEF At
<1> QED BY <1>1, <1>3, <1>4, <1>5, <1>6 DEF PoolInv

(* The inductive invariant of the model: CtlInv of the promises, the stack *)
(* of the main thread and what the continuations saw, and PoolInv of the   *)
(* queues, the threads and pms. It holds in every reachable state, for     *)
(* every number of blocks, relays, signatures, threads and waits.          *)
THEOREM PromisesAndPool == Spec => [](CtlInv /\ PoolInv)
<1>1. Init => CtlInv /\ PoolInv
  BY CtlInit, PoolInit
<1>2. CtlInv /\ PoolInv /\ [Next]_vars => (CtlInv /\ PoolInv)'
  BY CtlStep, PoolStep
<1> QED BY <1>1, <1>2, PTL DEF Spec

(* CalledOnce: every continuation of the replica is called at most once, a *)
(* settled promise keeps no callback of its kind, and with the main thread *)
(* idle a continuation has been called if and only if what then returned   *)
(* for it is fulfilled (resolve, reject and then in promise.hpp).          *)
THEOREM CallsOnce == Spec => []CalledOnce
<1>1. CtlInv => CalledOnce
  <2> SUFFICES ASSUME CtlInv PROVE CalledOnce
    OBVIOUS
  <2>1. ASSUME NEW c \in Continuations PROVE Len(seen[c]) <= 1
    <3>1. seen[c] = <<>> \/ \E x : seen[c] = <<x>>
      BY DEF CtlInv, TypeOK
    <3>2. Len(<<>>) = 0 /\ \A x : Len(<<x>>) = 1
      OBVIOUS
    <3>3. CASE seen[c] = <<>>
      BY <3>2, <3>3
    <3>4. ASSUME NEW x, seen[c] = <<x>> PROVE Len(seen[c]) <= 1
      <4>1. Len(seen[c]) = 1
        BY <3>4
      <4> QED BY <4>1
    <3> QED BY <3>1, <3>3, <3>4
  <2>2. \A p \in Promises :
          /\ pr[p].state = "Fulfilled" => pr[p].onF = <<>>
          /\ pr[p].state = "Rejected" => pr[p].onR = <<>>
    BY DEF CtlInv, ListInv, ListOK
  <2>3. ASSUME stack = <<>>, NEW c \in Continuations
        PROVE  pr[<<"npm", c>>].state = "Fulfilled" <=> seen[c] # <<>>
    <3>1. PICK p : p = <<"npm", c>>
      OBVIOUS
    <3>2. p \in Promises /\ p[1] = "npm" /\ p[2] = c
      BY <3>1, PromisesThere
    <3>3. pr[p].state = "Fulfilled" => seen[c] # <<>>
      BY <3>2 DEF CtlInv, ListInv, ListOK, ValueOK
    <3>4. Items(stack) = {}
      BY <2>3, NoSteps
    <3>5. seen[c] # <<>> => pr[p].state = "Fulfilled"
      BY <3>1, <3>4 DEF CtlInv, SeenInv, SeenOK
    <3> QED BY <3>1, <3>3, <3>5
  <2> QED BY <2>1, <2>2, <2>3 DEF CalledOnce
<1> QED BY <1>1, PromisesAndPool, PTL

(* RightVerdict: a block and a relay are judged by all their signatures    *)
(* and by no others, whatever the order in which threads finish and blocks *)
(* come, a relay only after its block is delivered, and promise::all is    *)
(* never given an empty list (promise::all in promise.hpp, verify in       *)
(* crypto.cpp, async_deliver_blk and vote_relay_handler in hotstuff.cpp).  *)
THEOREM JudgesRight == Spec => []RightVerdict
<1>1. ASSUME CtlInv, NEW c, NEW o \in Owners, JudgedOK(c, o), seen[c] # <<>>
      PROVE  Head(seen[c]) = "true" <=> AllGood(o)
  <2>1. PICK p : p = <<"cert", o>>
    OBVIOUS
  <2>2. p \in Promises /\ p[1] = "cert" /\ p[2] = o
    BY <2>1, PromisesThere
  <2>3. pr[p].state = "Fulfilled" /\ pr[p].value = Head(seen[c])
    BY <1>1, <2>1 DEF JudgedOK
  <2>4. ValueOK(p, pr[p].value)
    BY <1>1, <2>2, <2>3 DEF CtlInv, ListInv, ListOK
  <2> QED BY <2>2, <2>3, <2>4 DEF ValueOK
<1>2. CtlInv => RightVerdict
  <2> SUFFICES ASSUME CtlInv PROVE RightVerdict
    OBVIOUS
  <2>1. ~ thrown
    BY DEF CtlInv
  <2>2. ASSUME NEW b \in Blocks, seen[<<"delivery", b>>] # <<>>
        PROVE  Head(seen[<<"delivery", b>>]) = "true" <=> AllGood(<<"blk", b>>)
    <3>1. JudgedOK(<<"delivery", b>>, <<"blk", b>>)
      BY DEF CtlInv, SeenInv
    <3> QED BY <1>1, <2>2, <3>1, OwnerParts
  <2>3. ASSUME NEW r \in Relays, seen[<<"relayed", r>>] # <<>>
        PROVE  /\ Head(seen[<<"relayed", r>>]) = "true" <=> AllGood(<<"relay", r>>)
               /\ pr[<<"deliver", RelayOf[r].blk>>].state = "Fulfilled"
    <3>1. /\ JudgedOK(<<"relayed", r>>, <<"relay", r>>)
          /\ pr[<<"deliver", RelayOf[r].blk>>].state = "Fulfilled"
      BY <2>3 DEF CtlInv, SeenInv
    <3> QED BY <1>1, <2>3, <3>1, OwnerParts
  <2> QED BY <2>1, <2>2, <2>3 DEF RightVerdict
<1> QED BY <1>2, PromisesAndPool, PTL

(* A set with one element at most.                                         *)
LEMMA OneOrNone ==
    ASSUME NEW S, \A x, y \in S : x = y
    PROVE  Cardinality(S) = IF S = {} THEN 0 ELSE 1
<1>1. CASE S = {}
  BY <1>1, FS_EmptySet
<1>2. CASE S # {}
  <2>1. PICK x : x \in S
    BY <1>2
  <2>2. S = {x}
    BY <2>1
  <2> QED BY <1>2, <2>2, FS_Singleton
<1> QED BY <1>1, <1>2

(* How often a task is in a queue.                                         *)
LEMMA LaneIs ==
    ASSUME NEW q, Inj(q), NEW t
    PROVE  Cardinality({i \in DOMAIN q : q[i] = t}) = IF t \in Items(q) THEN 1 ELSE 0
<1> DEFINE S == {i \in DOMAIN q : q[i] = t}
<1>1. \A x, y \in S : x = y
  BY DEF Inj
<1>2. S = {} <=> t \notin Items(q)
  BY DEF Items
<1>3. Cardinality(S) = IF S = {} THEN 0 ELSE 1
  BY <1>1, OneOrNone
<1> QED BY <1>2, <1>3

(* NothingOrphaned: a task is in pms if and only if it is in one of the    *)
(* queues, with a thread or about to be erased, and it is in one place     *)
(* only; the handler of out_queue always finds in pms what it was handed   *)
(* (VeriPool in task.h).                                                   *)
THEOREM TasksAreHeld == Spec => []NothingOrphaned
<1> DEFINE lane(q, t) == Cardinality({i \in DOMAIN q : q[i] = t})
           W(t) == {w \in Workers : work[w].task = t}
           O(t) == {w \in Workers : lane(out_queue[w], t) > 0}
<1>1. ASSUME CtlInv, PoolInv, NEW t \in Tasks
      PROVE  lane(in_queue, t) + Cardinality(W(t)) + Cardinality(O(t)) + lane(stack, Erase(t))
                = IF t \in pms THEN 1 ELSE 0
  <2>1. /\ \A x, y \in Places : At(t, x) /\ At(t, y) => x = y
        /\ t \in pms <=> \E x \in Places : At(t, x)
        /\ Inj(in_queue) /\ \A w \in Workers : Inj(out_queue[w])
    BY <1>1 DEF PoolInv
  <2>2. lane(in_queue, t) = IF At(t, <<"in">>) THEN 1 ELSE 0
    BY <2>1, LaneIs, AtIs
  <2>3. \A w \in Workers : lane(out_queue[w], t) > 0 <=> At(t, <<"out", w>>)
    <3> SUFFICES ASSUME NEW w \in Workers PROVE lane(out_queue[w], t) > 0 <=> At(t, <<"out", w>>)
      OBVIOUS
    <3>1. lane(out_queue[w], t) = IF t \in Items(out_queue[w]) THEN 1 ELSE 0
      BY <2>1, LaneIs
    <3>2. At(t, <<"out", w>>) <=> t \in Items(out_queue[w])
      BY AtIs
    <3> QED BY <3>1, <3>2
  <2>4. lane(stack, Erase(t)) = IF At(t, <<"erase">>) THEN 1 ELSE 0
    <3> DEFINE S == {i \in DOMAIN stack : stack[i] = Erase(t)}
    <3>1. Key(Erase(t)) = KErase(t) /\ KErase(t) # Free
      BY KeyIs, KeysDiffer
    <3>2. \A x, y \in S : x = y
      BY <1>1, <3>1 DEF CtlInv, StackInv, Linear
    <3>3. S = {} <=> ~ Erases(stack, t)
      <4>1. \A z \in Items(stack) : z.op = "erase" /\ z.t = t => z = Erase(t)
        BY <1>1, ShapeOf DEF CtlInv, StackInv
      <4>2. Erase(t).op = "erase" /\ Erase(t).t = t
        BY ErasesOps
      <4> QED BY <4>1, <4>2 DEF Erases, Items
    <3>4. Erases(stack, t) <=> At(t, <<"erase">>)
      BY KeyErases, AtIs DEF Keys
    <3>5. Cardinality(S) = IF S = {} THEN 0 ELSE 1
      BY <3>2, OneOrNone
    <3> QED BY <3>3, <3>4, <3>5
  <2>5. Cardinality(W(t)) = IF \E w \in Workers : At(t, <<"work", w>>) THEN 1 ELSE 0
    <3>1. \A w \in Workers : w \in W(t) <=> At(t, <<"work", w>>)
      BY AtIs
    <3>2. \A x, y \in W(t) : x = y
      BY <2>1, <3>1, PlacesDiffer
    <3>3. Cardinality(W(t)) = IF W(t) = {} THEN 0 ELSE 1
      BY <3>2, OneOrNone
    <3> QED BY <3>1, <3>3
  <2>6. Cardinality(O(t)) = IF \E w \in Workers : At(t, <<"out", w>>) THEN 1 ELSE 0
    <3>1. \A w \in Workers : w \in O(t) <=> At(t, <<"out", w>>)
      BY <2>3
    <3>2. \A x, y \in O(t) : x = y
      BY <2>1, <3>1, PlacesDiffer
    <3>3. Cardinality(O(t)) = IF O(t) = {} THEN 0 ELSE 1
      BY <3>2, OneOrNone
    <3> QED BY <3>1, <3>3
  <2>7. /\ ~ (At(t, <<"in">>) /\ At(t, <<"erase">>))
        /\ \A w \in Workers : At(t, <<"work", w>>) => ~ At(t, <<"in">>) /\ ~ At(t, <<"erase">>)
        /\ \A w \in Workers : At(t, <<"out", w>>) => ~ At(t, <<"in">>) /\ ~ At(t, <<"erase">>)
        /\ \A w, y \in Workers : ~ (At(t, <<"work", w>>) /\ At(t, <<"out", y>>))
    BY <2>1, PlacesDiffer
  <2>8. t \in pms <=> \/ At(t, <<"in">>) \/ At(t, <<"erase">>)
                      \/ \E w \in Workers : At(t, <<"work", w>>)
                      \/ \E w \in Workers : At(t, <<"out", w>>)
    BY <2>1, PlaceParts, PlacesDiffer
  <2> HIDE DEF lane, W, O
  <2>9. PICK a, b, c, d :
          /\ a = lane(in_queue, t) /\ b = Cardinality(W(t)) /\ c = Cardinality(O(t))
          /\ d = lane(stack, Erase(t))
    OBVIOUS
  <2>10. a \in {0, 1} /\ b \in {0, 1} /\ c \in {0, 1} /\ d \in {0, 1}
    BY <2>2, <2>4, <2>5, <2>6, <2>9
  <2>11. t \in pms <=> a = 1 \/ b = 1 \/ c = 1 \/ d = 1
    BY <2>2, <2>4, <2>5, <2>6, <2>8, <2>9
  <2>12. /\ ~ (a = 1 /\ b = 1) /\ ~ (a = 1 /\ c = 1) /\ ~ (a = 1 /\ d = 1)
         /\ ~ (b = 1 /\ c = 1) /\ ~ (b = 1 /\ d = 1) /\ ~ (c = 1 /\ d = 1)
    <3>1. (a = 1 <=> At(t, <<"in">>)) /\ (d = 1 <=> At(t, <<"erase">>))
      BY <2>2, <2>4, <2>9
    <3>2. b = 1 <=> \E w \in Workers : At(t, <<"work", w>>)
      BY <2>5, <2>9
    <3>3. c = 1 <=> \E w \in Workers : At(t, <<"out", w>>)
      BY <2>6, <2>9
    <3> QED BY <2>7, <3>1, <3>2, <3>3, Zenon
  <2>13. a + b + c + d = IF t \in pms THEN 1 ELSE 0
    BY ONLY <2>10, <2>11, <2>12
  <2> QED BY <2>9, <2>13
<1>2. CtlInv /\ PoolInv => NothingOrphaned
  BY <1>1 DEF NothingOrphaned
<1> QED BY <1>2, PromisesAndPool, PTL
=============================================================================
