------------------------- MODULE WorkflowEngineProofs -------------------------
(***************************************************************************)
(* Proofs about the step engine for every workflow, every number of        *)
(* consumers and every bound, in five parts: the types; what retries cost;  *)
(* one join for each entry of PARALLEL; executions a user can move; and     *)
(* what messages say of the loops, results and parents they come from.      *)
(* Each part has an inductive invariant of its own beside that of the       *)
(* types, IInv.  The branches of nested scopes are counted in                *)
(* ParallelScopeProofs.                                                     *)
(***************************************************************************)
EXTENDS WorkflowEngine, FiniteSetTheorems, TLAPS

-------------------------------------------------------------------------------
(* The inductive invariant.  A message carries the messages of its parent's  *)
(* next steps, which may carry others, to any depth: instead of a recursion  *)
(* over that nesting the invariant asks for a set D of messages that holds   *)
(* all of them and is closed under "is carried by".                          *)

UsedKey(k) == k \in Key /\ mail[k[1]].state # "unsent"

\* A message that is well formed, of an execution and of records that exist.
Sound(d) ==
  /\ IsDetail(d)
  /\ exec[d.exec].status # "none"
  /\ d.wsxh # None => UsedKey(d.wsxh)
  /\ d.rerun => UsedKey(d.wsxh)
  /\ d.parent # None => UsedKey(d.parent.key)

Carries(d, D) ==
  d.parent # None => IsFiniteSet(d.parent.next) /\ d.parent.next \subseteq D

Closed(D) == \A d \in D : Sound(d) /\ Carries(d, D)

DetailInv(D) ==
  /\ Closed(D)
  /\ outside \subseteq D
  /\ \A m \in Used : mail[m].body \in D

MailField == {"state", "receives", "body"}

\* Message ids are taken in order.
MailInv ==
  /\ mail = [m \in Msg |-> mail[m]]
  /\ \A m \in Msg :
       /\ mail[m] = [f \in MailField |-> mail[m][f]]
       /\ mail[m].state \in {"unsent", "queued", "handled", "done", "dead"}
       /\ mail[m].receives \in 0 .. MaxReceive
  /\ \E n \in Nat : Used = 1 .. n

HistInv == HistOK /\ \A k \in DOMAIN hist : UsedKey(k)

HandlerField ==
  {"pc", "msg", "key", "parallel", "ste", "idx", "idxs", "next", "child"}

\* The places where the next steps are known.
Chosen ==
  {"error", "onError", "child", "sendChild", "ask", "delay", "join", "joined", "emit"}

\* What is known of a handler by the place it is at.
Fits(w) ==
  LET b == mail[w.msg].body
  IN /\ w = [f \in HandlerField |-> w[f]]
     /\ w.parallel \in Seq(ParallelEntry)
     /\ w.ste \subseteq Step
     /\ w.pc \in InsideTry \union {"external"} => UsedKey(w.key)
     /\ w.pc \in Chosen => w.next \in Seq(Step \union {NoStep})
     /\ w.pc # "idle" =>
          /\ w.msg \in Msg
          /\ mail[w.msg].state = "handled"
          /\ mail[w.msg].receives # 0
     /\ w.pc \notin {"idle", "undefined", "return"} => b.step \in Step
     /\ w.pc \in {"resume", "resumed"} => b.parent # None
     /\ w.pc = "loop" => LoopsAgain(b)
     /\ w.pc = "rerun" => b.rerun
     /\ w.pc \in {"child", "sendChild"} => T[b.step] = "SubWorkflow"
     /\ w.pc = "sendChild" => w.child \in Exec /\ exec[w.child].status # "none"

Exclusive ==
  \A c, d \in Consumer :
    ~At(c, "idle") /\ ~At(d, "idle") /\ worker[c].msg = worker[d].msg => c = d

WorkerInv ==
  /\ worker = [c \in Consumer |-> worker[c]]
  /\ \A c \in Consumer : Fits(worker[c])
  /\ Exclusive

Inv(D) == ExecOK /\ MailInv /\ HistInv /\ WorkerInv /\ DetailInv(D)

IInv == \E D : Inv(D)

-------------------------------------------------------------------------------
(* Sequences, sets and the queue *)

\* SetToSeq lists a finite set.
LEMMA SetToSeqType ==
  ASSUME NEW S, IsFiniteSet(S)
  PROVE  /\ Cardinality(S) \in Nat
         /\ SetToSeq(S) \in [1 .. Cardinality(S) -> S]
         /\ Len(SetToSeq(S)) = Cardinality(S)
<1>1. Cardinality(S) \in Nat /\ ExistsBijection(1 .. Cardinality(S), S)
  BY FS_CardinalityType
<1>2. \E f \in [1 .. Cardinality(S) -> S] : IsInjective(f)
  BY <1>1 DEF ExistsBijection, Bijection, Injection
<1>3. SetToSeq(S) \in [1 .. Cardinality(S) -> S]
  BY <1>2 DEF SetToSeq
<1> QED
  BY <1>1, <1>3

\* The image of a finite set, and of a sequence, is finite.
LEMMA ImageFinite ==
  ASSUME NEW S, IsFiniteSet(S), NEW f, f = [x \in S |-> f[x]]
  PROVE  IsFiniteSet({f[x] : x \in S})
<1>1. f \in Surjection(S, {f[x] : x \in S})
  BY DEF Surjection
<1> QED
  BY <1>1, FS_Surjection

LEMMA SeqImageFinite ==
  ASSUME NEW X, NEW s \in Seq(X), NEW f, f = [i \in DOMAIN s |-> f[i]]
  PROVE  IsFiniteSet({f[i] : i \in DOMAIN s})
<1>1. Len(s) \in Int /\ 1 \in Int /\ DOMAIN s = 1 .. Len(s)
  OBVIOUS
<1>2. \A a, b \in Int : IsFiniteSet(a .. b)
  BY FS_Interval
<1>3. IsFiniteSet(DOMAIN s)
  BY <1>1, <1>2
<1> QED
  BY <1>3, ImageFinite

LEMMA NothingYet ==
  << >> \in Seq(ParallelEntry) /\ {} \subseteq Step
OBVIOUS

LEMMA MsgFacts ==
  /\ Cardinality(Msg) \in Nat
  /\ Msg = 1 .. Cardinality(Msg)
BY WorkflowAssumption, FS_CardinalityType DEF WorkflowAssumption

\* A message is received at least once.
LEMMA ReceivesOnce == MaxReceive \in Nat /\ 0 < MaxReceive
<1>1. MaxReceive \in Nat \ {0}
  BY WorkflowAssumption, Zenon DEF WorkflowAssumption
<1> QED
  BY <1>1

\* What delivering S does to the queue.
MailGrows(S) ==
  /\ \A m \in Used : mail'[m] = mail[m]
  /\ \A m \in Msg : mail'[m].state # "unsent" => m \in Used \/ mail'[m].body \in S

\* Deliver takes the next free message ids and touches no message in use.
LEMMA DeliverGrows ==
  ASSUME MailInv, NEW S, IsFiniteSet(S), mail' = Deliver(S)
  PROVE  MailInv' /\ MailGrows(S)
<1> DEFINE q == SetToSeq(S)
           k == Len(q)
<1>1. k \in Nat /\ q \in [1 .. k -> S]
  BY SetToSeqType
<1>2. PICK n \in Nat : Used = 1 .. n
  BY DEF MailInv
<1>3. Cardinality(Used) = n
  BY <1>2, FS_Interval
<1> HIDE DEF q, k
<1>4. mail' = [m \in Msg |-> IF m > n /\ m <= n + k
                  THEN [state |-> "queued", receives |-> 0, body |-> q[m - n]]
                  ELSE mail[m]]
  BY <1>3 DEF Deliver, q, k
<1>5. Msg \subseteq Nat /\ \A m \in Used : ~(m > n)
  BY <1>2, MsgFacts
<1>6. MailGrows(S)
  <2>1. \A m \in Used : mail'[m] = mail[m]
    BY <1>4, <1>5 DEF Used
  <2>2. \A m \in Msg : m > n /\ m <= n + k => mail'[m].body \in S
    <3> TAKE m \in Msg
    <3> HAVE m > n /\ m <= n + k
    <3>1. m - n \in 1 .. k
      BY <1>1, <1>2, <1>5
    <3> QED
      BY <3>1, <1>1, <1>4
  <2>3. \A m \in Msg : ~(m > n /\ m <= n + k) => mail'[m] = mail[m]
    BY <1>4
  <2> QED
    BY <2>1, <2>2, <2>3 DEF MailGrows, Used
<1>7. mail' = [m \in Msg |-> mail'[m]]
  BY <1>4
<1>8. \A m \in Msg :
        /\ mail'[m] = [f \in MailField |-> mail'[m][f]]
        /\ mail'[m].state \in {"unsent", "queued", "handled", "done", "dead"}
        /\ mail'[m].receives \in 0 .. MaxReceive
  <2> TAKE m \in Msg
  <2>1. 0 \in 0 .. MaxReceive
    <3>1. MaxReceive \in Nat
      BY WorkflowAssumption DEF WorkflowAssumption
    <3> QED
      BY <3>1
  <2>2. CASE m > n /\ m <= n + k
    BY <1>4, <2>1, <2>2 DEF MailField
  <2>3. CASE ~(m > n /\ m <= n + k)
    BY <1>4, <2>3 DEF MailInv
  <2> QED
    BY <2>2, <2>3
<1>9. \E j \in Nat : Used' = 1 .. j
  <2> DEFINE N == Cardinality(Msg)
             j == IF n + k <= N THEN n + k ELSE N
  <2>1. N \in Nat /\ Msg = 1 .. N
    BY MsgFacts
  <2>2. n <= N
    BY <1>2, <2>1 DEF Used
  <2>3. Used' = {m \in Msg : m <= n + k}
    <3>1. \A m \in Msg : m <= n <=> m \in Used
      BY <1>2, MsgFacts
    <3>2. \A m \in Msg : m <= n + k <=> m \in Used'
      <4> TAKE m \in Msg
      <4>1. CASE m > n /\ m <= n + k
        BY <1>4, <4>1 DEF Used
      <4>2. CASE ~(m > n /\ m <= n + k)
        <5>1. m <= n + k <=> m <= n
          BY <4>2, <1>1, <1>2, MsgFacts
        <5> QED
          BY <3>1, <4>2, <5>1, <1>4 DEF Used
      <4> QED
        BY <4>1, <4>2
    <3> QED
      BY <3>2 DEF Used
  <2>4. Used' = 1 .. j
    BY <1>1, <2>1, <2>2, <2>3
  <2>5. j \in Nat
    BY <1>1, <2>1
  <2> QED
    BY <2>4, <2>5
<1> QED
  BY <1>6, <1>7, <1>8, <1>9 DEF MailInv

\* putEventsEB delivers the events or loses them.
LEMMA PutEventsGrows ==
  ASSUME MailInv, NEW S, IsFiniteSet(S), PutEvents(S)
  PROVE  MailInv' /\ MailGrows(S)
<1>1. CASE mail' = Deliver(S)
  BY <1>1, DeliverGrows
<1>2. CASE mail' = mail
  BY <1>2 DEF MailInv, MailGrows, Used
<1> QED
  BY <1>1, <1>2 DEF PutEvents

-------------------------------------------------------------------------------
(* What survives a step *)

StatusKept ==
  \A e \in Exec : exec[e].status # "none" => exec'[e].status # "none"

\* Nothing sent is unsent again, no body changes, no execution disappears.
Advance ==
  /\ StatusKept
  /\ \A m \in Used : mail'[m].state # "unsent" /\ mail'[m].body = mail[m].body

LEMMA UsedKeyKept ==
  ASSUME NEW k, UsedKey(k), Advance
  PROVE  UsedKey(k)'
BY DEF UsedKey, Key, Advance, Used

LEMMA SoundKept ==
  ASSUME NEW d, Sound(d), Advance
  PROVE  Sound(d)'
<1>1. exec'[d.exec].status # "none"
  BY DEF Sound, IsDetail, Advance, StatusKept
<1>2. /\ d.wsxh # None => UsedKey(d.wsxh)'
      /\ d.rerun => UsedKey(d.wsxh)'
      /\ d.parent # None => UsedKey(d.parent.key)'
  BY UsedKeyKept DEF Sound
<1> QED
  BY <1>1, <1>2 DEF Sound

LEMMA FitsKept ==
  ASSUME NEW w, Fits(w), Advance,
         w.pc # "idle" => mail'[w.msg] = mail[w.msg]
  PROVE  Fits(w)'
<1>1. w.pc \in InsideTry \union {"external"} => UsedKey(w.key)'
  BY UsedKeyKept DEF Fits
<1>2. w.pc = "sendChild" => w.child \in Exec /\ exec'[w.child].status # "none"
  BY DEF Fits, Advance, StatusKept
<1> QED
  BY <1>1, <1>2 DEF Fits, InsideTry

\* The next state of a handler fits when its value does.
LEMMA FitsNext ==
  ASSUME NEW x, NEW y, worker'[x] = y, Fits(y)'
  PROVE  Fits(worker[x])'
<1>1. Fits(worker[x])' = Fits(y)'
  BY ZenonT(30) DEF Fits
<1> QED
  BY <1>1

\* The queue and the outside world hold messages of D and the new ones, S.
LEMMA DetailStep ==
  ASSUME NEW D, DetailInv(D), Advance, NEW S,
         \A d \in S : Sound(d)' /\ Carries(d, D \union S),
         outside' \subseteq outside \union S,
         \A m \in Msg : mail'[m].state # "unsent" => m \in Used \/ mail'[m].body \in S
  PROVE  DetailInv(D \union S)'
<1>1. \A d \in D : Sound(d)' /\ Carries(d, D \union S)
  BY SoundKept DEF DetailInv, Closed, Carries
<1>2. \A m \in Used' : mail'[m].body \in D \union S
  BY DEF DetailInv, Advance, Used
<1> QED
  BY <1>1, <1>2 DEF DetailInv, Closed, Carries

LEMMA HistKept ==
  ASSUME HistInv, Advance, hist' = hist
  PROVE  HistInv'
BY UsedKeyKept DEF HistInv, HistOK

LEMMA RecordKept ==
  ASSUME HistInv, Advance, NEW k, UsedKey(k),
         NEW s \in {"Started", "Finished", "Error", "Pause"}, hist' = Record(k, s)
  PROVE  HistInv'
<1>1. DOMAIN hist' = {k} \union DOMAIN hist
  BY DEF Record
<1>2. \A x \in DOMAIN hist' : hist'[x] = IF x = k THEN s ELSE hist[x]
  BY DEF Record
<1>3. \A x \in DOMAIN hist' : UsedKey(x)'
  BY <1>1, UsedKeyKept DEF HistInv
<1>4. HistOK'
  BY <1>1, <1>2 DEF HistInv, HistOK, UsedKey
<1> QED
  BY <1>3, <1>4 DEF HistInv

\* A handler is at work on a message of D.
LEMMA Handling ==
  ASSUME NEW D, Inv(D), NEW c \in Consumer, ~At(c, "idle")
  PROVE  /\ worker[c].msg \in Used
         /\ Body(c) \in D
         /\ Sound(Body(c)) /\ Carries(Body(c), D)
         /\ Fits(worker[c])
<1>1. Fits(worker[c])
  BY DEF Inv, WorkerInv
<1>2. worker[c].msg \in Used
  BY <1>1 DEF Fits, At, Used
<1>3. Body(c) \in D
  BY <1>2 DEF Inv, DetailInv, Body
<1> QED
  BY <1>1, <1>2, <1>3 DEF Inv, DetailInv, Closed

\* One step of handler c that keeps its message: it becomes w, the queue grows
\* by messages of S, and S is what may be added to the outside world.
LEMMA HandlerStep ==
  ASSUME NEW D, Inv(D), NEW c \in Consumer, ~At(c, "idle"),
         StatusKept, ExecOK', HistInv', MailInv',
         NEW S, MailGrows(S), \A d \in S : Sound(d)' /\ Carries(d, D \union S),
         outside' \subseteq outside \union S,
         NEW w, worker' = [worker EXCEPT ![c] = w], Fits(w)',
         w.msg = worker[c].msg, w.pc # "idle"
  PROVE  IInv'
<1>1. Advance
  BY DEF MailGrows, Advance, Used
<1>2. DetailInv(D \union S)'
  BY <1>1, DetailStep DEF Inv, MailGrows
<1>3. worker' = [x \in Consumer |-> worker'[x]] /\ worker'[c] = w
      /\ \A x \in Consumer \ {c} : worker'[x] = worker[x]
  BY DEF Inv, WorkerInv
<1>4. \A x \in Consumer : Fits(worker[x])'
  <2> TAKE x \in Consumer
  <2>1. CASE x = c
    BY <2>1, <1>3 DEF Fits
  <2>2. CASE x # c
    <3>1. PICK y : y = worker[x]
      OBVIOUS
    <3>2. Fits(y)
      BY <3>1 DEF Inv, WorkerInv
    <3>3. y.pc # "idle" => mail'[y.msg] = mail[y.msg]
      BY <3>2 DEF Fits, MailGrows, Used
    <3>4. Fits(y)'
      BY <1>1, <3>2, <3>3, FitsKept
    <3>5. worker'[x] = y
      BY <1>3, <2>2, <3>1
    <3> QED
      BY <3>4, <3>5, FitsNext
  <2> QED
    BY <2>1, <2>2
<1>5. Exclusive'
  BY <1>3 DEF Inv, WorkerInv, Exclusive, At
<1>6. WorkerInv'
  BY <1>3, <1>4, <1>5 DEF WorkerInv
<1> QED
  BY <1>2, <1>6 DEF IInv, Inv

\* The same when what is new is sound already, before the step.
LEMMA MoveStep ==
  ASSUME NEW D, Inv(D), NEW c \in Consumer, ~At(c, "idle"),
         StatusKept, ExecOK', HistInv', MailInv',
         NEW S, MailGrows(S), \A d \in S : Sound(d) /\ Carries(d, D \union S),
         outside' \subseteq outside \union S,
         NEW w, worker' = [worker EXCEPT ![c] = w], Fits(w),
         w.msg = worker[c].msg, w.pc # "idle"
  PROVE  IInv'
<1>1. Advance
  BY DEF MailGrows, Advance, Used
<1>2. \A d \in S : Sound(d)'
  BY <1>1, SoundKept
<1>3. mail'[w.msg] = mail[w.msg]
  BY DEF Fits, MailGrows, Used
<1>4. Fits(w)'
  BY <1>1, <1>3, FitsKept
<1> QED
  BY <1>2, <1>4, HandlerStep

\* The same when only the handler, its records and its execution change.
LEMMA QuietStep ==
  ASSUME NEW D, Inv(D), NEW c \in Consumer, ~At(c, "idle"),
         StatusKept, ExecOK', HistInv', UNCHANGED <<mail, outside>>,
         NEW w, worker' = [worker EXCEPT ![c] = w], Fits(w),
         w.msg = worker[c].msg, w.pc # "idle"
  PROVE  IInv'
<1>1. PICK S : S = {}
  OBVIOUS
<1>2. MailInv' /\ MailGrows(S)
  BY DEF Inv, MailInv, MailGrows, Used
<1>3. outside' \subseteq outside \union S
  OBVIOUS
<1>4. \A d \in S : Sound(d) /\ Carries(d, D \union S)
  BY <1>1
<1> QED
  BY <1>2, <1>3, <1>4, MoveStep

\* One record of an execution changes and stays well formed.
LEMMA ExecStep ==
  ASSUME ExecOK, NEW e \in Exec, NEW r,
         r \in [status: {"Running", "Pause", "Finished", "Error"},
                parallel: Seq(ParallelEntry), ste: SUBSET Step, logged: BOOLEAN],
         exec' = [exec EXCEPT ![e] = r]
  PROVE  ExecOK' /\ StatusKept
BY DEF ExecOK, StatusKept

LEMMA Unchanged ==
  ASSUME ExecOK, UNCHANGED exec
  PROVE  ExecOK' /\ StatusKept
BY DEF ExecOK, StatusKept

\* The history with no message unsent again.
LEMMA HistStill ==
  ASSUME HistInv, StatusKept, UNCHANGED <<hist, mail>>
  PROVE  HistInv'
BY HistKept DEF Advance, Used

LEMMA RecordStill ==
  ASSUME HistInv, StatusKept, UNCHANGED mail, NEW k, UsedKey(k),
         NEW s \in {"Started", "Finished", "Error", "Pause"}, hist' = Record(k, s)
  PROVE  HistInv'
BY RecordKept DEF Advance, Used

\* The places a handler reaches without a condition of their own.
LEMMA GotoStep ==
  ASSUME NEW D, Inv(D), NEW c \in Consumer, ~At(c, "idle"),
         StatusKept, ExecOK', HistInv', MailInv',
         NEW S, MailGrows(S), \A d \in S : Sound(d) /\ Carries(d, D \union S),
         outside' \subseteq outside \union S,
         NEW p, Goto(c, p),
         p \notin {"idle", "resume", "resumed", "loop", "rerun", "child", "sendChild"},
         p \in InsideTry \union {"external"} => UsedKey(worker[c].key),
         p \in Chosen => worker[c].next \in Seq(Step \union {NoStep}),
         p # "return" => Body(c).step \in Step
  PROVE  IInv'
<1>1. PICK w : w = [worker[c] EXCEPT !.pc = p]
  OBVIOUS
<1>2. worker' = [worker EXCEPT ![c] = w]
  BY <1>1 DEF Goto
<1>3. Fits(worker[c])
  BY Handling
<1>4. w = [f \in HandlerField |-> IF f = "pc" THEN p ELSE worker[c][f]]
  BY <1>1, <1>3 DEF Fits, HandlerField
<1>5. /\ w.pc = p /\ w.msg = worker[c].msg /\ w.parallel = worker[c].parallel
      /\ w.ste = worker[c].ste /\ w.key = worker[c].key /\ w.next = worker[c].next
      /\ w = [f \in HandlerField |-> w[f]]
  BY <1>4, SMTT(60) DEF HandlerField
<1>6. Fits(w)
  BY <1>3, <1>5 DEF Fits, Body, At
<1> QED
  BY <1>2, <1>5, <1>6, MoveStep

\* The same when only the handler, its records and its execution change.
LEMMA QuietGoto ==
  ASSUME NEW D, Inv(D), NEW c \in Consumer, ~At(c, "idle"),
         StatusKept, ExecOK', HistInv', UNCHANGED <<mail, outside>>,
         NEW p, Goto(c, p),
         p \notin {"idle", "resume", "resumed", "loop", "rerun", "child", "sendChild"},
         p \in InsideTry \union {"external"} => UsedKey(worker[c].key),
         p \in Chosen => worker[c].next \in Seq(Step \union {NoStep}),
         p # "return" => Body(c).step \in Step
  PROVE  IInv'
<1>1. PICK S : S = {}
  OBVIOUS
<1>2. MailInv' /\ MailGrows(S)
  BY <1>1 DEF Inv, MailInv, MailGrows, Used
<1>3. outside' \subseteq outside \union S
  OBVIOUS
<1>4. \A d \in S : Sound(d) /\ Carries(d, D \union S)
  BY <1>1
<1> QED
  BY <1>2, <1>3, <1>4, GotoStep

\* Handler c writes r to the record of its execution.
LEMMA OwnExecStep ==
  ASSUME NEW D, Inv(D), NEW c \in Consumer, ~At(c, "idle"), NEW r,
         exec' = [exec EXCEPT ![Body(c).exec] = r],
         \/ \E s \in {"Finished", "Error"} : r = [exec[Body(c).exec] EXCEPT !.status = s]
         \/ \E P \in Seq(ParallelEntry) : r = [exec[Body(c).exec] EXCEPT !.parallel = P]
         \/ \E S \in SUBSET Step : r = [exec[Body(c).exec] EXCEPT !.ste = S]
         \/ r = [exec[Body(c).exec] EXCEPT !.logged = TRUE]
  PROVE  ExecOK' /\ StatusKept
<1>1. Body(c).exec \in Exec /\ exec[Body(c).exec].status # "none" /\ ExecOK
  BY Handling DEF Sound, IsDetail, Inv
<1>2. r \in [status: {"Running", "Pause", "Finished", "Error"},
              parallel: Seq(ParallelEntry), ste: SUBSET Step, logged: BOOLEAN]
  BY <1>1 DEF ExecOK
<1> QED
  BY <1>1, <1>2, ExecStep

-------------------------------------------------------------------------------
(* The actions of a handler *)

LEMMA EndExecutionKeeps ==
  ASSUME NEW D, Inv(D), NEW c \in Consumer, EndExecution(c)
  PROVE  IInv'
<1>1. ~At(c, "idle") /\ Fits(worker[c])
  BY Handling DEF EndExecution, At
<1>2. PICK r : r = [exec[Body(c).exec] EXCEPT !.status = "Finished"]
  OBVIOUS
<1>3. ExecOK' /\ StatusKept
  BY <1>1, <1>2, OwnExecStep DEF EndExecution
<1>4. HistInv'
  BY <1>3, HistStill DEF EndExecution, Inv
<1>5. PICK w : w = [worker[c] EXCEPT !.pc =
                      IF Body(c).parent = None THEN "return" ELSE "resume"]
  OBVIOUS
<1>6. worker' = [worker EXCEPT ![c] = w]
  BY <1>5 DEF EndExecution, Goto
<1>7. Fits(w) /\ w.msg = worker[c].msg /\ w.pc # "idle"
  BY <1>1, <1>5 DEF Fits, HandlerField, InsideTry, Chosen, Body, EndExecution, At
<1> QED
  BY <1>1, <1>3, <1>4, <1>6, <1>7, QuietStep DEF EndExecution

LEMMA LogTriggerKeeps ==
  ASSUME NEW D, Inv(D), NEW c \in Consumer, LogTrigger(c)
  PROVE  IInv'
<1>1. ~At(c, "idle") /\ Body(c).step \in Step
  BY Handling DEF LogTrigger, At, Fits, Body
<1>2. PICK r : r = [exec[Body(c).exec] EXCEPT !.logged = TRUE]
  OBVIOUS
<1>3. ExecOK' /\ StatusKept
  BY <1>1, <1>2, OwnExecStep DEF LogTrigger
<1>4. HistInv'
  BY <1>3, HistStill DEF LogTrigger, Inv
<1> QED
  BY <1>1, <1>3, <1>4, QuietGoto DEF LogTrigger, InsideTry, Chosen

\* The record a handler creates for its message.
LEMMA OwnKey ==
  ASSUME NEW D, Inv(D), NEW c \in Consumer, ~At(c, "idle")
  PROVE  UsedKey(Receipt(c))
<1>1. /\ worker[c].msg \in Msg /\ mail[worker[c].msg].state = "handled"
      /\ mail[worker[c].msg].receives # 0
  BY Handling DEF Fits, At
<1>2. mail[worker[c].msg].receives \in 0 .. MaxReceive /\ MaxReceive \in Nat
  BY <1>1, WorkflowAssumption DEF Inv, MailInv, WorkflowAssumption
<1>3. mail[worker[c].msg].receives \in 1 .. MaxReceive
  BY <1>1, <1>2
<1> QED
  BY <1>1, <1>3 DEF UsedKey, Key, Receipt

LEMMA ReadExecutionKeeps ==
  ASSUME NEW D, Inv(D), NEW c \in Consumer, ReadExecution(c)
  PROVE  IInv'
<1>1. ~At(c, "idle") /\ Body(c).step \in Step
  BY Handling DEF ReadExecution, At, Fits, Body
<1>2. ExecOK' /\ StatusKept
  BY Unchanged DEF ReadExecution, Inv
<1>3. HistInv'
  BY <1>1, <1>2, HistStill, RecordStill, OwnKey DEF ReadExecution, Inv
<1>4. PICK p \in {"return", "claim"} : Goto(c, p)
  BY DEF ReadExecution
<1> QED
  BY <1>1, <1>2, <1>3, <1>4, QuietGoto, SMTT(60) DEF ReadExecution, InsideTry, Chosen

\* The handler's copy fits, whatever record it works under.
LEMMA OpenStep ==
  ASSUME NEW D, Inv(D), NEW c \in Consumer, ~At(c, "idle"), Body(c).step \in Step,
         UNCHANGED <<exec, mail, outside>>, HistInv',
         NEW k, UsedKey(k), Open(c, k)
  PROVE  IInv'
<1> DEFINE b == Body(c)
           e == exec[b.exec]
<1>1. PICK w : w = [worker[c] EXCEPT !.pc = Begin(b), !.key = k, !.parallel = e.parallel,
                                     !.ste = e.ste, !.idx = b.idx, !.idxs = b.idxs]
  OBVIOUS
<1>2. worker' = [worker EXCEPT ![c] = w]
  BY <1>1 DEF Open
<1>3. Fits(worker[c]) /\ b.exec \in Exec
  BY Handling DEF Sound, IsDetail
<1>4. Begin(b) \in {"external", "parallel", "perform"}
  BY DEF Begin
<1>5. e.parallel \in Seq(ParallelEntry) /\ e.ste \subseteq Step
  BY <1>3 DEF Inv, ExecOK
<1> HIDE DEF b, e
<1>6. /\ w = [f \in HandlerField |-> w[f]]
      /\ w.pc = Begin(b) /\ w.key = k /\ w.parallel = e.parallel /\ w.ste = e.ste
      /\ w.msg = worker[c].msg
  BY <1>1, <1>3 DEF Fits, HandlerField
<1>7. Fits(w)
  BY <1>3, <1>4, <1>5, <1>6 DEF Fits, Chosen, Body, At
<1>8. ExecOK' /\ StatusKept
  BY Unchanged DEF Inv
<1> QED
  BY <1>2, <1>4, <1>6, <1>7, <1>8, QuietStep

LEMMA ClaimStepKeeps ==
  ASSUME NEW D, Inv(D), NEW c \in Consumer, ClaimStep(c)
  PROVE  IInv'
<1>1. ~At(c, "idle") /\ Body(c).step \in Step /\ Sound(Body(c))
  BY Handling DEF ClaimStep, At, Fits, Body
<1>2. PICK k : k = IF Body(c).wsxh = None THEN Receipt(c) ELSE Body(c).wsxh
  OBVIOUS
<1>3. UsedKey(k)
  BY <1>1, <1>2, OwnKey DEF Sound
<1>4. Open(c, k)
  BY <1>2 DEF ClaimStep
<1>5. hist' = Record(k, "Started") \/ hist' = hist
  BY <1>2 DEF ClaimStep
<1>6. HistInv'
  BY <1>3, <1>5, HistStill, RecordStill, Unchanged DEF ClaimStep, Inv
<1> QED
  BY <1>1, <1>3, <1>4, <1>6, OpenStep, SMTT(60) DEF ClaimStep

LEMMA ReopenStepKeeps ==
  ASSUME NEW D, Inv(D), NEW c \in Consumer, ReopenStep(c)
  PROVE  IInv'
<1>1. ~At(c, "idle") /\ Body(c).step \in Step /\ Sound(Body(c)) /\ Body(c).rerun
  BY Handling DEF ReopenStep, At, Fits, Body
<1>2. UsedKey(Body(c).wsxh)
  BY <1>1 DEF Sound
<1>3. HistInv'
  BY <1>2, RecordStill, Unchanged DEF ReopenStep, Inv
<1> QED
  BY <1>1, <1>2, <1>3, OpenStep, SMTT(60) DEF ReopenStep

LEMMA AskExternalKeeps ==
  ASSUME NEW D, Inv(D), NEW c \in Consumer, AskExternal(c)
  PROVE  IInv'
<1>1. ~At(c, "idle") /\ Sound(Body(c)) /\ Carries(Body(c), D)
  BY Handling DEF AskExternal, At
<1>2. UsedKey(worker[c].key)
  BY Handling DEF AskExternal, At, Fits
<1>3. PICK d : d = [Body(c) EXCEPT !.wsxh = worker[c].key, !.ext = TRUE,
                                !.by = Receipt(c)]
  OBVIOUS
<1>4. Sound(d) /\ Carries(d, D \union {d})
  <2>1. IsDetail(d)
    BY <1>1, <1>2, <1>3 DEF Sound, IsDetail, DetailField, UsedKey
  <2>2. d.wsxh = worker[c].key /\ d.exec = Body(c).exec /\ d.parent = Body(c).parent
    BY <1>1, <1>3 DEF Sound, IsDetail, DetailField
  <2> QED
    BY <1>1, <1>2, <2>1, <2>2 DEF Sound, Carries
<1>5. outside' \subseteq outside \union {d}
  BY <1>3 DEF AskExternal
<1>6. ExecOK' /\ StatusKept /\ HistInv'
  BY Unchanged, HistStill DEF AskExternal, Inv
<1>7. MailInv' /\ MailGrows({d})
  BY DEF Inv, MailInv, MailGrows, Used, AskExternal
<1>8. Goto(c, "return")
  BY DEF AskExternal
<1> QED
  BY <1>1, <1>4, <1>5, <1>6, <1>7, <1>8, GotoStep DEF InsideTry, Chosen

\* updateParallelStatus keeps PARALLEL a list of entries.
LEMMA ParallelTypes ==
  ASSUME NEW P \in Seq(ParallelEntry)
  PROVE  /\ \A n \in Nat : Fork(P, n) \in Seq(ParallelEntry)
         /\ \A i : Arrive(P, i) \in Seq(ParallelEntry)
         /\ \A i : Complete(P, i) \in Seq(ParallelEntry)
<1>1. \A n \in Nat : Fork(P, n) \in Seq(ParallelEntry)
  BY DEF Fork, ParallelEntry
<1>2. \A e \in ParallelEntry : [e EXCEPT !.finished = @ + 1] \in ParallelEntry
  BY DEF ParallelEntry
<1>3. \A j \in 1 .. Len(P) : P[j] \in ParallelEntry
  OBVIOUS
<1>4. ASSUME NEW i
      PROVE  Arrive(P, i) \in Seq(ParallelEntry)
  <2>1. PICK w : w = [P[i] EXCEPT !.finished = @ + 1]
    OBVIOUS
  <2>2. Arrive(P, i) = [j \in 1 .. Len(P) |-> IF j = i THEN w ELSE P[j]]
    BY <2>1 DEF Arrive
  <2>3. i \in 1 .. Len(P) => w \in ParallelEntry
    BY <1>2, <1>3, <2>1
  <2>4. Arrive(P, i) \in [1 .. Len(P) -> ParallelEntry]
    BY <1>3, <2>2, <2>3
  <2> QED
    BY <2>4
<1>5. ASSUME NEW i
      PROVE  Complete(P, i) \in Seq(ParallelEntry)
  <2>1. PICK v \in BOOLEAN : v = FALSE
    OBVIOUS
  <2>2. Complete(P, i) = [P EXCEPT ![i].active = v]
    BY <2>1, Zenon DEF Complete
  <2>3. [P EXCEPT ![i].active = v]
          = [j \in 1 .. Len(P) |-> IF j = i THEN [P[i] EXCEPT !.active = v] ELSE P[j]]
    OBVIOUS
  <2>4. \A e \in ParallelEntry : [e EXCEPT !.active = v] \in ParallelEntry
    BY DEF ParallelEntry
  <2>5. PICK w : w = [P[i] EXCEPT !.active = v]
    OBVIOUS
  <2>6. i \in 1 .. Len(P) => w \in ParallelEntry
    BY <1>3, <2>4, <2>5
  <2>7. Complete(P, i) = [j \in 1 .. Len(P) |-> IF j = i THEN w ELSE P[j]]
    BY <2>2, <2>3, <2>5, Zenon
  <2>8. Complete(P, i) \in [1 .. Len(P) -> ParallelEntry]
    BY <1>3, <2>6, <2>7
  <2> QED
    BY <2>8
<1> QED
  BY <1>1, <1>4, <1>5

\* NAID, with and without the step nobody stored.
LEMMA NAIDType ==
  ASSUME NEW s \in Step
  PROVE  /\ NAID[s] \in Seq(Step)
         /\ NAID[s] \in Seq(Step \union {NoStep})
         /\ Len(NAID[s]) \in Nat
<1>1. NAID[s] \in Seq(Step)
  BY WorkflowAssumption DEF WorkflowAssumption
<1> QED
  BY <1>1

\* A handler inside the try block moves to another place in it.
LEMMA InsideStep ==
  ASSUME NEW D, Inv(D), NEW c \in Consumer, worker[c].pc \in InsideTry,
         UNCHANGED <<mail, outside>>, StatusKept, ExecOK', HistInv',
         NEW w, worker' = [worker EXCEPT ![c] = w],
         w = [f \in HandlerField |-> w[f]],
         w.pc \in InsideTry \ {"sendChild"},
         w.pc = "child" => Here(c) = "SubWorkflow",
         w.key = worker[c].key, w.msg = worker[c].msg,
         w.parallel \in Seq(ParallelEntry), w.ste \subseteq Step,
         w.pc \in Chosen => w.next \in Seq(Step \union {NoStep})
  PROVE  IInv'
<1>1. ~At(c, "idle") /\ Fits(worker[c])
  BY Handling DEF At, InsideTry
<1>2. Fits(w)
  BY <1>1 DEF Fits, InsideTry, Here, Body
<1> QED
  BY <1>1, <1>2, QuietStep DEF InsideTry

LEMMA ForkBranchesKeeps ==
  ASSUME NEW D, Inv(D), NEW c \in Consumer, ForkBranches(c)
  PROVE  IInv'
<1> DEFINE n == Len(NAID[Body(c).step])
<1>1. ~At(c, "idle") /\ Fits(worker[c]) /\ worker[c].pc \in InsideTry
  BY Handling DEF ForkBranches, At, InsideTry
<1>2. n \in Nat
  BY <1>1, NAIDType DEF Fits, ForkBranches, At, Body
<1>3. PICK P : P = Fork(worker[c].parallel, n)
  BY SMTT(60)
<1>4. P \in Seq(ParallelEntry)
  BY <1>1, <1>2, <1>3, ParallelTypes DEF Fits
<1>5. PICK r : r = [exec[Body(c).exec] EXCEPT !.parallel = P]
  OBVIOUS
<1>6. ExecOK' /\ StatusKept
  BY <1>1, <1>3, <1>4, <1>5, OwnExecStep DEF ForkBranches
<1>7. HistInv'
  BY <1>6, HistStill DEF ForkBranches, Inv
<1>8. PICK w : w = [worker[c] EXCEPT !.pc = "perform", !.parallel = P, !.idx = Len(P),
                                     !.idxs = Append(worker[c].idxs, Len(P))]
  OBVIOUS
<1>9. worker' = [worker EXCEPT ![c] = w]
  BY <1>3, <1>8 DEF ForkBranches
<1>10. /\ w = [f \in HandlerField |-> w[f]] /\ w.pc = "perform" /\ w.parallel = P
       /\ w.key = worker[c].key /\ w.msg = worker[c].msg /\ w.ste = worker[c].ste
  BY <1>1, <1>8 DEF Fits, HandlerField
<1> QED
  BY <1>1, <1>4, <1>6, <1>7, <1>9, <1>10, InsideStep, ZenonT(60) DEF ForkBranches, InsideTry, Chosen, Fits

LEMMA ArriveBranchKeeps ==
  ASSUME NEW D, Inv(D), NEW c \in Consumer, ArriveBranch(c)
  PROVE  IInv'
<1>1. ~At(c, "idle") /\ Fits(worker[c]) /\ worker[c].pc \in InsideTry
  BY Handling DEF ArriveBranch, At, InsideTry
<1>2. PICK P : P = Arrive(worker[c].parallel, worker[c].idx)
  OBVIOUS
<1>3. P \in Seq(ParallelEntry)
  BY <1>1, <1>2, ParallelTypes DEF Fits
<1>4. PICK r : r = [exec[Body(c).exec] EXCEPT !.parallel = P]
  OBVIOUS
<1>5. ExecOK' /\ StatusKept
  BY <1>1, <1>2, <1>3, <1>4, OwnExecStep DEF ArriveBranch
<1>6. HistInv'
  BY <1>5, HistStill DEF ArriveBranch, Inv
<1>7. PICK w : w = [worker[c] EXCEPT !.pc = "perform", !.parallel = P]
  OBVIOUS
<1>8. worker' = [worker EXCEPT ![c] = w]
  BY <1>2, <1>7 DEF ArriveBranch
<1>9. /\ w = [f \in HandlerField |-> w[f]] /\ w.pc = "perform" /\ w.parallel = P
      /\ w.key = worker[c].key /\ w.msg = worker[c].msg /\ w.ste = worker[c].ste
  BY <1>1, <1>7 DEF Fits, HandlerField
<1> QED
  BY <1>1, <1>3, <1>5, <1>6, <1>8, <1>9, InsideStep, ZenonT(60) DEF ArriveBranch, InsideTry, Chosen, Fits

\* The next activities of a stored step, as the handler may choose them.
LEMMA NextChoicesType ==
  ASSUME NEW b, IsDetail(b), b.step \in Step, NEW n \in NextChoices(b)
  PROVE  n \in Seq(Step \union {NoStep})
<1>1. CASE T[b.step] = "Condition"
  <2>1. PICK s \in ToSet(NAID[b.step]) : n = <<s>>
    BY <1>1 DEF NextChoices
  <2>2. PICK i \in DOMAIN NAID[b.step] : s = NAID[b.step][i]
    BY <2>1 DEF ToSet
  <2>3. s \in Step
    BY <2>2, NAIDType
  <2> QED
    BY <2>1, <2>3
<1>2. CASE T[b.step] = "Manual Approval" /\ b.decision # "none"
  <2>1. b.decision \in {"approve", "reject"}
    BY <1>2 DEF IsDetail
  <2>2. OnDecision[b.step] \in [{"approve", "reject"} -> Step \union {NoStep}]
    BY <1>2, WorkflowAssumption DEF WorkflowAssumption
  <2>3. OnDecision[b.step][b.decision] \in Step \union {NoStep}
    BY <2>1, <2>2
  <2>4. n = <<OnDecision[b.step][b.decision]>>
    BY <1>2 DEF NextChoices
  <2> QED
    BY <2>3, <2>4
<1>3. CASE T[b.step] # "Condition" /\ ~(T[b.step] = "Manual Approval" /\ b.decision # "none")
  BY <1>3, NAIDType DEF NextChoices
<1> QED
  BY <1>1, <1>2, <1>3

\* Saving the state and choosing where to go, for any of the next steps.
LEMMA PerformedStep ==
  ASSUME NEW D, Inv(D), NEW c \in Consumer, At(c, "perform"),
         NEW S \in SUBSET Step, exec' = [exec EXCEPT ![Body(c).exec].ste = S],
         NEW n \in Seq(Step \union {NoStep}), NEW p \in Chosen \ {"sendChild"},
         p = "child" => Here(c) = "SubWorkflow",
         worker' = [worker EXCEPT ![c] = [@ EXCEPT !.pc = p, !.next = n]],
         UNCHANGED <<mail, outside, hist>>
  PROVE  IInv'
<1>1. ~At(c, "idle") /\ Fits(worker[c]) /\ worker[c].pc \in InsideTry
  BY Handling DEF At, InsideTry
<1>2. PICK r : r = [exec[Body(c).exec] EXCEPT !.ste = S]
  OBVIOUS
<1>3. ExecOK' /\ StatusKept
  BY <1>1, <1>2, OwnExecStep
<1>4. HistInv'
  BY <1>3, HistStill DEF Inv
<1>5. PICK w : w = [worker[c] EXCEPT !.pc = p, !.next = n]
  OBVIOUS
<1>6. worker' = [worker EXCEPT ![c] = w]
  BY <1>5
<1>7. /\ w = [f \in HandlerField |-> w[f]] /\ w.pc = p /\ w.next = n
      /\ w.key = worker[c].key /\ w.msg = worker[c].msg /\ w.ste = worker[c].ste
      /\ w.parallel = worker[c].parallel
  BY <1>1, <1>5 DEF Fits, HandlerField
<1>8. w.pc \in InsideTry \ {"sendChild"}
  BY <1>7 DEF Chosen, InsideTry
<1>9. w.parallel \in Seq(ParallelEntry) /\ w.ste \subseteq Step
  BY <1>1, <1>7 DEF Fits
<1> QED
  BY <1>1, <1>3, <1>4, <1>6, <1>7, <1>8, <1>9, InsideStep

LEMMA PerformKeeps ==
  ASSUME NEW D, Inv(D), NEW c \in Consumer, Perform(c)
  PROVE  IInv'
<1>1. Fits(worker[c]) /\ IsDetail(Body(c)) /\ Body(c).step \in Step
  BY Handling DEF Perform, At, Sound, Fits, Body
<1>2. PICK S : S = IF Produces(Body(c).step) THEN worker[c].ste \union {Body(c).step}
                                             ELSE worker[c].ste
  OBVIOUS
<1>3. S \in SUBSET Step
  BY <1>1, <1>2 DEF Fits
<1>4. PICK ok \in BOOLEAN, n \in NextChoices(Body(c)) :
        worker' = [worker EXCEPT ![c] = [@ EXCEPT !.pc = Route(Body(c), ok), !.next = n]]
  BY DEF Perform
<1>5. n \in Seq(Step \union {NoStep})
  BY <1>1, NextChoicesType
<1>6. /\ Route(Body(c), ok) \in Chosen \ {"sendChild"}
      /\ Route(Body(c), ok) = "child" => Here(c) = "SubWorkflow"
  BY DEF Route, Chosen, Here
<1>7. exec' = [exec EXCEPT ![Body(c).exec].ste = S]
  BY <1>2 DEF Perform
<1>8. At(c, "perform") /\ UNCHANGED <<mail, outside, hist>>
  BY DEF Perform
<1> QED
  BY <1>3, <1>4, <1>5, <1>6, <1>7, <1>8, PerformedStep

LEMMA ConditionFailsKeeps ==
  ASSUME NEW D, Inv(D), NEW c \in Consumer, ConditionFails(c)
  PROVE  IInv'
<1>1. Fits(worker[c])
  BY Handling DEF ConditionFails, At
<1>2. worker[c].ste \in SUBSET Step
  BY <1>1 DEF Fits
<1>3. <<NoStep>> \in Seq(Step \union {NoStep})
  OBVIOUS
<1>4. exec' = [exec EXCEPT ![Body(c).exec].ste = worker[c].ste]
  BY DEF ConditionFails
<1>5. worker' = [worker EXCEPT ![c] = [@ EXCEPT !.pc = "emit", !.next = <<NoStep>>]]
  BY DEF ConditionFails
<1>6. At(c, "perform") /\ UNCHANGED <<mail, outside, hist>> /\ "emit" \in Chosen \ {"sendChild"}
  BY DEF ConditionFails, Chosen
<1> QED
  BY <1>2, <1>3, <1>4, <1>5, <1>6, PerformedStep

-------------------------------------------------------------------------------
(* After the activity *)

\* A handler that knows the next steps works on a stored step under a record.
LEMMA AtChosen ==
  ASSUME NEW D, Inv(D), NEW c \in Consumer, worker[c].pc \in Chosen
  PROVE  /\ ~At(c, "idle") /\ worker[c].pc \in InsideTry
         /\ Body(c) \in D /\ Sound(Body(c)) /\ Carries(Body(c), D)
         /\ Body(c).step \in Step
         /\ UsedKey(worker[c].key)
         /\ worker[c].next \in Seq(Step \union {NoStep})
<1>1. ~At(c, "idle") /\ worker[c].pc \in InsideTry
      /\ worker[c].pc \notin {"idle", "undefined", "return"}
  BY DEF At, Chosen, InsideTry
<1>2. Fits(worker[c]) /\ Body(c) \in D /\ Sound(Body(c)) /\ Carries(Body(c), D)
  BY <1>1, Handling
<1> QED
  BY <1>1, <1>2 DEF Fits, Body

LEMMA MarkErrorKeeps ==
  ASSUME NEW D, Inv(D), NEW c \in Consumer, MarkError(c)
  PROVE  IInv'
<1>1. worker[c].pc \in Chosen
  BY DEF MarkError, At, Chosen
<1>2. ExecOK' /\ StatusKept
  BY Unchanged DEF MarkError, Inv
<1>3. HistInv'
  BY <1>1, <1>2, AtChosen, RecordStill DEF MarkError, Inv
<1> QED
  BY <1>1, <1>2, <1>3, AtChosen, QuietGoto DEF MarkError

LEMMA StopExecutionKeeps ==
  ASSUME NEW D, Inv(D), NEW c \in Consumer, StopExecution(c)
  PROVE  IInv'
<1>1. worker[c].pc \in Chosen
  BY DEF StopExecution, At, Chosen
<1>2. PICK r : r = [exec[Body(c).exec] EXCEPT !.status = "Error"]
  OBVIOUS
<1>3. ExecOK' /\ StatusKept
  BY <1>1, <1>2, AtChosen, OwnExecStep DEF StopExecution
<1>4. HistInv'
  BY <1>3, HistStill DEF StopExecution, Inv
<1> QED
  BY <1>1, <1>3, <1>4, AtChosen, QuietGoto DEF StopExecution, InsideTry, Chosen

LEMMA FirstTurn ==
  ASSUME NEW k \in Nat \ {0}, NEW s \in Step \union {NoStep}
  PROVE  [max |-> k, current |-> 1, first |-> s] \in Loop
<1>1. 1 \in Nat \ {0} /\ k \in Nat /\ 1 <= k
  OBVIOUS
<1>2. PICK l : l = [max |-> k, current |-> 1, first |-> s]
  OBVIOUS
<1>3. l \in [max: Nat, current: Nat \ {0}, first: Step \union {NoStep}]
  BY <1>1, <1>2
<1>4. l.current <= l.max
  BY <1>1, <1>2
<1> QED
  BY <1>2, <1>3, <1>4 DEF Loop

\* pushEntries builds messages that are sound.
LEMMA EntrySound ==
  ASSUME NEW D, Inv(D), NEW c \in Consumer, worker[c].pc \in Chosen,
         NEW s \in Step \union {NoStep}
  PROVE  /\ Sound(Entry(c, s)) /\ Carries(Entry(c, s), D)
         /\ Entry(c, s) = [f \in DetailField |-> Entry(c, s)[f]]
<1> DEFINE b == Body(c)
           d == Entry(c, s)
           l == IF Here(c) = "Start Loop"
                THEN [max |-> NLoop[b.step], current |-> 1, first |-> s]
                ELSE b.loop
<1>1. Sound(b) /\ Carries(b, D) /\ b.step \in Step
  BY AtChosen
<1>2. l # None => l \in Loop
  <2>1. CASE Here(c) = "Start Loop"
    <3>1. NLoop[b.step] \in Nat \ {0}
      BY <1>1, <2>1, WorkflowAssumption DEF Here, WorkflowAssumption
    <3> QED
      BY <2>1, <3>1, FirstTurn
  <2>2. CASE Here(c) # "Start Loop"
    BY <1>1, <2>2 DEF Sound, IsDetail
  <2> QED
    BY <2>1, <2>2
<1> HIDE DEF l
<1>3. d = [Detail(s, b.exec) EXCEPT !.idx = worker[c].idx, !.idxs = worker[c].idxs,
                                    !.parent = b.parent, !.loop = l]
  BY DEF Entry, l
<1>4. /\ d.step = s /\ d.exec = b.exec /\ d.loop = l /\ d.parent = b.parent
      /\ d.wsxh = None /\ d.decision = "none" /\ d = [f \in DetailField |-> d[f]]
  BY <1>3 DEF DetailField, Detail
<1>5. ~d.rerun
  BY <1>3 DEF Detail
<1> HIDE DEF d, b
<1>6. IsDetail(d)
  BY <1>1, <1>2, <1>4, <1>5 DEF IsDetail, Sound
<1>7. Sound(d) /\ Carries(d, D)
  BY <1>1, <1>4, <1>5, <1>6 DEF Sound, Carries
<1> QED
  BY <1>4, <1>7 DEF d

\* The messages of all next steps are finitely many and sound.
LEMMA EntriesSound ==
  ASSUME NEW D, Inv(D), NEW c \in Consumer, worker[c].pc \in Chosen
  PROVE  /\ IsFiniteSet(Entries(c))
         /\ \A d \in Entries(c) : /\ Sound(d) /\ Carries(d, D)
                                  /\ d = [f \in DetailField |-> d[f]]
<1> DEFINE n == worker[c].next
           g == [i \in DOMAIN n |-> Entry(c, n[i])]
<1>1. n \in Seq(Step \union {NoStep})
  BY AtChosen
<1>2. Entries(c) = {g[i] : i \in DOMAIN n}
  BY DEF Entries, ToSet
<1>3. IsFiniteSet({g[i] : i \in DOMAIN n})
  <2> HIDE DEF n
  <2>1. g = [i \in DOMAIN n |-> g[i]]
    OBVIOUS
  <2> HIDE DEF g
  <2> QED
    BY <1>1, <2>1, SeqImageFinite
<1>4. \A s \in ToSet(n) : s \in Step \union {NoStep}
  BY <1>1 DEF ToSet
<1>5. \A s \in Step \union {NoStep} :
        /\ Sound(Entry(c, s)) /\ Carries(Entry(c, s), D)
        /\ Entry(c, s) = [f \in DetailField |-> Entry(c, s)[f]]
  BY EntrySound
<1> QED
  BY <1>2, <1>3, <1>4, <1>5 DEF Entries

\* Emitting a part of them and going on.
LEMMA EmitStep ==
  ASSUME NEW D, Inv(D), NEW c \in Consumer, worker[c].pc \in Chosen,
         NEW S, IsFiniteSet(S), \A d \in S : Sound(d) /\ Carries(d, D),
         PutEvents(S), UNCHANGED <<exec, hist, outside>>,
         NEW p \in {"return", "close"}, Goto(c, p)
  PROVE  IInv'
<1>1. MailInv' /\ MailGrows(S)
  BY PutEventsGrows DEF Inv
<1>2. ExecOK' /\ StatusKept
  BY Unchanged DEF Inv
<1>3. HistInv'
  BY <1>1, <1>2, HistKept DEF Inv, Advance, MailGrows, Used
<1>4. \A d \in S : Sound(d) /\ Carries(d, D \union S)
  BY DEF Carries
<1>5. outside' \subseteq outside \union S
  OBVIOUS
<1> QED
  BY <1>1, <1>2, <1>3, <1>4, <1>5, AtChosen, GotoStep DEF Chosen

LEMMA ContinueAfterErrorKeeps ==
  ASSUME NEW D, Inv(D), NEW c \in Consumer, ContinueAfterError(c)
  PROVE  IInv'
<1>1. worker[c].pc \in Chosen
  BY DEF ContinueAfterError, At, Chosen
<1>2. PICK S : S = {d \in Entries(c) : ErrorAction[Body(c).step] # "IGNORE" =>
                                        d.step = DefaultNext[Body(c).step]}
  OBVIOUS
<1>3. S \subseteq Entries(c)
  BY <1>2
<1>4. IsFiniteSet(S) /\ \A d \in S : Sound(d) /\ Carries(d, D)
  BY <1>1, <1>3, EntriesSound, FS_Subset
<1>5. PutEvents(S)
  BY <1>2 DEF ContinueAfterError
<1> QED
  BY <1>1, <1>4, <1>5, EmitStep DEF ContinueAfterError

LEMMA EmitNextKeeps ==
  ASSUME NEW D, Inv(D), NEW c \in Consumer, EmitNext(c)
  PROVE  IInv'
<1> DEFINE s == Body(c).step
<1>1. worker[c].pc \in Chosen
  BY DEF EmitNext, At, Chosen
<1>2. PICK S : S = {d \in Entries(c) : (T[s] = "Web Service" /\ ErrorAction[s] = "EXIT-PATH")
                                        => d.step # DefaultNext[s]}
  OBVIOUS
<1>3. S \subseteq Entries(c)
  BY <1>2
<1>4. IsFiniteSet(S) /\ \A d \in S : Sound(d) /\ Carries(d, D)
  BY <1>1, <1>3, EntriesSound, FS_Subset
<1>5. PutEvents(S)
  BY <1>2 DEF EmitNext
<1> QED
  BY <1>1, <1>4, <1>5, EmitStep DEF EmitNext

LEMMA EmitJoinedKeeps ==
  ASSUME NEW D, Inv(D), NEW c \in Consumer, EmitJoined(c)
  PROVE  IInv'
<1>1. worker[c].pc \in Chosen
  BY DEF EmitJoined, At, Chosen
<1>2. PICK o : o = Enclosing(worker[c].idxs, worker[c].idx)
  OBVIOUS
<1>3. PICK f : f = [d \in Entries(c) |-> [d EXCEPT !.idxs = o, !.idx = Innermost(o)]]
  OBVIOUS
<1>4. PICK S : S = {f[d] : d \in Entries(c)}
  OBVIOUS
<1>5. IsFiniteSet(S)
  <2>1. f = [d \in Entries(c) |-> f[d]]
    BY <1>3
  <2> QED
    BY <1>1, <1>4, <2>1, EntriesSound, ImageFinite
<1>6. \A d \in S : Sound(d) /\ Carries(d, D)
  <2> TAKE d \in S
  <2>1. PICK x \in Entries(c) : d = [x EXCEPT !.idxs = o, !.idx = Innermost(o)]
    BY <1>3, <1>4
  <2>2. Sound(x) /\ Carries(x, D) /\ x = [g \in DetailField |-> x[g]]
    BY <1>1, EntriesSound
  <2>3. /\ d = [g \in DetailField |-> d[g]]
        /\ d.step = x.step /\ d.exec = x.exec /\ d.loop = x.loop /\ d.parent = x.parent
        /\ d.wsxh = x.wsxh /\ d.decision = x.decision
    BY <2>1, <2>2 DEF DetailField
  <2>4. d.rerun => x.rerun
    BY <2>1, <2>2 DEF DetailField
  <2>5. IsDetail(d)
    BY <2>2, <2>3, <2>4 DEF Sound, IsDetail
  <2> QED
    BY <2>2, <2>3, <2>4, <2>5 DEF Sound, Carries
<1>7. S = {[d EXCEPT !.idxs = o, !.idx = Innermost(o)] : d \in Entries(c)}
  BY <1>3, <1>4
<1>8. PutEvents(S)
  BY <1>2, <1>7 DEF EmitJoined
<1> QED
  BY <1>1, <1>5, <1>6, <1>8, EmitStep DEF EmitJoined

LEMMA JoinBranchesKeeps ==
  ASSUME NEW D, Inv(D), NEW c \in Consumer, JoinBranches(c)
  PROVE  IInv'
<1>1. worker[c].pc \in Chosen /\ ~At(c, "idle") /\ Fits(worker[c])
  BY Handling, SMTT(60) DEF JoinBranches, At, Chosen
<1>2. PICK P : P = Complete(worker[c].parallel, worker[c].idx)
  OBVIOUS
<1>3. P \in Seq(ParallelEntry)
  BY <1>1, <1>2, ParallelTypes DEF Fits
<1>4. PICK r : r = [exec[Body(c).exec] EXCEPT !.parallel = P]
  OBVIOUS
<1>5. ExecOK' /\ StatusKept
  BY <1>1, <1>2, <1>3, <1>4, OwnExecStep, Unchanged DEF JoinBranches, Inv
<1>6. HistInv'
  BY <1>5, HistStill DEF JoinBranches, Inv
<1>7. PICK p \in {"joined", "close"} : Goto(c, p)
  BY <1>2 DEF JoinBranches, Goto
<1> QED
  BY <1>1, <1>5, <1>6, <1>7, AtChosen, QuietGoto DEF JoinBranches, InsideTry, Chosen

LEMMA AskApprovalKeeps ==
  ASSUME NEW D, Inv(D), NEW c \in Consumer, AskApproval(c)
  PROVE  IInv'
<1>1. worker[c].pc \in Chosen
  BY DEF AskApproval, At, Chosen
<1>2. ExecOK' /\ StatusKept
  BY Unchanged DEF AskApproval, Inv
<1>3. HistInv'
  BY <1>2, HistStill DEF AskApproval, Inv
<1> QED
  BY <1>1, <1>2, <1>3, AtChosen, QuietGoto DEF AskApproval, InsideTry, Chosen

LEMMA CloseStepKeeps ==
  ASSUME NEW D, Inv(D), NEW c \in Consumer, CloseStep(c)
  PROVE  IInv'
<1>1. ~At(c, "idle") /\ UsedKey(worker[c].key)
  BY Handling DEF CloseStep, At, Fits, InsideTry
<1>2. ExecOK' /\ StatusKept
  BY Unchanged DEF CloseStep, Inv
<1>3. HistInv'
  BY <1>1, <1>2, RecordStill DEF CloseStep, Inv
<1> QED
  BY <1>1, <1>2, <1>3, QuietGoto DEF CloseStep, InsideTry, Chosen

LEMMA ScheduleKeeps ==
  ASSUME NEW D, Inv(D), NEW c \in Consumer, Schedule(c)
  PROVE  IInv'
<1>1. worker[c].pc \in Chosen
  BY DEF Schedule, At, Chosen
<1>2. PICK S : S = {[Entry(c, s) EXCEPT !.by = Receipt(c)] :
                      s \in IF worker[c].next = << >> THEN {} ELSE {Last(worker[c].next)}}
  OBVIOUS
<1>3. \A d \in S : Sound(d) /\ Carries(d, D \union S)
  <2>1. worker[c].next # << >> => Last(worker[c].next) \in Step \union {NoStep}
    BY <1>1, AtChosen DEF Last
  <2>2. ASSUME NEW s \in Step \union {NoStep}
        PROVE  /\ Sound([Entry(c, s) EXCEPT !.by = Receipt(c)])
               /\ Carries([Entry(c, s) EXCEPT !.by = Receipt(c)], D)
    <3>1. PICK x : x = Entry(c, s)
      OBVIOUS
    <3>2. Sound(x) /\ Carries(x, D) /\ x = [f \in DetailField |-> x[f]]
      BY <1>1, <3>1, EntrySound
    <3>3. PICK d : d = [x EXCEPT !.by = Receipt(c)]
      OBVIOUS
    <3>4. /\ d = [f \in DetailField |-> d[f]]
          /\ \A f \in DetailField \ {"by"} : d[f] = x[f]
      BY <3>2, <3>3 DEF DetailField
    <3>5. /\ d.step = x.step /\ d.exec = x.exec /\ d.loop = x.loop /\ d.parent = x.parent
          /\ d.wsxh = x.wsxh /\ d.rerun = x.rerun /\ d.decision = x.decision
      BY <3>4 DEF DetailField
    <3>6. Sound(d) /\ Carries(d, D)
      BY <3>2, <3>4, <3>5 DEF Sound, IsDetail, Carries
    <3> QED
      BY <3>1, <3>3, <3>6
  <2> QED
    BY <1>2, <2>1, <2>2 DEF Carries
<1>4. ExecOK' /\ StatusKept
  BY Unchanged DEF Schedule, Inv
<1>5. HistInv'
  BY <1>4, HistStill DEF Schedule, Inv
<1>6. MailInv' /\ MailGrows(S)
  BY DEF Schedule, Inv, MailInv, MailGrows, Used
<1>7. outside' \subseteq outside \union S
  BY <1>2 DEF Schedule
<1> QED
  BY <1>1, <1>3, <1>4, <1>5, <1>6, <1>7, AtChosen, GotoStep DEF Schedule, InsideTry, Chosen

\* The first messages of a workflow are sound for an execution that exists.
LEMMA FirstDetailsSound ==
  ASSUME NEW steps \in Seq(Step), NEW e \in Exec, exec[e].status # "none",
         NEW parent, NEW D, parent # None => UsedKey(parent.key),
         parent # None => IsFiniteSet(parent.next) /\ parent.next \subseteq D
  PROVE  /\ IsFiniteSet(FirstDetails(steps, e, parent))
         /\ \A d \in FirstDetails(steps, e, parent) : Sound(d) /\ Carries(d, D)
<1> DEFINE g == [i \in DOMAIN steps |->
                   [Detail(steps[i], e) EXCEPT !.http = (i = 1), !.parent = parent]]
<1>1. FirstDetails(steps, e, parent) = {g[i] : i \in DOMAIN steps}
  BY DEF FirstDetails
<1>2. g = [i \in DOMAIN steps |-> g[i]]
  OBVIOUS
<1>3. \A i \in DOMAIN steps : Sound(g[i]) /\ Carries(g[i], D)
  <2> TAKE i \in DOMAIN steps
  <2>1. PICK d : d = [Detail(steps[i], e) EXCEPT !.http = (i = 1), !.parent = parent]
    OBVIOUS
  <2>2. /\ d.step = steps[i] /\ d.exec = e /\ d.loop = None /\ d.parent = parent
        /\ d.wsxh = None /\ d.decision = "none" /\ d = [f \in DetailField |-> d[f]]
    BY <2>1 DEF Detail, DetailField
  <2>3. ~d.rerun
    BY <2>1 DEF Detail
  <2>4. steps[i] \in Step
    OBVIOUS
  <2>5. IsDetail(d)
    BY <2>2, <2>3, <2>4 DEF IsDetail, UsedKey
  <2>6. Sound(d) /\ Carries(d, D)
    BY <2>2, <2>3, <2>5 DEF Sound, Carries
  <2> QED
    BY <2>1, <2>6
<1> HIDE DEF g
<1> QED
  BY <1>1, <1>2, <1>3, SeqImageFinite

LEMMA CreateChildKeeps ==
  ASSUME NEW D, Inv(D), NEW c \in Consumer, CreateChild(c)
  PROVE  IInv'
<1>1. worker[c].pc \in Chosen /\ ~At(c, "idle") /\ Fits(worker[c])
  BY Handling DEF CreateChild, At, Chosen
<1>2. CASE SubFirst[Body(c).step] = << >>
  <2>1. Goto(c, "return") /\ UNCHANGED <<exec, mail, hist, outside>>
    BY <1>2 DEF CreateChild
  <2>2. ExecOK' /\ StatusKept
    BY <2>1, Unchanged DEF Inv
  <2>3. HistInv'
    BY <2>1, <2>2, HistStill DEF Inv
  <2> QED
    BY <1>1, <2>1, <2>2, <2>3, AtChosen, QuietGoto DEF InsideTry, Chosen
<1>3. CASE SubFirst[Body(c).step] # << >>
  <2>1. PICK e \in Exec :
          /\ exec[e].status = "none"
          /\ exec' = [exec EXCEPT ![e] = NewExec]
          /\ worker' = [worker EXCEPT ![c].pc = "sendChild", ![c].child = e]
    BY <1>3 DEF CreateChild
  <2>2. UNCHANGED <<mail, hist, outside>>
    BY DEF CreateChild
  <2>3. NewExec \in [status: {"Running", "Pause", "Finished", "Error"},
                     parallel: Seq(ParallelEntry), ste: SUBSET Step, logged: BOOLEAN]
    BY DEF NewExec
  <2>4. ExecOK' /\ StatusKept /\ exec'[e].status # "none"
    BY <2>1, <2>3, ExecStep DEF Inv, ExecOK, NewExec
  <2>5. HistInv'
    BY <2>2, <2>4, HistStill DEF Inv
  <2>0. PICK S : S = {}
    OBVIOUS
  <2>6. MailInv' /\ MailGrows(S) /\ outside' \subseteq outside \union S /\ Advance
    BY <2>2, <2>4 DEF Inv, MailInv, MailGrows, Used, Advance
  <2>7. PICK w : w = [worker[c] EXCEPT !.pc = "sendChild", !.child = e]
    OBVIOUS
  <2>8. worker' = [worker EXCEPT ![c] = w]
    BY <2>1, <2>7
  <2>9. /\ w = [f \in HandlerField |-> w[f]] /\ w.pc = "sendChild" /\ w.child = e
        /\ w.msg = worker[c].msg /\ w.parallel = worker[c].parallel
        /\ w.ste = worker[c].ste /\ w.key = worker[c].key /\ w.next = worker[c].next
    BY <1>1, <2>7 DEF Fits, HandlerField
  <2>10. UsedKey(w.key)'
    BY <1>1, <2>6, <2>9, AtChosen, UsedKeyKept
  <2>11. /\ T[mail[w.msg].body.step] = "SubWorkflow" /\ mail[w.msg].body.step \in Step
         /\ worker[c].pc = "child"
    BY <1>1, <2>9 DEF CreateChild, At, Fits
  <2>12. Fits(w)'
    BY <1>1, <2>2, <2>4, <2>9, <2>10, <2>11 DEF Fits, Chosen
  <2>13. \A d \in S : Sound(d)' /\ Carries(d, D \union S)
    BY <2>0
  <2>14. w.pc # "idle"
    BY <2>9
  <2> QED
    BY <1>1, <2>4, <2>5, <2>6, <2>8, <2>9, <2>12, <2>13, <2>14, HandlerStep
<1> QED
  BY <1>2, <1>3

LEMMA SendChildKeeps ==
  ASSUME NEW D, Inv(D), NEW c \in Consumer, SendChild(c)
  PROVE  IInv'
<1>1. worker[c].pc \in Chosen /\ Fits(worker[c])
  BY Handling DEF SendChild, At, Chosen
<1>2. SubFirst[Body(c).step] \in Seq(Step)
  BY <1>1, AtChosen, WorkflowAssumption DEF SendChild, At, Fits, Body, WorkflowAssumption
<1>3. worker[c].child \in Exec /\ exec[worker[c].child].status # "none"
  BY <1>1 DEF SendChild, At, Fits
<1>4. PICK p : p = [key |-> worker[c].key, next |-> Entries(c)]
  OBVIOUS
<1>5. p.key = worker[c].key /\ p.next = Entries(c)
  BY <1>4
<1>6. PICK S : S = FirstDetails(SubFirst[Body(c).step], worker[c].child, p)
  OBVIOUS
<1>7. /\ IsFiniteSet(p.next) /\ UsedKey(p.key)
      /\ \A d \in p.next : Sound(d) /\ Carries(d, D)
  BY <1>1, <1>5, EntriesSound, AtChosen
<1>8. PICK E : E = D \union p.next
  OBVIOUS
<1>9. IsFiniteSet(S) /\ \A d \in S : Sound(d) /\ Carries(d, E)
  BY <1>2, <1>3, <1>6, <1>7, <1>8, FirstDetailsSound
<1>10. Inv(E)
  BY <1>7, <1>8 DEF Inv, DetailInv, Closed, Carries
<1>11. PutEvents(S)
  BY <1>4, <1>6 DEF SendChild
<1> QED
  BY <1>1, <1>9, <1>10, <1>11, EmitStep DEF SendChild

LEMMA FinishParentKeeps ==
  ASSUME NEW D, Inv(D), NEW c \in Consumer, FinishParent(c)
  PROVE  IInv'
<1>1. ~At(c, "idle") /\ Fits(worker[c]) /\ Sound(Body(c)) /\ Body(c).parent # None
  BY Handling DEF FinishParent, At, Fits, Body
<1>2. UsedKey(Body(c).parent.key)
  BY <1>1 DEF Sound
<1>3. ExecOK' /\ StatusKept
  BY Unchanged DEF FinishParent, Inv
<1>4. HistInv'
  BY <1>2, <1>3, RecordStill DEF FinishParent, Inv
<1>5. PICK w : w = [worker[c] EXCEPT !.pc = "resumed"]
  OBVIOUS
<1>6. worker' = [worker EXCEPT ![c] = w]
  BY <1>5 DEF FinishParent, Goto
<1>7. Fits(w) /\ w.msg = worker[c].msg /\ w.pc # "idle"
  BY <1>1, <1>5 DEF Fits, HandlerField, InsideTry, Chosen, Body, FinishParent, At
<1> QED
  BY <1>1, <1>3, <1>4, <1>6, <1>7, QuietStep DEF FinishParent

LEMMA ResumeParentKeeps ==
  ASSUME NEW D, Inv(D), NEW c \in Consumer, ResumeParent(c)
  PROVE  IInv'
<1> DEFINE p == Body(c).parent
<1>1. ~At(c, "idle") /\ Fits(worker[c]) /\ Sound(Body(c)) /\ Carries(Body(c), D)
  BY Handling, SMTT(60) DEF ResumeParent, At
<1>2. p # None
  BY <1>1 DEF ResumeParent, At, Fits, Body
<1>3. UsedKey(p.key) /\ IsFiniteSet(p.next) /\ p.next \subseteq D
  BY <1>1, <1>2 DEF Sound, Carries
<1>4. MailInv' /\ MailGrows(p.next)
  BY <1>3, PutEventsGrows DEF ResumeParent, Inv
<1>5. ExecOK' /\ StatusKept
  BY Unchanged DEF ResumeParent, Inv
<1>6. HistInv'
  BY <1>4, <1>5, HistKept DEF ResumeParent, Inv, Advance, MailGrows, Used
<1>7. \A d \in p.next : Sound(d) /\ Carries(d, D \union p.next)
  BY <1>3 DEF Inv, DetailInv, Closed, Carries
<1>8. outside' \subseteq outside \union p.next
  BY DEF ResumeParent
<1>9. Goto(c, "return")
  BY DEF ResumeParent
<1> HIDE DEF p
<1> QED
  BY <1>1, <1>4, <1>5, <1>6, <1>7, <1>8, <1>9, GotoStep DEF InsideTry, Chosen

LEMMA LoopBackKeeps ==
  ASSUME NEW D, Inv(D), NEW c \in Consumer, LoopBack(c)
  PROVE  IInv'
<1> DEFINE b == Body(c)
<1>1. ~At(c, "idle") /\ Fits(worker[c]) /\ Sound(b) /\ Carries(b, D)
  BY Handling DEF LoopBack, At
<1>2. LoopsAgain(b)
  BY <1>1 DEF LoopBack, At, Fits, Body
<1>3. b.loop \in Loop /\ b.loop.current < b.loop.max
  BY <1>1, <1>2 DEF Sound, IsDetail, LoopsAgain
<1>4. NextTurn(b.loop) \in Loop /\ b.loop.first \in Step \union {NoStep}
  BY <1>3 DEF Loop, NextTurn
<1>5. PICK l \in Loop : l = NextTurn(b.loop)
  BY <1>4
<1>6. PICK d : d = [b EXCEPT !.step = b.loop.first, !.loop = l]
  OBVIOUS
<1> HIDE DEF b
<1>7. /\ d = [f \in DetailField |-> d[f]] /\ d.step = b.loop.first /\ d.loop = l
      /\ d.exec = b.exec /\ d.parent = b.parent /\ d.wsxh = b.wsxh
      /\ d.decision = b.decision
  BY <1>1, <1>6 DEF Sound, IsDetail, DetailField
<1>8. d.rerun => b.rerun
  BY <1>1, <1>6 DEF Sound, IsDetail, DetailField
<1>9. IsDetail(d)
  BY <1>1, <1>4, <1>7, <1>8 DEF Sound, IsDetail
<1>10. Sound(d) /\ Carries(d, D \union {d})
  BY <1>1, <1>7, <1>8, <1>9 DEF Sound, Carries
<1>11. PutEvents({d})
  BY <1>5, <1>6 DEF LoopBack, b
<1>12. IsFiniteSet({d})
  BY FS_Singleton
<1>13. MailInv' /\ MailGrows({d})
  BY <1>11, <1>12, PutEventsGrows DEF Inv
<1>14. ExecOK' /\ StatusKept
  BY Unchanged DEF LoopBack, Inv
<1>15. HistInv'
  BY <1>13, <1>14, HistKept DEF LoopBack, Inv, Advance, MailGrows, Used
<1>16. Goto(c, "return") /\ outside' \subseteq outside \union {d}
  BY DEF LoopBack
<1> QED
  BY <1>1, <1>10, <1>13, <1>14, <1>15, <1>16, GotoStep DEF InsideTry, Chosen

-------------------------------------------------------------------------------
(* Letting a message go *)

\* The handler rests and its message is done, or visible again.
LEMMA ResetStep ==
  ASSUME NEW D, Inv(D), NEW c \in Consumer, ~At(c, "idle"),
         NEW s \in {"queued", "done"},
         mail' = [mail EXCEPT ![worker[c].msg].state = s],
         worker' = [worker EXCEPT ![c] = Resting],
         UNCHANGED <<exec, outside>>,
         \/ hist' = hist
         \/ \E k, v : /\ UsedKey(k) /\ v \in {"Started", "Finished", "Error", "Pause"}
                      /\ hist' = Record(k, v)
  PROVE  IInv'
<1> DEFINE m == worker[c].msg
<1>1. m \in Used /\ m \in Msg /\ Fits(worker[c])
  BY Handling DEF Used
<1>2. /\ mail' = [x \in Msg |-> mail'[x]]
      /\ \A x \in Msg \ {m} : mail'[x] = mail[x]
      /\ mail'[m] = [f \in MailField |-> mail'[m][f]]
      /\ mail'[m].state = s /\ mail'[m].receives = mail[m].receives
      /\ mail'[m].body = mail[m].body
  BY <1>1, ZenonT(60) DEF Inv, MailInv, MailField
<1>3. Used' = Used
  BY <1>1, <1>2 DEF Used
<1>4. MailInv'
  BY <1>1, <1>2, <1>3 DEF Inv, MailInv
<1>5. ExecOK' /\ StatusKept
  BY Unchanged DEF Inv
<1>6. Advance
  BY <1>1, <1>2, <1>5 DEF Advance, Used
<1>7. HistInv'
  BY <1>6, HistKept, RecordKept DEF Inv
<1>8. PICK S : S = {}
  OBVIOUS
<1>9. /\ \A d \in S : Sound(d)' /\ Carries(d, D \union S)
      /\ outside' \subseteq outside \union S
      /\ \A x \in Msg : mail'[x].state # "unsent" => x \in Used \/ mail'[x].body \in S
  BY <1>3, <1>8 DEF Used
<1>10. DetailInv(D \union S)'
  BY <1>6, <1>9, DetailStep DEF Inv
<1>11. /\ worker' = [x \in Consumer |-> worker'[x]] /\ worker'[c] = Resting
       /\ \A x \in Consumer \ {c} : worker'[x] = worker[x]
  BY DEF Inv, WorkerInv
<1>12. \A x \in Consumer : Fits(worker[x])'
  <2> TAKE x \in Consumer
  <2>1. CASE x = c
    <3>1. PICK y : y = Resting
      OBVIOUS
    <3>2. /\ y = [f \in HandlerField |-> y[f]] /\ y.pc = "idle"
          /\ y.parallel = << >> /\ y.ste = {}
      BY <3>1 DEF Resting, HandlerField
    <3>3. worker'[x] = y
      BY <2>1, <3>1, <1>11
    <3> QED
      <4>1. Fits(y)'
        <5>1. y.parallel \in Seq(ParallelEntry) /\ y.ste \subseteq Step
          BY <3>2, NothingYet
        <5>2. y.pc \notin InsideTry \union {"external"} /\ y.pc \notin Chosen
          BY <3>2 DEF InsideTry, Chosen
        <5> QED
          BY <3>2, <5>1, <5>2 DEF Fits
      <4> QED
        BY <3>3, <4>1, FitsNext, SMTT(60)
  <2>2. CASE x # c
    <3>1. PICK y : y = worker[x]
      OBVIOUS
    <3>2. Fits(y)
      BY <3>1 DEF Inv, WorkerInv
    <3>3. y.pc # "idle" => mail'[y.msg] = mail[y.msg]
      <4>1. SUFFICES ASSUME y.pc # "idle" PROVE mail'[y.msg] = mail[y.msg]
        OBVIOUS
      <4>2. y.msg \in Msg
        BY <3>2, <4>1 DEF Fits
      <4>3. Exclusive
        BY DEF Inv, WorkerInv
      <4>4. y.msg # worker[c].msg
        BY <2>2, <3>1, <4>1, <4>3, Zenon DEF Exclusive, At
      <4> QED
        BY <1>2, <4>2, <4>4
    <3>4. Fits(y)'
      BY <1>6, <3>2, <3>3, FitsKept
    <3>5. worker'[x] = y
      BY <1>11, <2>2, <3>1
    <3> QED
      BY <3>4, <3>5, FitsNext
  <2> QED
    BY <2>1, <2>2
<1>13. Exclusive'
  BY <1>11 DEF Inv, WorkerInv, Exclusive, At, Resting
<1> QED
  BY <1>4, <1>5, <1>7, <1>10, <1>11, <1>12, <1>13 DEF IInv, Inv, WorkerInv

LEMMA ReturnKeeps ==
  ASSUME NEW D, Inv(D), NEW c \in Consumer, Return(c)
  PROVE  IInv'
BY ResetStep DEF Return, At

LEMMA RethrowKeeps ==
  ASSUME NEW D, Inv(D), NEW c \in Consumer, ~At(c, "idle"), Rethrow(c)
  PROVE  IInv'
<1>1. worker[c].pc \in InsideTry => UsedKey(worker[c].key)
  BY Handling DEF Fits
<1>2. \/ hist' = hist
      \/ \E k, v : /\ UsedKey(k) /\ v \in {"Started", "Finished", "Error", "Pause"}
                   /\ hist' = Record(k, v)
  BY <1>1 DEF Rethrow
<1> QED
  BY <1>2, ResetStep DEF Rethrow

LEMMA ThrowKeeps ==
  ASSUME NEW D, Inv(D), NEW c \in Consumer, Throw(c) \/ MustThrow(c)
  PROVE  IInv'
BY RethrowKeeps DEF Throw, MustThrow, At

LEMMA TriggerFailsKeeps ==
  ASSUME NEW D, Inv(D), NEW c \in Consumer, TriggerFails(c)
  PROVE  IInv'
<1>1. ~At(c, "idle")
  BY DEF TriggerFails, At
<1>2. UsedKey(Receipt(c))
  BY <1>1, OwnKey
<1>3. \/ hist' = hist
      \/ \E k, v : /\ UsedKey(k) /\ v \in {"Started", "Finished", "Error", "Pause"}
                   /\ hist' = Record(k, v)
  BY <1>2 DEF TriggerFails
<1> QED
  BY <1>1, <1>3, ResetStep DEF TriggerFails

LEMMA CrashKeeps ==
  ASSUME NEW D, Inv(D), NEW c \in Consumer, Crash(c)
  PROVE  IInv'
BY ResetStep DEF Crash

-------------------------------------------------------------------------------
(* The queue and the world *)

LEMMA ReceiveKeeps ==
  ASSUME NEW D, Inv(D), NEW c \in Consumer, Receive(c)
  PROVE  IInv'
<1>1. PICK m \in Msg :
        /\ mail[m].state = "queued" /\ mail[m].receives < MaxReceive
        /\ mail' = [mail EXCEPT ![m].state = "handled", ![m].receives = @ + 1]
        /\ worker' = [worker EXCEPT ![c] =
             [Resting EXCEPT !.pc = Dispatch(mail[m].body), !.msg = m]]
  BY DEF Receive
<1> DEFINE b == mail[m].body
<1>2. m \in Used /\ b \in D /\ Sound(b)
  BY <1>1 DEF Used, Inv, DetailInv, Closed
<1>3. mail[m].receives \in Nat /\ MaxReceive \in Nat
  <2>1. mail[m].receives \in 0 .. MaxReceive /\ MaxReceive \in Nat \ {0}
    BY WorkflowAssumption DEF Inv, MailInv, WorkflowAssumption
  <2> QED
    BY <2>1
<1>4. mail[m].receives + 1 \in 0 .. MaxReceive /\ mail[m].receives + 1 # 0
  BY <1>1, <1>3
<1>5. /\ mail' = [x \in Msg |-> mail'[x]]
      /\ \A x \in Msg \ {m} : mail'[x] = mail[x]
      /\ mail'[m] = [f \in MailField |-> mail'[m][f]]
      /\ mail'[m].state = "handled" /\ mail'[m].receives = mail[m].receives + 1
      /\ mail'[m].body = b
  BY <1>1 DEF Inv, MailInv, MailField
<1>6. Used' = Used
  BY <1>2, <1>5 DEF Used
<1>7. MailInv'
  BY <1>4, <1>5, <1>6 DEF Inv, MailInv
<1>8. ExecOK' /\ StatusKept /\ UNCHANGED <<hist, outside>>
  BY Unchanged DEF Inv, Receive
<1>9. Advance
  BY <1>2, <1>5, <1>8 DEF Advance, Used
<1>10. HistInv'
  BY <1>8, <1>9, HistKept DEF Inv
<1>11. PICK S : S = {}
  OBVIOUS
<1>12. DetailInv(D \union S)'
  <2>1. /\ \A d \in S : Sound(d)' /\ Carries(d, D \union S)
        /\ outside' \subseteq outside \union S
        /\ \A x \in Msg : mail'[x].state # "unsent" => x \in Used \/ mail'[x].body \in S
    BY <1>6, <1>8, <1>11 DEF Used
  <2> QED
    BY <1>9, <2>1, DetailStep DEF Inv
<1>13. PICK w : w = [Resting EXCEPT !.pc = Dispatch(b), !.msg = m]
  OBVIOUS
<1>14. /\ worker' = [x \in Consumer |-> worker'[x]] /\ worker'[c] = w
       /\ \A x \in Consumer \ {c} : worker'[x] = worker[x]
  BY <1>1, <1>13 DEF Inv, WorkerInv
<1>15. /\ w = [f \in HandlerField |-> w[f]] /\ w.pc = Dispatch(b) /\ w.msg = m
       /\ w.parallel = << >> /\ w.ste = {}
  BY <1>13 DEF Resting, HandlerField
<1>16. Fits(w)'
  <2>1. w.parallel \in Seq(ParallelEntry) /\ w.ste \subseteq Step
    BY <1>15, NothingYet
  <2>2. w.pc \in {"undefined", "end", "loop", "http", "rerun", "read"}
    BY <1>15 DEF Dispatch
  <2>3. w.pc \notin InsideTry \union {"external"} /\ w.pc \notin Chosen
    BY <2>2 DEF InsideTry, Chosen
  <2>4. w.pc # "undefined" => b.step \in Step
    BY <1>2, <1>15 DEF Dispatch, Sound, IsDetail
  <2>5. /\ w.pc = "loop" => LoopsAgain(b)
        /\ w.pc = "rerun" => b.rerun
    BY <1>15 DEF Dispatch
  <2>6. w.pc \notin {"resume", "resumed", "child", "sendChild"}
    BY <2>2
  <2>7. mail'[w.msg].body = b /\ mail'[w.msg].state = "handled"
        /\ mail'[w.msg].receives # 0
    BY <1>4, <1>5, <1>15
  <2> QED
    BY <1>1, <1>15, <2>1, <2>3, <2>4, <2>5, <2>6, <2>7 DEF Fits
<1>17. \A x \in Consumer : ~At(x, "idle") => worker[x].msg # m
  BY <1>1 DEF Inv, WorkerInv, Fits, At
<1>18. \A x \in Consumer : Fits(worker[x])'
  <2> TAKE x \in Consumer
  <2>1. CASE x = c
    BY <2>1, <1>14, <1>16, FitsNext
  <2>2. CASE x # c
    <3>1. PICK y : y = worker[x]
      OBVIOUS
    <3>2. Fits(y)
      BY <3>1, SMTT(60) DEF Inv, WorkerInv
    <3>3. y.pc # "idle" => mail'[y.msg] = mail[y.msg]
      BY <1>5, <1>17, <3>1, <3>2 DEF Fits, At
    <3>4. Fits(y)'
      BY <1>9, <3>2, <3>3, FitsKept
    <3>5. worker'[x] = y
      BY <1>14, <2>2, <3>1
    <3> QED
      BY <3>4, <3>5, FitsNext
  <2> QED
    BY <2>1, <2>2
<1>19. Exclusive'
  BY <1>14, <1>15, <1>17 DEF Inv, WorkerInv, Exclusive, At
<1> QED
  BY <1>7, <1>8, <1>10, <1>12, <1>14, <1>18, <1>19 DEF IInv, Inv, WorkerInv

\* A step of the world: the handlers stay, the queue grows by sound messages.
LEMMA WorldStep ==
  ASSUME NEW D, Inv(D), StatusKept, ExecOK', HistInv', MailInv', UNCHANGED worker,
         NEW S, \A d \in S : Sound(d) /\ Carries(d, D \union S), MailGrows(S),
         outside' \subseteq outside
  PROVE  IInv'
<1>1. Advance
  BY DEF MailGrows, Advance, Used
<1>2. \A d \in S : Sound(d)' /\ Carries(d, D \union S)
  BY <1>1, SoundKept
<1>3. DetailInv(D \union S)'
  BY <1>1, <1>2, DetailStep DEF Inv, MailGrows
<1>4. \A x \in Consumer : Fits(worker[x])'
  <2> TAKE x \in Consumer
  <2>1. PICK y : y = worker[x]
    OBVIOUS
  <2>2. Fits(y)
    BY <2>1 DEF Inv, WorkerInv
  <2>3. y.pc # "idle" => mail'[y.msg] = mail[y.msg]
    BY <2>2 DEF Fits, MailGrows, Used
  <2> QED
    BY <1>1, <2>1, <2>2, <2>3, FitsKept, FitsNext
<1>5. WorkerInv'
  BY <1>4 DEF Inv, WorkerInv, Exclusive, At
<1> QED
  BY <1>3, <1>5 DEF IInv, Inv

LEMMA RedriveKeeps ==
  ASSUME NEW D, Inv(D), NEW m \in Msg, Redrive(m)
  PROVE  IInv'
<1>1. /\ mail[m].state = "queued"
      /\ mail' = [mail EXCEPT ![m].state = "dead"]
      /\ UNCHANGED <<exec, hist, worker, outside>>
  BY DEF Redrive
<1>2. /\ mail' = [x \in Msg |-> mail'[x]]
      /\ \A x \in Msg \ {m} : mail'[x] = mail[x]
      /\ mail'[m] = [f \in MailField |-> mail'[m][f]]
      /\ mail'[m].state = "dead" /\ mail'[m].receives = mail[m].receives
      /\ mail'[m].body = mail[m].body
  BY <1>1 DEF Inv, MailInv, MailField
<1>3. Used' = Used
  BY <1>1, <1>2 DEF Used
<1>4. MailInv'
  BY <1>1, <1>2, <1>3 DEF Inv, MailInv
<1>5. ExecOK' /\ StatusKept
  BY <1>1, Unchanged DEF Inv
<1>6. Advance
  BY <1>1, <1>2, <1>5 DEF Advance, Used
<1>7. HistInv'
  BY <1>1, <1>6, HistKept DEF Inv
<1>8. PICK S : S = {}
  OBVIOUS
<1>9. /\ \A d \in S : Sound(d)' /\ Carries(d, D \union S)
      /\ outside' \subseteq outside \union S
      /\ \A x \in Msg : mail'[x].state # "unsent" => x \in Used \/ mail'[x].body \in S
  BY <1>1, <1>3, <1>8 DEF Used
<1>10. DetailInv(D \union S)'
  BY <1>6, <1>9, DetailStep DEF Inv
<1>11. \A x \in Consumer : Fits(worker[x])'
  <2> TAKE x \in Consumer
  <2>1. PICK y : y = worker[x]
    OBVIOUS
  <2>2. Fits(y)
    BY <2>1 DEF Inv, WorkerInv
  <2>3. y.pc # "idle" => mail'[y.msg] = mail[y.msg]
    BY <1>1, <1>2, <2>2 DEF Fits
  <2> QED
    BY <1>1, <1>6, <2>1, <2>2, <2>3, FitsKept, FitsNext
<1>12. WorkerInv'
  BY <1>1, <1>11 DEF Inv, WorkerInv, Exclusive, At
<1> QED
  BY <1>4, <1>5, <1>7, <1>10, <1>12 DEF IInv, Inv

\* One more message arrives.
LEMMA ArriveStep ==
  ASSUME NEW D, Inv(D), NEW d, Sound(d), Carries(d, D), mail' = Deliver({d}),
         UNCHANGED <<exec, hist, worker>>, outside' \subseteq outside
  PROVE  IInv'
<1>1. IsFiniteSet({d})
  BY FS_Singleton
<1>2. MailInv' /\ MailGrows({d})
  BY <1>1, DeliverGrows DEF Inv
<1>3. ExecOK' /\ StatusKept
  BY Unchanged DEF Inv
<1>4. HistInv'
  BY <1>2, <1>3, HistKept DEF Inv, Advance, MailGrows, Used
<1>5. \A x \in {d} : Sound(x) /\ Carries(x, D \union {d})
  BY DEF Carries
<1> QED
  BY <1>2, <1>3, <1>4, <1>5, WorldStep

LEMMA AnswerKeeps ==
  ASSUME NEW D, Inv(D), NEW b \in outside, Answer(b)
  PROVE  IInv'
<1>1. Sound(b) /\ Carries(b, D)
  BY DEF Inv, DetailInv, Closed
<1> QED
  BY <1>1, ArriveStep DEF Answer

LEMMA InitiateKeeps ==
  ASSUME NEW D, Inv(D), NEW k \in DOMAIN hist, NEW rerun \in BOOLEAN,
         NEW decision \in {"none", "approve", "reject"}, Initiate(k, rerun, decision),
         UNCHANGED <<exec, hist, worker, outside>>
  PROVE  IInv'
<1> DEFINE b == mail[k[1]].body
<1>1. UsedKey(k) /\ k[1] \in Used
  BY DEF Inv, HistInv, UsedKey, Key, Used
<1>2. Sound(b)
  BY <1>1 DEF Inv, DetailInv, Closed
<1>3. PICK d : d = [Detail(b.step, b.exec) EXCEPT
                      !.wsxh = k, !.rerun = rerun, !.decision = decision]
  OBVIOUS
<1> HIDE DEF b
<1>4. /\ d.step = b.step /\ d.exec = b.exec /\ d.loop = None /\ d.parent = None
      /\ d.wsxh = k /\ d.decision = decision /\ d = [f \in DetailField |-> d[f]]
  BY <1>3 DEF Detail, DetailField
<1>5. IsDetail(d)
  BY <1>1, <1>2, <1>4 DEF IsDetail, Sound, UsedKey
<1>6. Sound(d) /\ Carries(d, D)
  BY <1>1, <1>2, <1>4, <1>5 DEF Sound, Carries
<1>7. mail' = Deliver({d})
  BY <1>3 DEF Initiate, b
<1> QED
  BY <1>6, <1>7, ArriveStep

LEMMA UserKeeps ==
  ASSUME NEW D, Inv(D), User
  PROVE  IInv'
<1>1. CASE \E k \in DOMAIN hist : Rerun(k)
  BY <1>1, InitiateKeeps DEF Rerun
<1>2. CASE \E k \in DOMAIN hist : \E d \in {"approve", "reject"} : Decide(k, d)
  BY <1>2, InitiateKeeps DEF Decide
<1>3. ASSUME NEW e \in Exec, NEW s \in {"Running", "Pause"}, SetStatus(e, s)
      PROVE  IInv'
  <2>1. PICK r : r = [exec[e] EXCEPT !.status = s]
    OBVIOUS
  <2>2. r \in [status: {"Running", "Pause", "Finished", "Error"},
               parallel: Seq(ParallelEntry), ste: SUBSET Step, logged: BOOLEAN]
    BY <2>1 DEF Inv, ExecOK
  <2>3. ExecOK' /\ StatusKept
    BY <1>3, <2>1, <2>2, ExecStep DEF SetStatus, Inv
  <2>4. HistInv'
    BY <1>3, <2>3, HistStill DEF SetStatus, Inv
  <2>5. PICK S : S = {}
    OBVIOUS
  <2>6. MailInv' /\ MailGrows(S) /\ UNCHANGED worker /\ outside' \subseteq outside
    BY <1>3 DEF SetStatus, Inv, MailInv, MailGrows, Used
  <2>7. \A d \in S : Sound(d) /\ Carries(d, D \union S)
    BY <2>5
  <2> QED
    BY <2>3, <2>4, <2>6, <2>7, WorldStep
<1> QED
  BY <1>1, <1>2, <1>3 DEF User

LEMMA StutterKeeps ==
  ASSUME NEW D, Inv(D), UNCHANGED vars
  PROVE  IInv'
<1>1. ExecOK' /\ StatusKept
  BY Unchanged DEF Inv, vars
<1>2. HistInv'
  BY <1>1, HistStill DEF Inv, vars
<1>3. PICK S : S = {}
  OBVIOUS
<1>4. MailInv' /\ MailGrows(S) /\ UNCHANGED worker /\ outside' \subseteq outside
  BY DEF vars, Inv, MailInv, MailGrows, Used
<1>5. \A d \in S : Sound(d) /\ Carries(d, D \union S)
  BY <1>3
<1> QED
  BY <1>1, <1>2, <1>4, <1>5, WorldStep

-------------------------------------------------------------------------------
(* The theorems *)

LEMMA HandleKeeps ==
  ASSUME NEW D, Inv(D), NEW c \in Consumer, Receive(c) \/ Handle(c) \/ Fault(c)
  PROVE  IInv'
BY ReceiveKeeps, EndExecutionKeeps, FinishParentKeeps, ResumeParentKeeps,
   LoopBackKeeps, LogTriggerKeeps, ReadExecutionKeeps, ClaimStepKeeps, ReopenStepKeeps, AskExternalKeeps,
   ForkBranchesKeeps, ArriveBranchKeeps, PerformKeeps, MarkErrorKeeps,
   StopExecutionKeeps, ContinueAfterErrorKeeps, CreateChildKeeps, SendChildKeeps,
   AskApprovalKeeps, ScheduleKeeps, JoinBranchesKeeps, EmitJoinedKeeps,
   EmitNextKeeps, CloseStepKeeps, ReturnKeeps, ThrowKeeps, CrashKeeps,
   ConditionFailsKeeps, TriggerFailsKeeps DEF Handle, Fault

LEMMA InitInv == Init => IInv
<1> SUFFICES ASSUME Init PROVE IInv
  OBVIOUS
<1>1. PICK D : D = FirstDetails(First, 1, None)
  OBVIOUS
<1> DEFINE q == SetToSeq(D)
           k == Len(q)
<1>2. ExecOK /\ 1 \in Exec /\ exec[1].status # "none"
  <2>1. NewExec \in [status: {"Running"}, parallel: Seq(ParallelEntry),
                     ste: SUBSET Step, logged: BOOLEAN]
        /\ NewExec.status = "Running"
    BY NothingYet DEF NewExec
  <2>2. [NewExec EXCEPT !.status = "none"] \in
          [status: {"none"}, parallel: Seq(ParallelEntry), ste: SUBSET Step, logged: BOOLEAN]
    BY NothingYet DEF NewExec
  <2>3. 1 \in Exec
    BY WorkflowAssumption DEF WorkflowAssumption
  <2> HIDE DEF NewExec
  <2>4. exec = [e \in Exec |-> IF e = 1 THEN NewExec ELSE [NewExec EXCEPT !.status = "none"]]
    BY DEF Init
  <2> QED
    BY <2>1, <2>2, <2>3, <2>4 DEF ExecOK
<1>3. IsFiniteSet(D) /\ \A d \in D : Sound(d) /\ Carries(d, {})
  BY <1>1, <1>2, FirstDetailsSound, WorkflowAssumption DEF WorkflowAssumption
<1>4. k \in Nat /\ q \in [1 .. k -> D]
  BY <1>3, SetToSeqType
<1> HIDE DEF q, k
<1>5. mail = [m \in Msg |-> IF m <= k
                THEN [state |-> "queued", receives |-> 0, body |-> q[m]] ELSE Unsent]
  BY <1>1 DEF Init, q, k
<1>6. 0 \in 0 .. MaxReceive
  <2>1. MaxReceive \in Nat
    BY WorkflowAssumption DEF WorkflowAssumption
  <2> QED
    BY <2>1
<1>7. Used = {m \in Msg : m <= k}
  BY <1>5 DEF Used, Unsent
<1>8. \E n \in Nat : Used = 1 .. n
  <2>1. PICK n : n = IF k <= Cardinality(Msg) THEN k ELSE Cardinality(Msg)
    OBVIOUS
  <2>2. n \in Nat /\ Used = 1 .. n
    BY <1>4, <1>7, <2>1, MsgFacts
  <2> QED
    BY <2>2
<1>9. MailInv
  <2>1. mail = [m \in Msg |-> mail[m]]
    BY <1>5
  <2>2. \A m \in Msg :
          /\ mail[m] = [f \in MailField |-> mail[m][f]]
          /\ mail[m].state \in {"unsent", "queued", "handled", "done", "dead"}
          /\ mail[m].receives \in 0 .. MaxReceive
    BY <1>5, <1>6 DEF MailField, Unsent
  <2> QED
    BY <1>8, <2>1, <2>2 DEF MailInv
<1>10. HistInv
  BY DEF Init, HistInv, HistOK
<1>11. WorkerInv
  <2>1. PICK y : y = Resting
    OBVIOUS
  <2>2. worker = [c \in Consumer |-> y]
    BY <2>1 DEF Init
  <2>3. /\ y = [f \in HandlerField |-> y[f]] /\ y.pc = "idle"
        /\ y.parallel = << >> /\ y.ste = {}
    BY <2>1 DEF Resting, HandlerField
  <2>4. y.parallel \in Seq(ParallelEntry) /\ y.ste \subseteq Step
    BY <2>3, NothingYet
  <2>5. y.pc \notin InsideTry \union {"external"} /\ y.pc \notin Chosen
    BY <2>3 DEF InsideTry, Chosen
  <2>6. Fits(y)
    BY <2>3, <2>4, <2>5 DEF Fits
  <2> QED
    BY <2>2, <2>3, <2>6 DEF WorkerInv, Exclusive, At
<1>12. DetailInv(D)
  <2>1. Closed(D)
    BY <1>3 DEF Closed, Carries
  <2>2. outside \subseteq D
    BY DEF Init
  <2>3. \A m \in Used : mail[m].body \in D
    <3> TAKE m \in Used
    <3>1. m \in Msg /\ m \in 1 .. k
      BY <1>4, <1>7, MsgFacts
    <3> QED
      BY <1>4, <1>5, <3>1
  <2> QED
    BY <2>1, <2>2, <2>3 DEF DetailInv
<1> QED
  BY <1>2, <1>9, <1>10, <1>11, <1>12 DEF Inv, IInv

LEMMA NextInv == IInv /\ [Next]_vars => IInv'
<1> SUFFICES ASSUME IInv, [Next]_vars PROVE IInv'
  OBVIOUS
<1>1. PICK D : Inv(D)
  BY DEF IInv
<1>2. CASE \E c \in Consumer : Receive(c) \/ Handle(c) \/ Fault(c)
  BY <1>1, <1>2, HandleKeeps
<1>3. CASE \E m \in Msg : Redrive(m)
  BY <1>1, <1>3, RedriveKeeps
<1>4. CASE \E b \in outside : Answer(b)
  BY <1>1, <1>4, AnswerKeeps
<1>5. CASE User
  BY <1>1, <1>5, UserKeeps
<1>6. CASE AllSettled \/ UNCHANGED vars
  BY <1>1, <1>6, StutterKeeps DEF AllSettled
<1> QED
  BY <1>2, <1>3, <1>4, <1>5, <1>6 DEF Next

LEMMA InvType == IInv => TypeOK
<1> SUFFICES ASSUME IInv PROVE TypeOK
  OBVIOUS
<1>1. PICK D : Inv(D)
  BY DEF IInv
<1>2. \A d \in D : IsDetail(d)
  BY <1>1 DEF Inv, DetailInv, Closed, Sound
<1>3. MailOK
  BY <1>1, <1>2 DEF Inv, DetailInv, MailInv, MailOK, Used
<1>4. WorkerOK
  <2>1. ASSUME NEW c \in Consumer
        PROVE  /\ worker[c].parallel \in Seq(ParallelEntry)
               /\ worker[c].ste \subseteq Step
               /\ worker[c].pc \in InsideTry \union {"external"} => worker[c].key \in Key
               /\ ~At(c, "idle") => /\ worker[c].msg \in Msg
                                    /\ mail[worker[c].msg].state = "handled"
    BY <1>1 DEF Inv, WorkerInv, Fits, UsedKey, At
  <2>2. ASSUME NEW c \in Consumer, ~At(c, "idle"), NEW d \in Consumer \ {c}
        PROVE  At(d, "idle") \/ worker[d].msg # worker[c].msg
    BY <1>1, <2>2 DEF Inv, WorkerInv, Exclusive
  <2> QED
    BY <2>1, <2>2 DEF WorkerOK
<1>5. \A b \in outside : IsDetail(b)
  BY <1>1, <1>2 DEF Inv, DetailInv
<1> QED
  BY <1>1, <1>3, <1>4, <1>5 DEF Inv, HistInv, TypeOK

LEMMA Invariance == Spec => []IInv
BY InitInv, NextInv, PTL DEF Spec

\* The type invariant holds for every workflow, every number of consumers, of
\* messages and of executions, and every budget of faults and user calls: no
\* two handlers of handleMessage ever hold the same message, and none marks a
\* history record that was never created.
THEOREM TypeCorrect == Spec => []TypeOK
BY Invariance, InvType, PTL

-------------------------------------------------------------------------------
(* Retries: a message whose own content does not make handleMessage throw    *)
(* is received once more than it failed, and every failure was paid for.     *)

\* handleMessage may throw by itself on such a message.
Doomed(b) ==
  b.step = NoStep \/ b.http \/ T[b.step] = "Parallel End" \/ MayThrow(b.step)

\* Throws and crashes still to come, and those there were to begin with.
Left == budget.throws + budget.crashes
Given == Budget.throws + Budget.crashes

\* The receipts of m are failures already paid for, but for the last one.
PaidFor(m) ==
  mail[m].state = "unsent" \/ Doomed(mail[m].body) \/
  /\ mail[m].state # "dead"
  /\ mail[m].state = "queued" => mail[m].receives + Left <= Given
  /\ mail[m].receives + Left <= Given + 1

\* The handler is where the code may throw by itself only with a doomed message.
DoomedPlace(c) ==
  /\ At(c, "undefined") => Body(c).step = NoStep
  /\ At(c, "http") => Body(c).http
  /\ At(c, "join") => T[Body(c).step] = "Parallel End"
  /\ worker[c].pc \in {"external", "child", "ask"} =>
       T[Body(c).step] \notin {"Condition", "Delay"}

\* The budget only shrinks.
BudgetOK ==
  /\ budget \in [throws: Nat, crashes: Nat, losses: Nat, users: Nat]
  /\ Left <= Given

RetryInv ==
  /\ BudgetOK
  /\ \A m \in Msg : PaidFor(m)
  /\ \A c \in Consumer : DoomedPlace(c)


\* The queue keeps its messages; a new one is queued and was never received.
FreshMail ==
  \A m \in Msg : mail'[m] = mail[m] \/ (mail'[m].state = "queued" /\ mail'[m].receives = 0)

\* No failure is spent.
Calm == FreshMail /\ BudgetOK' /\ Left' = Left

\* A delivery, a lost event and a user call spend no failure.
LEMMA DeliverFresh ==
  ASSUME NEW S, mail' = Deliver(S)
  PROVE  FreshMail
BY DEF Deliver, FreshMail

LEMMA LossCalm ==
  ASSUME BudgetOK, budget.losses > 0, budget' = [budget EXCEPT !.losses = @ - 1]
  PROVE  BudgetOK' /\ Left' = Left
<1>1. PICK n : n = budget.losses - 1
  OBVIOUS
<1>2. n \in Nat /\ budget' = [budget EXCEPT !.losses = n]
  BY <1>1 DEF BudgetOK
<1>3. budget'.throws = budget.throws /\ budget'.crashes = budget.crashes
      /\ budget' \in [throws: Nat, crashes: Nat, losses: Nat, users: Nat]
  BY <1>2 DEF BudgetOK
<1> QED
  BY <1>3 DEF BudgetOK, Left, Given

LEMMA UserCalm ==
  ASSUME BudgetOK, UserCall
  PROVE  BudgetOK' /\ Left' = Left
<1>1. PICK n : n = budget.users - 1
  OBVIOUS
<1>2. n \in Nat /\ budget' = [budget EXCEPT !.users = n]
  BY <1>1 DEF BudgetOK, UserCall
<1>3. budget'.throws = budget.throws /\ budget'.crashes = budget.crashes
      /\ budget' \in [throws: Nat, crashes: Nat, losses: Nat, users: Nat]
  BY <1>2 DEF BudgetOK
<1> QED
  BY <1>3 DEF BudgetOK, Left, Given

LEMMA SameBudget ==
  ASSUME BudgetOK, budget' = budget
  PROVE  BudgetOK' /\ Left' = Left
BY DEF BudgetOK, Left

LEMMA PutEventsCalm ==
  ASSUME BudgetOK, NEW S, PutEvents(S)
  PROVE  Calm
<1>1. CASE mail' = Deliver(S) /\ UNCHANGED budget
  BY <1>1, DeliverFresh, SameBudget DEF Calm
<1>2. CASE budget.losses > 0 /\ budget' = [budget EXCEPT !.losses = @ - 1] /\ UNCHANGED mail
  BY <1>2, LossCalm DEF Calm, FreshMail
<1> QED
  BY <1>1, <1>2 DEF PutEvents

LEMMA GivenNat == Given \in Nat
<1>1. Budget \in [throws: Nat, crashes: Nat, losses: Nat, users: Nat]
  BY WorkflowAssumption DEF WorkflowAssumption
<1> QED
  BY ONLY <1>1 DEF Given

\* One failure of either kind is spent.
LEMMA FailureSpent ==
  ASSUME BudgetOK, NEW f \in {"throws", "crashes"},
         budget[f] > 0, budget' = [budget EXCEPT ![f] = @ - 1]
  PROVE  BudgetOK' /\ Left' = Left - 1
<1>1. PICK n : n = budget[f] - 1
  OBVIOUS
<1>2. /\ budget.throws \in Nat /\ budget.crashes \in Nat
      /\ budget.losses \in Nat /\ budget.users \in Nat
      /\ budget = [g \in {"throws", "crashes", "losses", "users"} |-> budget[g]]
      /\ Left <= Given
  BY DEF BudgetOK
<1>3. n \in Nat /\ n + 1 = budget[f]
  BY <1>1, <1>2
<1>4. budget' = [g \in {"throws", "crashes", "losses", "users"} |->
                   IF g = f THEN n ELSE budget[g]]
  BY <1>1, <1>2
<1>5. budget' \in [throws: Nat, crashes: Nat, losses: Nat, users: Nat]
  BY <1>2, <1>3, <1>4
<1>6. budget'.throws + budget'.crashes = budget.throws + budget.crashes - 1
  BY <1>2, <1>3, <1>4
<1>7. Given \in Nat
  BY GivenNat
<1> QED
  BY <1>2, <1>5, <1>6, <1>7 DEF BudgetOK, Left, Given

\* What the arithmetic below is about.
Numbers ==
  /\ Left \in Nat /\ Given \in Nat
  /\ \A m \in Msg : mail[m].receives \in Nat
  /\ MaxReceive \in Nat

LEMMA NumbersOK ==
  ASSUME NEW D, Inv(D), BudgetOK
  PROVE  Numbers
<1>1. Left \in Nat
  BY DEF BudgetOK, Left
<1>2. Given \in Nat
  BY GivenNat
<1>3. MaxReceive \in Nat
  BY WorkflowAssumption DEF WorkflowAssumption
<1>4. \A m \in Msg : mail[m].receives \in Nat
  BY <1>3 DEF Inv, MailInv
<1> QED
  BY <1>1, <1>2, <1>3, <1>4 DEF Numbers

\* A calm step leaves every message paid for and every handler in its place.
LEMMA CalmPaid ==
  ASSUME NEW D, Inv(D), RetryInv, Calm
  PROVE  \A m \in Msg : PaidFor(m)'
<1> TAKE m \in Msg
<1>1. BudgetOK' /\ Left' = Left
  BY DEF Calm
<1>2. Numbers
  BY NumbersOK DEF RetryInv
<1>3. CASE mail'[m] = mail[m]
  BY <1>1, <1>3 DEF RetryInv, PaidFor, Given
<1>4. CASE mail'[m].state = "queued" /\ mail'[m].receives = 0
  BY <1>1, <1>2, <1>4 DEF PaidFor, BudgetOK, Given, Numbers, RetryInv
<1> QED
  BY <1>3, <1>4 DEF Calm, FreshMail

\* The message of a handler that stays is the one it was.
LEMMA BodyKept ==
  ASSUME NEW D, Inv(D), IInv', FreshMail, NEW x \in Consumer,
         worker'[x] = worker[x], ~At(x, "idle")
  PROVE  Body(x)' = Body(x)
<1>1. PICK E : Inv(E)'
  BY DEF IInv
<1>2. Fits(worker[x])'
  BY <1>1, SMTT(60) DEF Inv, WorkerInv
<1>3. worker[x].msg \in Msg /\ mail'[worker[x].msg].state = "handled"
  BY <1>2 DEF Fits, At
<1>4. mail'[worker[x].msg] = mail[worker[x].msg]
  BY <1>3 DEF FreshMail
<1> QED
  BY <1>4 DEF Body

LEMMA PlaceKept ==
  ASSUME NEW D, Inv(D), IInv', FreshMail, NEW x \in Consumer,
         worker'[x] = worker[x], DoomedPlace(x)
  PROVE  DoomedPlace(x)'
<1>1. CASE At(x, "idle")
  BY <1>1 DEF DoomedPlace, At
<1>2. CASE ~At(x, "idle")
  BY <1>2, BodyKept DEF DoomedPlace, At
<1> QED
  BY <1>1, <1>2

\* A step of one handler that spends no failure.
LEMMA CalmStep ==
  ASSUME NEW D, Inv(D), IInv', RetryInv, Calm, NEW c \in Consumer,
         \A x \in Consumer \ {c} : worker'[x] = worker[x],
         DoomedPlace(c)'
  PROVE  RetryInv'
<1>1. \A x \in Consumer : DoomedPlace(x)'
  <2> TAKE x \in Consumer
  <2>1. CASE x = c
    BY <2>1
  <2>2. CASE x # c
    BY <2>2, PlaceKept DEF RetryInv, Calm
  <2> QED
    BY <2>1, <2>2
<1> QED
  BY <1>1, CalmPaid DEF RetryInv, Calm

\* The world moves, the handlers stay.
LEMMA CalmWorld ==
  ASSUME NEW D, Inv(D), IInv', RetryInv, Calm, worker' = worker
  PROVE  RetryInv'
<1>1. \A x \in Consumer : DoomedPlace(x)'
  BY PlaceKept DEF RetryInv, Calm
<1> QED
  BY <1>1, CalmPaid DEF RetryInv, Calm

\* Where a handler stands after it goes to p.
LEMMA GotoAt ==
  ASSUME NEW D, Inv(D), NEW c \in Consumer, NEW p, Goto(c, p)
  PROVE  worker'[c].pc = p
<1>1. worker[c] = [f \in HandlerField |-> worker[c][f]] /\ worker = [x \in Consumer |-> worker[x]]
  BY SMTT(60) DEF Inv, WorkerInv, Fits
<1> QED
  BY <1>1 DEF Goto, HandlerField

\* What every step of a handler knows.
LEMMA Standing ==
  ASSUME NEW D, Inv(D), NEW c \in Consumer, ~At(c, "idle")
  PROVE  /\ worker = [x \in Consumer |-> worker[x]]
         /\ worker[c] = [f \in HandlerField |-> worker[c][f]]
         /\ Body(c).exec \in Exec /\ exec[Body(c).exec].status # "none"
         /\ ExecOK /\ worker[c].parallel \in Seq(ParallelEntry)
         /\ exec[Body(c).exec].parallel \in Seq(ParallelEntry)
<1>1. Body(c).exec \in Exec /\ exec[Body(c).exec].status # "none"
  BY Handling DEF Sound, IsDetail
<1>2. Fits(worker[c]) /\ ExecOK /\ worker = [x \in Consumer |-> worker[x]]
  BY DEF Inv, WorkerInv
<1> QED
  BY <1>1, <1>2 DEF Fits, ExecOK

LEMMA StillCalm ==
  ASSUME BudgetOK, UNCHANGED <<mail, budget>>
  PROVE  Calm
BY SameBudget DEF Calm, FreshMail

LEMMA LostCalm ==
  ASSUME BudgetOK, UNCHANGED mail, budget.losses > 0,
         budget' = [budget EXCEPT !.losses = @ - 1]
  PROVE  Calm
BY LossCalm DEF Calm, FreshMail

\* The steps of a handler that end at Goto.
LEMMA GoingSteps ==
  ASSUME NEW D, Inv(D), IInv', RetryInv, NEW c \in Consumer,
         \/ EndExecution(c) \/ FinishParent(c) \/ ResumeParent(c) \/ LoopBack(c) \/ LogTrigger(c)
         \/ ReadExecution(c) \/ AskExternal(c) \/ MarkError(c) \/ StopExecution(c)
         \/ ContinueAfterError(c) \/ SendChild(c) \/ AskApproval(c)
         \/ Schedule(c) \/ EmitJoined(c) \/ EmitNext(c) \/ CloseStep(c)
  PROVE  RetryInv'
<1> DEFINE P == {"return", "resume", "resumed", "read", "claim", "onError", "close"}
<1>1. PICK p \in P : Goto(c, p)
  BY DEF EndExecution, FinishParent, ResumeParent, LoopBack, LogTrigger, ReadExecution,
         AskExternal, MarkError, StopExecution, ContinueAfterError, SendChild, AskApproval,
         Schedule, EmitJoined, EmitNext, CloseStep
<1>2. worker'[c].pc \in P
  BY <1>1, GotoAt
<1>3. DoomedPlace(c)'
  BY <1>2 DEF DoomedPlace, At
<1>4. \A x \in Consumer \ {c} : worker'[x] = worker[x]
  BY <1>1 DEF Goto, Inv, WorkerInv
<1>5. BudgetOK
  BY DEF RetryInv
<1>6. Calm
  <2>1. CASE \/ EndExecution(c) \/ FinishParent(c) \/ LogTrigger(c) \/ ReadExecution(c)
             \/ MarkError(c) \/ StopExecution(c) \/ AskApproval(c) \/ CloseStep(c)
    BY <1>5, <2>1, StillCalm DEF EndExecution, FinishParent, LogTrigger, ReadExecution,
       MarkError, StopExecution, AskApproval, CloseStep
  <2>2. CASE AskExternal(c) \/ Schedule(c)
    BY <1>5, <2>2, StillCalm, LostCalm, SMTT(60) DEF AskExternal, Schedule
  <2>3. CASE \/ ResumeParent(c) \/ LoopBack(c) \/ ContinueAfterError(c)
             \/ SendChild(c) \/ EmitJoined(c) \/ EmitNext(c)
    BY <1>5, <2>3, PutEventsCalm DEF ResumeParent, LoopBack, ContinueAfterError,
       SendChild, EmitJoined, EmitNext
  <2> QED
    BY <2>1, <2>2, <2>3
<1> QED
  BY <1>3, <1>4, <1>6, CalmStep, SMTT(60)

\* The steps of a handler that change more of it than its place.
LEMMA RunningSteps ==
  ASSUME NEW D, Inv(D), IInv', RetryInv, NEW c \in Consumer,
         \/ ClaimStep(c) \/ ReopenStep(c) \/ ForkBranches(c) \/ ArriveBranch(c)
         \/ Perform(c) \/ ConditionFails(c) \/ CreateChild(c) \/ JoinBranches(c)
  PROVE  RetryInv'
<1>1. UNCHANGED <<mail, budget>> /\ ~At(c, "idle")
  BY DEF ClaimStep, ReopenStep, ForkBranches, ArriveBranch, Perform, ConditionFails,
         CreateChild, JoinBranches, At
<1>2. Calm
  BY <1>1, StillCalm DEF RetryInv
<1>3. /\ worker = [x \in Consumer |-> worker[x]]
      /\ worker[c] = [f \in HandlerField |-> worker[c][f]]
  BY <1>1, Standing
<1>4. \E v : worker' = [worker EXCEPT ![c] = v]
  <2>1. CASE ClaimStep(c) \/ ReopenStep(c)
    BY <2>1 DEF ClaimStep, ReopenStep, Open
  <2>2. CASE ForkBranches(c) \/ Perform(c)
    BY <2>2 DEF ForkBranches, Perform
  <2>3. CASE ArriveBranch(c)
    BY <2>3 DEF ArriveBranch
  <2>4. CASE CreateChild(c)
    BY <2>4 DEF CreateChild, Goto
  <2>5. CASE JoinBranches(c)
    BY <2>5 DEF JoinBranches, Goto
  <2>6. CASE ConditionFails(c)
    BY <2>6 DEF ConditionFails
  <2> QED
    BY <2>1, <2>2, <2>3, <2>4, <2>5, <2>6
<1>5. \A x \in Consumer \ {c} : worker'[x] = worker[x]
  BY <1>3, <1>4
<1>6. DoomedPlace(c)'
  <2>1. CASE ClaimStep(c) \/ ReopenStep(c)
    <3>1. PICK k : Open(c, k)
      BY <2>1 DEF ClaimStep, ReopenStep
    <3>2. worker'[c].pc = Begin(Body(c)) /\ worker'[c].msg = worker[c].msg
      BY <1>3, <3>1 DEF Open, HandlerField
    <3>3. Body(c)' = Body(c)
      BY <1>1, <3>2 DEF Body
    <3>4. /\ worker'[c].pc \in {"external", "parallel", "perform"}
          /\ worker'[c].pc = "external" => T[Body(c).step] = "External"
      BY <3>2, Zenon DEF Begin
    <3> QED
      BY <3>3, <3>4 DEF DoomedPlace, At
  <2>2. CASE ForkBranches(c) \/ ArriveBranch(c)
    <3>1. worker'[c].pc = "perform"
      BY <1>3, <2>2 DEF ForkBranches, ArriveBranch, HandlerField
    <3> QED
      BY <3>1 DEF DoomedPlace, At
  <2>3. CASE Perform(c)
    <3>1. PICK ok, n :
            worker' = [worker EXCEPT ![c] = [@ EXCEPT !.pc = Route(Body(c), ok), !.next = n]]
      BY <2>3 DEF Perform
    <3>2. worker'[c].pc = Route(Body(c), ok) /\ worker'[c].msg = worker[c].msg
      BY <1>3, <3>1 DEF HandlerField
    <3>3. Body(c)' = Body(c)
      BY <1>1, <3>2 DEF Body
    <3> QED
      BY <3>2, <3>3 DEF Route, DoomedPlace, At
  <2>4. CASE CreateChild(c)
    <3>1. CASE Goto(c, "return")
      BY <3>1, GotoAt DEF DoomedPlace, At
    <3>2. CASE \E e \in Exec : worker' = [worker EXCEPT ![c].pc = "sendChild", ![c].child = e]
      <4>1. worker'[c].pc = "sendChild"
        BY <1>3, <3>2 DEF HandlerField
      <4> QED
        BY <4>1 DEF DoomedPlace, At
    <3> QED
      BY <2>4, <3>1, <3>2 DEF CreateChild
  <2>5. CASE JoinBranches(c)
    <3>1. CASE Goto(c, "close")
      BY <3>1, GotoAt DEF DoomedPlace, At
    <3>2. CASE worker' = [worker EXCEPT ![c].pc = "joined"]
      <4>1. worker'[c].pc = "joined"
        BY <1>3, <3>2 DEF HandlerField
      <4> QED
        BY <4>1 DEF DoomedPlace, At
    <3> QED
      BY <2>5, <3>1, <3>2 DEF JoinBranches
  <2>6. CASE ConditionFails(c)
    <3>1. worker'[c].pc = "emit"
      BY <1>3, <2>6 DEF ConditionFails, HandlerField
    <3> QED
      BY <3>1 DEF DoomedPlace, At
  <2> QED
    BY <2>1, <2>2, <2>3, <2>4, <2>5, <2>6
<1> QED
  BY <1>2, <1>5, <1>6, CalmStep, SMTT(60)

\* One message is moved to state s, and received d more times.
Moved(m, s, d) ==
  /\ \A x \in Msg \ {m} : mail'[x] = mail[x]
  /\ mail'[m].state = s /\ mail'[m].receives = mail[m].receives + d
  /\ mail'[m].body = mail[m].body

\* Such a step keeps the invariant when that message is still paid for.
LEMMA MovedKeeps ==
  ASSUME NEW D, Inv(D), IInv', RetryInv, BudgetOK', NEW m \in Msg, NEW s, NEW d \in {0, 1},
         Moved(m, s, d), PaidFor(m)',
         Left' <= Left, \A x \in Consumer : DoomedPlace(x)'
  PROVE  RetryInv'
<1>1. Numbers
  BY NumbersOK DEF RetryInv
<1>2. Left' \in Nat
  BY DEF BudgetOK, Left
<1>3. ASSUME NEW x \in Msg PROVE PaidFor(x)'
  <2>1. CASE x = m
    BY <2>1
  <2>2. CASE x # m
    <3>1. mail'[x] = mail[x] /\ mail[x].receives \in Nat
      BY <1>1, <2>2 DEF Moved, Numbers
    <3>2. PaidFor(x)
      BY DEF RetryInv
    <3> QED
      BY <1>1, <1>2, <3>1, <3>2 DEF PaidFor, Numbers, Given
  <2> QED
    BY <2>1, <2>2
<1> QED
  BY <1>3 DEF RetryInv

LEMMA MovedPlace ==
  ASSUME NEW D, Inv(D), RetryInv, NEW m \in Msg, NEW s, NEW d, Moved(m, s, d),
         NEW x \in Consumer, worker'[x] = worker[x]
  PROVE  DoomedPlace(x)'
<1>1. DoomedPlace(x)
  BY DEF RetryInv
<1>2. CASE At(x, "idle")
  BY <1>2 DEF DoomedPlace, At
<1>3. CASE ~At(x, "idle")
  <2>1. worker[x].msg \in Msg
    BY <1>3, Handling DEF Used
  <2>2. Body(x)' = Body(x)
    BY <2>1 DEF Body, Moved
  <2> QED
    BY <1>1, <2>2 DEF DoomedPlace, At
<1> QED
  BY <1>2, <1>3

LEMMA ReceiveRetries ==
  ASSUME NEW D, Inv(D), IInv', RetryInv, NEW c \in Consumer, Receive(c)
  PROVE  RetryInv'
<1>1. PICK m \in Msg :
        /\ mail[m].state = "queued" /\ mail[m].receives < MaxReceive
        /\ mail' = [mail EXCEPT ![m].state = "handled", ![m].receives = @ + 1]
        /\ worker' = [worker EXCEPT ![c] =
             [Resting EXCEPT !.pc = Dispatch(mail[m].body), !.msg = m]]
  BY DEF Receive
<1>2. Moved(m, "handled", 1)
  BY <1>1 DEF Moved, Inv, MailInv, MailField
<1>3. BudgetOK' /\ Left' = Left
  BY SameBudget DEF Receive, RetryInv
<1>4. Numbers
  BY NumbersOK DEF RetryInv
<1>5. PaidFor(m)'
  <2>1. PaidFor(m)
    BY DEF RetryInv
  <2>2. mail[m].receives \in Nat
    BY <1>4 DEF Numbers
  <2> QED
    BY <1>1, <1>2, <1>3, <1>4, <2>1, <2>2 DEF PaidFor, Moved, Numbers, Given
<1>6. /\ worker'[c].pc = Dispatch(mail[m].body) /\ worker'[c].msg = m
      /\ \A x \in Consumer \ {c} : worker'[x] = worker[x]
  BY <1>1 DEF Resting, Inv, WorkerInv
<1>7. Body(c)' = mail[m].body
  BY <1>2, <1>6 DEF Body, Moved
<1>8. DoomedPlace(c)'
  BY <1>6, <1>7 DEF DoomedPlace, At, Dispatch
<1>9. \A x \in Consumer : DoomedPlace(x)'
  BY <1>2, <1>6, <1>8, MovedPlace
<1>10. Left' <= Left
  BY <1>3, <1>4 DEF Numbers
<1> QED
  BY <1>2, <1>3, <1>5, <1>9, <1>10, MovedKeeps

\* The handler of c rests; its message is done, or visible again for a failure
\* that was spent or for its own content.
LEMMA RestRetries ==
  ASSUME NEW D, Inv(D), IInv', RetryInv, NEW c \in Consumer, ~At(c, "idle"),
         NEW s \in {"queued", "done"},
         mail' = [mail EXCEPT ![worker[c].msg].state = s],
         worker' = [worker EXCEPT ![c] = Resting],
         BudgetOK', Left' = Left \/ Left' = Left - 1,
         s = "done" \/ Doomed(Body(c)) \/ Left' = Left - 1
  PROVE  RetryInv'
<1>1. PICK m : m = worker[c].msg
  OBVIOUS
<1>2. m \in Msg /\ mail[m].state = "handled"
  BY <1>1, Handling DEF Fits, At
<1>3. mail[m].receives \in Nat /\ Numbers
  BY <1>2, NumbersOK DEF Numbers, RetryInv
<1>4. Moved(m, s, 0)
  BY <1>1, <1>2, <1>3 DEF Moved, Inv, MailInv, MailField
<1>5. PaidFor(m)'
  <2>1. PaidFor(m)
    BY <1>2 DEF RetryInv
  <2>2. Body(c) = mail[m].body
    BY <1>1 DEF Body
  <2>3. Doomed(mail[m].body) \/
        (mail[m].receives + Left <= Given + 1 /\ (s = "done" \/ Left' = Left - 1))
    BY <1>2, <2>1, <2>2 DEF PaidFor
  <2>4. /\ mail'[m].state = s /\ mail'[m].body = mail[m].body
        /\ mail'[m].receives = mail[m].receives
    BY <1>3, <1>4 DEF Moved
  <2>5. CASE Doomed(mail[m].body)
    BY <2>4, <2>5 DEF PaidFor, Doomed
  <2>6. CASE mail[m].receives + Left <= Given + 1 /\ s = "done"
    BY <1>3, <2>4, <2>6 DEF PaidFor, Numbers, Given
  <2>7. CASE mail[m].receives + Left <= Given + 1 /\ Left' = Left - 1
    BY <1>3, <2>4, <2>7 DEF PaidFor, Numbers, Given
  <2> QED
    BY <2>3, <2>5, <2>6, <2>7
<1>6. /\ worker'[c] = Resting
      /\ \A x \in Consumer \ {c} : worker'[x] = worker[x]
  BY DEF Inv, WorkerInv
<1>7. DoomedPlace(c)'
  <2>1. worker'[c].pc = "idle"
    BY <1>6 DEF Resting
  <2> QED
    BY <2>1 DEF DoomedPlace, At
<1>8. \A x \in Consumer : DoomedPlace(x)'
  BY <1>2, <1>4, <1>6, <1>7, MovedPlace
<1>9. Left' <= Left
  BY <1>3 DEF Numbers
<1> QED
  BY <1>2, <1>4, <1>5, <1>8, <1>9, MovedKeeps

LEMMA RestingSteps ==
  ASSUME NEW D, Inv(D), IInv', RetryInv, NEW c \in Consumer,
         Return(c) \/ Throw(c) \/ MustThrow(c) \/ Crash(c) \/ TriggerFails(c)
  PROVE  RetryInv'
<1>1. BudgetOK /\ DoomedPlace(c)
  BY DEF RetryInv
<1>2. CASE Return(c)
  <2>1. ~At(c, "idle")
    BY <1>2 DEF Return, At
  <2> QED
    BY <1>1, <1>2, <2>1, SameBudget, RestRetries DEF Return
<1>3. CASE Throw(c)
  <2>1. ~At(c, "idle")
    BY <1>3 DEF Throw, At
  <2>2. BudgetOK' /\ Left' = Left - 1
    BY <1>1, <1>3, FailureSpent DEF Throw
  <2> QED
    BY <1>3, <2>1, <2>2, RestRetries DEF Throw, Rethrow
<1>4. CASE MustThrow(c)
  <2>1. ~At(c, "idle")
    BY <1>4 DEF MustThrow, At
  <2>2. Doomed(Body(c))
    BY <1>1, <1>4 DEF MustThrow, DoomedPlace, Doomed, MayThrow, Here
  <2> QED
    BY <1>1, <1>4, <2>1, <2>2, SameBudget, RestRetries DEF MustThrow, Rethrow
<1>5. CASE Crash(c)
  <2>1. BudgetOK' /\ Left' = Left - 1
    BY <1>1, <1>5, FailureSpent DEF Crash
  <2> QED
    BY <1>5, <2>1, RestRetries DEF Crash
<1>6. CASE TriggerFails(c)
  <2>1. ~At(c, "idle") /\ Doomed(Body(c))
    BY <1>6 DEF TriggerFails, At, Doomed
  <2> QED
    BY <1>1, <1>6, <2>1, SameBudget, RestRetries DEF TriggerFails
<1> QED
  BY <1>2, <1>3, <1>4, <1>5, <1>6

\* As many failures as the budget grants do not exhaust a message.
FewFailures == Given < MaxReceive

LEMMA RedriveRetries ==
  ASSUME FewFailures, NEW D, Inv(D), IInv', RetryInv, NEW m \in Msg, Redrive(m)
  PROVE  RetryInv'
<1>1. BudgetOK' /\ Left' = Left
  BY SameBudget DEF Redrive, RetryInv
<1>2. Numbers /\ mail[m].receives \in Nat
  BY NumbersOK DEF RetryInv, Numbers
<1>3. Doomed(mail[m].body)
  BY <1>2 DEF RetryInv, PaidFor, Redrive, FewFailures, Numbers
<1>4. Moved(m, "dead", 0)
  BY <1>2 DEF Redrive, Moved, Inv, MailInv, MailField
<1>5. PaidFor(m)'
  BY <1>3, <1>4 DEF PaidFor, Doomed, Moved
<1>6. \A x \in Consumer : DoomedPlace(x)'
  BY <1>4, MovedPlace DEF Redrive
<1>7. Left' <= Left
  BY <1>1, <1>2 DEF Numbers
<1> QED
  BY <1>1, <1>4, <1>5, <1>6, <1>7, MovedKeeps

LEMMA WorldRetries ==
  ASSUME NEW D, Inv(D), IInv', RetryInv,
         (\E b \in outside : Answer(b)) \/ User \/ UNCHANGED vars
  PROVE  RetryInv'
<1>1. BudgetOK
  BY DEF RetryInv
<1>2. CASE \E b \in outside : Answer(b)
  <2>1. worker' = worker /\ FreshMail /\ budget' = budget
    BY <1>2, DeliverFresh DEF Answer
  <2> QED
    BY <1>1, <2>1, SameBudget, CalmWorld DEF Calm
<1>3. CASE User
  <2>1. worker' = worker /\ UserCall
    BY <1>3 DEF User, Rerun, Decide, SetStatus
  <2>2. FreshMail
    <3>1. CASE mail' = mail
      BY <3>1 DEF FreshMail
    <3>2. CASE \E S : mail' = Deliver(S)
      BY <3>2, DeliverFresh
    <3> QED
      BY <1>3, <3>1, <3>2 DEF User, Rerun, Decide, SetStatus, Initiate
  <2> QED
    BY <1>1, <2>1, <2>2, UserCalm, CalmWorld, SMTT(60) DEF Calm
<1>4. CASE UNCHANGED vars
  BY <1>1, <1>4, StillCalm, CalmWorld DEF vars
<1> QED
  BY <1>2, <1>3, <1>4

LEMMA InitRetries == Init => RetryInv
<1> SUFFICES ASSUME Init PROVE RetryInv
  OBVIOUS
<1>1. BudgetOK /\ Left = Given /\ Given \in Nat
  <2>1. budget = Budget
    BY DEF Init
  <2>2. Budget \in [throws: Nat, crashes: Nat, losses: Nat, users: Nat]
    BY WorkflowAssumption DEF WorkflowAssumption
  <2>3. Left = Given /\ Given \in Nat
    BY <2>1, GivenNat DEF Left, Given
  <2> QED
    BY <2>1, <2>2, <2>3 DEF BudgetOK
<1>2. \A m \in Msg : mail[m].receives = 0 /\ mail[m].state \in {"unsent", "queued"}
  BY DEF Init, Unsent
<1>3. \A m \in Msg : PaidFor(m)
  BY <1>1, <1>2 DEF PaidFor
<1>4. \A c \in Consumer : DoomedPlace(c)
  BY DEF Init, Resting, DoomedPlace, At
<1> QED
  BY <1>1, <1>3, <1>4 DEF RetryInv

LEMMA NextRetries ==
  ASSUME FewFailures, IInv, IInv', RetryInv, [Next]_vars
  PROVE  RetryInv'
<1>1. PICK D : Inv(D)
  BY DEF IInv
<1>2. CASE \E c \in Consumer : Receive(c)
  BY <1>1, <1>2, ReceiveRetries
<1>3. CASE \E c \in Consumer : Handle(c)
  BY <1>1, <1>3, GoingSteps, RunningSteps, RestingSteps DEF Handle
<1>4. CASE \E c \in Consumer : Fault(c)
  BY <1>1, <1>4, RestingSteps DEF Fault
<1>5. CASE \E m \in Msg : Redrive(m)
  BY <1>1, <1>5, RedriveRetries
<1>6. CASE \/ \E b \in outside : Answer(b)
           \/ User \/ AllSettled \/ UNCHANGED vars
  BY <1>1, <1>6, WorldRetries DEF AllSettled
<1> QED
  BY <1>2, <1>3, <1>4, <1>5, <1>6 DEF Next

\* With any number of consumers, users and executions, in any workflow: while
\* fewer failures happen than a message has receipts (maxReceiveCount), only a
\* message on which handleMessage throws by itself is dead-lettered.
THEOREM OnlyDoomedMessagesDie ==
  ASSUME FewFailures
  PROVE  Spec => [](\A m \in Msg : mail[m].state = "dead" => Doomed(mail[m].body))
<1>1. Init => IInv /\ RetryInv
  BY InitInv, InitRetries
<1>2. IInv /\ RetryInv /\ [Next]_vars => (IInv /\ RetryInv)'
  BY NextInv, NextRetries
<1>3. RetryInv => \A m \in Msg : mail[m].state = "dead" => Doomed(mail[m].body)
  BY DEF RetryInv, PaidFor
<1> QED
  BY <1>1, <1>2, <1>3, PTL DEF Spec

\* In a workflow without a Parallel End those are the messages that name no step,
\* the first step of an HTTP call, whose trigger may be logged already, and the
\* steps whose own settings or data throw, if they do (handleMessage rethrows,
\* the queue redelivers).
THEOREM FaultsSurvived ==
  ASSUME FewFailures, \A s \in Step : T[s] # "Parallel End"
  PROVE  Spec => []OneFaultSurvived
<1>1. IInv /\ (\A m \in Msg : mail[m].state = "dead" => Doomed(mail[m].body))
        => OneFaultSurvived
  <2> SUFFICES ASSUME IInv, NEW m \in Msg, mail[m].state = "dead", Doomed(mail[m].body)
               PROVE  \/ mail[m].body.step = NoStep \/ mail[m].body.http
                      \/ MayThrow(mail[m].body.step)
    BY DEF OneFaultSurvived
  <2>1. PICK D : Inv(D)
    BY DEF IInv
  <2>2. mail[m].body.step \in Step \union {NoStep}
    BY <2>1 DEF Inv, DetailInv, Closed, Sound, IsDetail, Used
  <2> QED
    BY <2>2 DEF Doomed
<1> QED
  BY <1>1, Invariance, OnlyDoomedMessagesDie, PTL

-------------------------------------------------------------------------------
(* What holds while one consumer task runs, for every bound.                 *)
(*                                                                          *)
(* The step after a Parallel End is emitted at most once for each entry of   *)
(* PARALLEL, whatever is retried, crashes or is lost, in every workflow,     *)
(* nested forks and loops included.  The argument: the handler's copy of     *)
(* PARALLEL is the record's until the handler saves it, so the list only     *)
(* grows and a closed entry stays closed; and a join that was emitted is a   *)
(* closed entry, while only an open one can be closed.  Neither half is      *)
(* inductive alone.                                                         *)
(*                                                                          *)
(* An execution that comes to rest before its end can be moved by a user,    *)
(* in every workflow without sub-workflows and joins whose steps lead        *)
(* somewhere, while nothing fails.  The argument: an execution that runs or  *)
(* is paused is carried, by a message that is queued or held outside, by     *)
(* the handler until it has emitted, or by a record a user may act on; and   *)
(* the handler gives up its share only when another of them is there.        *)

-------------------------------------------------------------------------------
(* Joined once: the inductive invariant *)

\* The places where the handler's copy of PARALLEL still matters.
Copying == {"external", "parallel", "perform", "join"}

FreshCopy(c) ==
  worker[c].pc \in Copying => worker[c].parallel = exec[Body(c).exec].parallel

ClosedEntry(e, i) ==
  /\ i \in DOMAIN exec[e].parallel
  /\ ~exec[e].parallel[i].active

\* A join about to be emitted is closed and was not emitted before.
ReadyToEmit(c) ==
  At(c, "joined") =>
    /\ ClosedEntry(Body(c).exec, worker[c].idx)
    /\ \A n \in DOMAIN joins : joins[n] # <<Body(c).exec, worker[c].idx>>

EmittedClosed ==
  /\ joins \in Seq(Exec \X Nat)
  /\ \A n \in DOMAIN joins : /\ exec[joins[n][1]].status # "none"
                             /\ ClosedEntry(joins[n][1], joins[n][2])

JoinInv ==
  /\ \A c \in Consumer : FreshCopy(c) /\ ReadyToEmit(c)
  /\ EmittedClosed
  /\ IsInjective(joins)

-------------------------------------------------------------------------------
(* What a step leaves alone *)

SameParallel ==
  \A e \in Exec : exec[e].status # "none" =>
    exec'[e].status # "none" /\ exec'[e].parallel = exec[e].parallel

\* Entries stay, and closed ones stay closed.
GrowingParallel ==
  \A e \in Exec : exec[e].status # "none" =>
    /\ exec'[e].status # "none"
    /\ \A i : ClosedEntry(e, i) => ClosedEntry(e, i)'

LEMMA SameGrows == SameParallel => GrowingParallel
BY DEF SameParallel, GrowingParallel, ClosedEntry

LEMMA EmittedKept ==
  ASSUME EmittedClosed, GrowingParallel, joins' = joins
  PROVE  EmittedClosed'
<1>1. \A n \in DOMAIN joins : joins[n][1] \in Exec
  BY DEF EmittedClosed
<1>2. \A n \in DOMAIN joins : /\ exec'[joins[n][1]].status # "none"
                              /\ ClosedEntry(joins[n][1], joins[n][2])'
  BY <1>1 DEF EmittedClosed, GrowingParallel
<1>3. joins' \in Seq(Exec \X Nat)
  BY DEF EmittedClosed
<1>4. \A n \in DOMAIN joins' : /\ exec'[joins'[n][1]].status # "none"
                               /\ ClosedEntry(joins[n][1], joins[n][2])'
  BY <1>2 DEF ClosedEntry
<1> QED
  BY <1>3, <1>4 DEF EmittedClosed

\* The handler goes where its copy no longer matters.
LEMMA LeaveStep ==
  ASSUME JoinInv, NEW c, Consumer = {c}, SameParallel, joins' = joins,
         worker'[c].pc \notin Copying \union {"joined"}
  PROVE  JoinInv'
<1>1. EmittedClosed'
  BY SameGrows, EmittedKept DEF JoinInv
<1>2. FreshCopy(c)' /\ ReadyToEmit(c)'
  BY DEF FreshCopy, ReadyToEmit, At
<1> QED
  BY <1>1, <1>2 DEF JoinInv, IsInjective

\* The handler waits while the world moves.
LEMMA WaitStep ==
  ASSUME NEW D, Inv(D), JoinInv, NEW c, Consumer = {c}, SameParallel, joins' = joins,
         worker'[c] = worker[c],
         ~At(c, "idle") => mail'[worker[c].msg].body = mail[worker[c].msg].body
  PROVE  JoinInv'
<1>1. EmittedClosed'
  BY SameGrows, EmittedKept DEF JoinInv
<1>2. CASE worker[c].pc \notin Copying \union {"joined"}
  BY <1>2, LeaveStep
<1>3. CASE worker[c].pc \in Copying \union {"joined"}
  <2>1. ~At(c, "idle")
    BY <1>3 DEF At, Copying
  <2>2. Body(c).exec \in Exec /\ exec[Body(c).exec].status # "none"
    BY <2>1, Handling DEF Sound, IsDetail
  <2>3. Body(c)' = Body(c)
    BY <2>1 DEF Body
  <2>4. exec'[Body(c).exec].parallel = exec[Body(c).exec].parallel
    BY <2>2 DEF SameParallel
  <2>5. FreshCopy(c)'
    BY <2>3, <2>4 DEF JoinInv, FreshCopy
  <2>6. ReadyToEmit(c)'
    BY <2>3, <2>4 DEF JoinInv, ReadyToEmit, ClosedEntry, At
  <2> QED
    BY <1>1, <2>5, <2>6 DEF JoinInv, IsInjective
<1> QED
  BY <1>2, <1>3

\* Only one field of one record changes, and it is not PARALLEL.
LEMMA StatusSame ==
  ASSUME ExecOK, NEW e \in Exec, NEW s, s # "none",
         exec' = [exec EXCEPT ![e].status = s]
  PROVE  SameParallel
BY DEF ExecOK, SameParallel

LEMMA StillSame == UNCHANGED exec => SameParallel
BY DEF SameParallel

-------------------------------------------------------------------------------
(* The steps that leave PARALLEL alone *)

LEMMA LeavingSteps ==
  ASSUME NEW D, Inv(D), JoinInv, NEW c, Consumer = {c},
         \/ EndExecution(c) \/ FinishParent(c) \/ ResumeParent(c) \/ LoopBack(c) \/ LogTrigger(c)
         \/ ReadExecution(c) \/ AskExternal(c) \/ MarkError(c) \/ StopExecution(c)
         \/ ContinueAfterError(c) \/ SendChild(c) \/ AskApproval(c)
         \/ Schedule(c) \/ EmitNext(c) \/ CloseStep(c)
  PROVE  JoinInv'
<1> DEFINE P == {"return", "resume", "resumed", "read", "claim", "onError", "close"}
<1>1. PICK p \in P : Goto(c, p)
  BY DEF EndExecution, FinishParent, ResumeParent, LoopBack, LogTrigger, ReadExecution, AskExternal,
         MarkError, StopExecution, ContinueAfterError, SendChild, AskApproval,
         Schedule, EmitNext, CloseStep
<1>2. worker'[c].pc \notin Copying \union {"joined"}
  BY <1>1, GotoAt DEF Copying
<1>3. SameParallel
  <2>1. CASE UNCHANGED exec
    BY <2>1, StillSame
  <2>2. CASE EndExecution(c) \/ StopExecution(c) \/ LogTrigger(c)
    <3>1. ~At(c, "idle")
      BY <2>2 DEF EndExecution, StopExecution, LogTrigger, At
    <3>2. Body(c).exec \in Exec /\ ExecOK
      BY <3>1, Handling DEF Sound, IsDetail, Inv
    <3>3. CASE EndExecution(c) \/ StopExecution(c)
      BY <3>2, <3>3, StatusSame DEF EndExecution, StopExecution
    <3>4. CASE LogTrigger(c)
      BY <3>2, <3>4 DEF LogTrigger, ExecOK, SameParallel
    <3> QED
      BY <2>2, <3>3, <3>4
  <2> QED
    BY <2>1, <2>2 DEF FinishParent, ResumeParent, LoopBack, ReadExecution, AskExternal,
         MarkError, ContinueAfterError, SendChild, AskApproval, Schedule, EmitNext, CloseStep
<1>4. joins' = joins
  BY DEF EndExecution, FinishParent, ResumeParent, LoopBack, LogTrigger, ReadExecution, AskExternal,
         MarkError, StopExecution, ContinueAfterError, SendChild, AskApproval,
         Schedule, EmitNext, CloseStep
<1> QED
  BY <1>2, <1>3, <1>4, LeaveStep

LEMMA CreateChildJoin ==
  ASSUME NEW D, Inv(D), JoinInv, NEW c, Consumer = {c}, CreateChild(c)
  PROVE  JoinInv'
<1>1. joins' = joins
  BY DEF CreateChild
<1>2. worker[c] = [f \in HandlerField |-> worker[c][f]] /\ worker = [x \in Consumer |-> worker[x]]
  BY DEF Inv, WorkerInv, Fits
<1>3. CASE SubFirst[Body(c).step] = << >>
  <2>1. Goto(c, "return") /\ UNCHANGED exec
    BY <1>3 DEF CreateChild
  <2>2. worker'[c].pc = "return"
    BY <2>1, GotoAt
  <2> QED
    BY <1>1, <2>1, <2>2, StillSame, LeaveStep DEF Copying
<1>4. CASE SubFirst[Body(c).step] # << >>
  <2>1. PICK e \in Exec :
          /\ exec[e].status = "none"
          /\ exec' = [exec EXCEPT ![e] = NewExec]
          /\ worker' = [worker EXCEPT ![c].pc = "sendChild", ![c].child = e]
    BY <1>4 DEF CreateChild
  <2>2. worker'[c].pc = "sendChild"
    BY <1>2, <2>1 DEF HandlerField
  <2>3. SameParallel
    BY <2>1 DEF SameParallel, Inv, ExecOK
  <2> QED
    BY <1>1, <2>2, <2>3, LeaveStep DEF Copying
<1> QED
  BY <1>3, <1>4

LEMMA ResettingSteps ==
  ASSUME NEW D, Inv(D), JoinInv, NEW c, Consumer = {c},
         Return(c) \/ Throw(c) \/ MustThrow(c) \/ Crash(c) \/ TriggerFails(c)
  PROVE  JoinInv'
<1>1. UNCHANGED <<exec, joins>> /\ worker' = [worker EXCEPT ![c] = Resting]
  BY DEF Return, Throw, MustThrow, Rethrow, Crash, TriggerFails
<1>2. worker'[c].pc = "idle"
  BY <1>1 DEF Resting, Inv, WorkerInv
<1> QED
  BY <1>1, <1>2, StillSame, LeaveStep DEF Copying

LEMMA ReceiveJoin ==
  ASSUME NEW D, Inv(D), JoinInv, NEW c, Consumer = {c}, Receive(c)
  PROVE  JoinInv'
<1>1. UNCHANGED <<exec, joins>>
  BY DEF Receive
<1>2. PICK m \in Msg : worker' = [worker EXCEPT ![c] =
                           [Resting EXCEPT !.pc = Dispatch(mail[m].body), !.msg = m]]
  BY DEF Receive
<1>3. worker'[c].pc = Dispatch(mail[m].body)
  BY <1>2 DEF Resting, Inv, WorkerInv
<1>4. worker'[c].pc \notin Copying \union {"joined"}
  BY <1>3 DEF Dispatch, Copying
<1> QED
  BY <1>1, <1>4, StillSame, LeaveStep

LEMMA WorldJoin ==
  ASSUME NEW D, Inv(D), JoinInv, NEW c, Consumer = {c},
         \/ \E m \in Msg : Redrive(m)
         \/ \E b \in outside : Answer(b)
         \/ User
         \/ UNCHANGED vars
  PROVE  JoinInv'
<1>1. joins' = joins /\ worker' = worker
  BY DEF Redrive, Answer, User, Rerun, Decide, SetStatus, vars
<1>2. SameParallel
  <2>1. CASE UNCHANGED exec
    BY <2>1, StillSame
  <2>2. CASE \E e \in Exec, s \in {"Running", "Pause"} : SetStatus(e, s)
    BY <2>2, StatusSame DEF SetStatus, Inv
  <2> QED
    BY <2>1, <2>2 DEF Redrive, Answer, User, Rerun, Decide, vars
<1>3. \A m \in Used : mail'[m].body = mail[m].body
  <2>1. CASE \E m \in Msg : Redrive(m)
    BY <2>1 DEF Redrive, Inv, MailInv, MailField, Used
  <2>2. ASSUME NEW d, mail' = Deliver({d})
        PROVE  \A m \in Used : mail'[m] = mail[m]
    BY <2>2, FS_Singleton, DeliverGrows DEF Inv, MailGrows
  <2>3. CASE \E b \in outside : Answer(b)
    BY <2>2, <2>3 DEF Answer
  <2>4. CASE User
    BY <2>2, <2>4 DEF User, Rerun, Decide, Initiate, SetStatus
  <2>5. CASE UNCHANGED vars
    BY <2>5 DEF vars
  <2> QED
    BY <2>1, <2>3, <2>4, <2>5
<1>4. ~At(c, "idle") => mail'[worker[c].msg].body = mail[worker[c].msg].body
  BY <1>3, Handling
<1> QED
  BY <1>1, <1>2, <1>4, WaitStep, SMTT(60)

LEMMA ConditionFailsJoin ==
  ASSUME NEW D, Inv(D), JoinInv, NEW c, Consumer = {c}, ConditionFails(c)
  PROVE  JoinInv'
<1>1. ~At(c, "idle") /\ worker[c] = [f \in HandlerField |-> worker[c][f]]
      /\ worker = [x \in Consumer |-> worker[x]] /\ ExecOK
  BY DEF ConditionFails, At, Inv, WorkerInv, Fits
<1>2. Body(c).exec \in Exec
  BY <1>1, Handling DEF Sound, IsDetail
<1>3. worker'[c].pc = "emit" /\ joins' = joins
  BY <1>1 DEF ConditionFails, HandlerField
<1>4. SameParallel
  BY <1>1, <1>2 DEF ConditionFails, SameParallel, ExecOK
<1> QED
  BY <1>3, <1>4, LeaveStep DEF Copying

-------------------------------------------------------------------------------
(* The steps that read or write PARALLEL *)

\* The handler ends up with the record's PARALLEL, which only grew.
LEMMA CopyStep ==
  ASSUME NEW D, Inv(D), JoinInv, NEW c, Consumer = {c}, ~At(c, "idle"),
         GrowingParallel, UNCHANGED <<joins, mail>>,
         worker'[c].pc # "joined", worker'[c].msg = worker[c].msg,
         worker'[c].parallel = exec'[Body(c).exec].parallel
  PROVE  JoinInv'
<1>1. EmittedClosed'
  BY EmittedKept DEF JoinInv
<1>2. Body(c)' = Body(c)
  BY DEF Body
<1>3. FreshCopy(c)' /\ ReadyToEmit(c)'
  BY <1>2 DEF FreshCopy, ReadyToEmit, At
<1> QED
  BY <1>1, <1>3 DEF JoinInv, IsInjective

LEMMA OpenJoin ==
  ASSUME NEW D, Inv(D), JoinInv, NEW c, Consumer = {c}, ClaimStep(c) \/ ReopenStep(c)
  PROVE  JoinInv'
<1>1. ~At(c, "idle") /\ UNCHANGED <<exec, joins, mail>>
  BY DEF ClaimStep, ReopenStep, At
<1>2. PICK k : Open(c, k)
  BY DEF ClaimStep, ReopenStep
<1>3. /\ worker'[c].pc = Begin(Body(c))
      /\ worker'[c].parallel = exec[Body(c).exec].parallel
      /\ worker'[c].msg = worker[c].msg
  BY <1>1, <1>2, Standing DEF Open, HandlerField
<1>4. worker'[c].pc # "joined"
  BY <1>3 DEF Begin
<1> QED
  BY <1>1, <1>3, <1>4, StillSame, SameGrows, CopyStep

\* One record's PARALLEL is replaced by one in which closed entries stay closed.
LEMMA ParallelSaved ==
  ASSUME ExecOK, NEW e \in Exec, NEW P \in Seq(ParallelEntry),
         exec' = [exec EXCEPT ![e].parallel = P],
         \A i \in DOMAIN exec[e].parallel : ~exec[e].parallel[i].active =>
           i \in DOMAIN P /\ ~P[i].active
  PROVE  GrowingParallel /\ exec'[e].parallel = P
<1>1. exec'[e].parallel = P /\ exec'[e].status = exec[e].status
      /\ \A f \in Exec \ {e} : exec'[f] = exec[f]
  BY DEF ExecOK
<1> QED
  BY <1>1 DEF GrowingParallel, ClosedEntry

LEMMA ForkJoin ==
  ASSUME NEW D, Inv(D), JoinInv, NEW c, Consumer = {c}, ForkBranches(c)
  PROVE  JoinInv'
<1> DEFINE e == Body(c).exec
           n == Len(NAID[Body(c).step])
<1>1. ~At(c, "idle") /\ UNCHANGED <<joins, mail>> /\ c \in Consumer
  BY DEF ForkBranches, At
<1>2. worker[c].parallel = exec[e].parallel
  BY DEF JoinInv, FreshCopy, ForkBranches, At, Copying
<1>3. n \in Nat
  BY <1>1, Handling, NAIDType DEF Fits, ForkBranches, At, Body
<1>4. PICK P : P = Fork(exec[e].parallel, n)
  OBVIOUS
<1>5. exec[e].parallel \in Seq(ParallelEntry) /\ e \in Exec /\ ExecOK
  BY <1>1, Standing
<1>6. P \in Seq(ParallelEntry)
  BY <1>3, <1>4, <1>5, ParallelTypes
<1>7. \A i \in DOMAIN exec[e].parallel : ~exec[e].parallel[i].active =>
        i \in DOMAIN P /\ ~P[i].active
  <2>1. \A i \in DOMAIN exec[e].parallel : i \in DOMAIN P /\ P[i] = exec[e].parallel[i]
    BY <1>4, <1>5 DEF Fork
  <2> QED
    BY <2>1, Zenon
<1>8. exec' = [exec EXCEPT ![e].parallel = P]
  BY <1>2, <1>4 DEF ForkBranches
<1>9. GrowingParallel /\ exec'[e].parallel = P
  BY <1>5, <1>6, <1>7, <1>8, ParallelSaved
<1>10. worker' = [worker EXCEPT ![c] = [worker[c] EXCEPT !.pc = "perform", !.parallel = P,
                    !.idx = Len(P), !.idxs = Append(worker[c].idxs, Len(P))]]
  BY <1>2, <1>4 DEF ForkBranches
<1>11. /\ worker'[c].pc = "perform" /\ worker'[c].parallel = P
       /\ worker'[c].msg = worker[c].msg
  BY <1>1, <1>10, Standing DEF HandlerField
<1>12. worker'[c].pc # "joined"
  BY <1>11
<1> QED
  BY <1>1, <1>9, <1>11, <1>12, CopyStep

LEMMA ArriveJoin ==
  ASSUME NEW D, Inv(D), JoinInv, NEW c, Consumer = {c}, ArriveBranch(c)
  PROVE  JoinInv'
<1> DEFINE e == Body(c).exec
<1>1. ~At(c, "idle") /\ UNCHANGED <<joins, mail>> /\ c \in Consumer
  BY DEF ArriveBranch, At
<1>2. worker[c].parallel = exec[e].parallel
  BY DEF JoinInv, FreshCopy, ArriveBranch, At, Copying
<1>3. PICK P : P = Arrive(exec[e].parallel, worker[c].idx)
  OBVIOUS
<1>4. exec[e].parallel \in Seq(ParallelEntry) /\ e \in Exec /\ ExecOK
  BY <1>1, Standing
<1>5. P \in Seq(ParallelEntry)
  BY <1>3, <1>4, ParallelTypes
<1>6. \A i \in DOMAIN exec[e].parallel : ~exec[e].parallel[i].active =>
        i \in DOMAIN P /\ ~P[i].active
  <2>1. \A i \in 1 .. Len(exec[e].parallel) : exec[e].parallel[i] \in ParallelEntry
    BY <1>4
  <2> QED
    <3> SUFFICES ASSUME NEW i \in DOMAIN exec[e].parallel, ~exec[e].parallel[i].active
                 PROVE  i \in DOMAIN P /\ ~P[i].active
      OBVIOUS
    <3>1. PICK k, w : k = worker[c].idx /\ w = [exec[e].parallel[k] EXCEPT !.finished = @ + 1]
      OBVIOUS
    <3>2. P = [j \in DOMAIN exec[e].parallel |-> IF j = k THEN w ELSE exec[e].parallel[j]]
      BY <1>3, <1>4, <3>1 DEF Arrive
    <3>3. i = k => w.active = exec[e].parallel[i].active
      <4>1. \A r \in ParallelEntry : [r EXCEPT !.finished = @ + 1].active = r.active
        BY DEF ParallelEntry
      <4>2. DOMAIN exec[e].parallel = 1 .. Len(exec[e].parallel)
        BY <1>4
      <4> QED
        BY <2>1, <3>1, <4>1, <4>2, Zenon
    <3> QED
      BY <3>2, <3>3
<1>7. exec' = [exec EXCEPT ![e].parallel = P]
  BY <1>2, <1>3 DEF ArriveBranch
<1>8. GrowingParallel /\ exec'[e].parallel = P
  BY <1>4, <1>5, <1>6, <1>7, ParallelSaved
<1>9. worker' = [worker EXCEPT ![c].pc = "perform", ![c].parallel = P]
  BY <1>2, <1>3 DEF ArriveBranch
<1>10. /\ worker'[c].pc = "perform" /\ worker'[c].parallel = P
       /\ worker'[c].msg = worker[c].msg
  BY <1>1, <1>9, Standing DEF HandlerField
<1>11. worker'[c].pc # "joined"
  BY <1>10
<1> QED
  BY <1>1, <1>8, <1>10, <1>11, CopyStep

LEMMA PerformJoin ==
  ASSUME NEW D, Inv(D), JoinInv, NEW c, Consumer = {c}, Perform(c)
  PROVE  JoinInv'
<1> DEFINE e == Body(c).exec
<1>1. ~At(c, "idle") /\ UNCHANGED <<joins, mail>> /\ c \in Consumer
  BY DEF Perform, At
<1>2. worker[c].parallel = exec[e].parallel
  BY DEF JoinInv, FreshCopy, Perform, At, Copying
<1>3. PICK S : exec' = [exec EXCEPT ![e].ste = S]
  BY DEF Perform
<1>4. e \in Exec /\ ExecOK
  BY <1>1, Standing
<1>5. SameParallel /\ exec'[e].parallel = exec[e].parallel
  BY <1>3, <1>4 DEF SameParallel, ExecOK
<1>6. PICK ok, n :
        worker' = [worker EXCEPT ![c] = [@ EXCEPT !.pc = Route(Body(c), ok), !.next = n]]
  BY DEF Perform
<1>7. /\ worker'[c].pc = Route(Body(c), ok) /\ worker'[c].parallel = worker[c].parallel
      /\ worker'[c].msg = worker[c].msg
  BY <1>1, <1>6, Standing DEF HandlerField
<1>8. worker'[c].pc # "joined"
  BY <1>7 DEF Route
<1> QED
  BY <1>1, <1>2, <1>5, <1>7, <1>8, SameGrows, CopyStep

\* A closed entry is one that was open, so it was not emitted yet.
LEMMA JoinBranchesJoin ==
  ASSUME NEW D, Inv(D), JoinInv, NEW c, Consumer = {c}, JoinBranches(c)
  PROVE  JoinInv'
<1> DEFINE e == Body(c).exec
           i == worker[c].idx
<1>1. ~At(c, "idle") /\ UNCHANGED <<joins, mail>> /\ c \in Consumer
  BY DEF JoinBranches, At
<1>2. worker[c].parallel = exec[e].parallel
  BY DEF JoinInv, FreshCopy, JoinBranches, At, Copying
<1>3. exec[e].parallel \in Seq(ParallelEntry) /\ e \in Exec /\ ExecOK
  BY <1>1, Standing
<1>4. CASE ~JoinReady(worker[c].parallel, i)
  <2>1. Goto(c, "close") /\ UNCHANGED exec
    BY <1>4 DEF JoinBranches
  <2>2. worker'[c].pc = "close"
    BY <1>1, <2>1, GotoAt
  <2> QED
    BY <1>1, <2>1, <2>2, StillSame, LeaveStep DEF Copying
<1>5. CASE JoinReady(worker[c].parallel, i)
  <2>1. PICK P : P = Complete(exec[e].parallel, i)
    OBVIOUS
  <2>2. /\ i \in DOMAIN exec[e].parallel
        /\ exec' = [exec EXCEPT ![e].parallel = P]
        /\ worker' = [worker EXCEPT ![c].pc = "joined"]
    BY <1>2, <1>5, <2>1 DEF JoinBranches
  <2>3. P \in Seq(ParallelEntry)
    BY <1>3, <2>1, ParallelTypes
  <2>4. /\ i \in DOMAIN P /\ ~P[i].active
        /\ \A j \in DOMAIN exec[e].parallel : ~exec[e].parallel[j].active =>
             j \in DOMAIN P /\ ~P[j].active
    <3>1. \A j \in DOMAIN exec[e].parallel : j # i => P[j] = exec[e].parallel[j]
      BY <1>3, <2>1, SMTT(60) DEF Complete
    <3>2. DOMAIN P = DOMAIN exec[e].parallel
      BY <1>3, <2>1, SMTT(60) DEF Complete
    <3>3. P[i] = [exec[e].parallel[i] EXCEPT !.active = FALSE]
      BY <1>3, <2>1, <2>2 DEF Complete
    <3>4. exec[e].parallel[i] \in ParallelEntry
      BY <1>3, <2>2, SMTT(60)
    <3>5. ~P[i].active
      BY <3>3, <3>4 DEF ParallelEntry
    <3> QED
      BY <2>2, <3>1, <3>2, <3>5, Zenon
  <2>5. GrowingParallel /\ exec'[e].parallel = P
    BY <1>3, <2>2, <2>3, <2>4, ParallelSaved
  <2>6. /\ worker'[c].pc = "joined" /\ worker'[c].idx = i
        /\ worker'[c].msg = worker[c].msg
    BY <1>1, <2>2, Standing DEF HandlerField
  <2>7. Body(c)' = Body(c)
    BY <1>1, <2>6 DEF Body
  <2>8. ~ClosedEntry(e, i)
    BY <1>2, <1>5 DEF JoinReady, ClosedEntry
  <2>9. \A n \in DOMAIN joins : joins[n] # <<e, i>>
    BY <2>8 DEF JoinInv, EmittedClosed
  <2>10. ClosedEntry(e, i)'
    <3>1. i \in DOMAIN exec'[e].parallel /\ ~exec'[e].parallel[i].active
      BY <2>4, <2>5
    <3>2. e' = e /\ i' = i
      BY <2>6, <2>7
    <3> QED
      BY <3>1, <3>2 DEF ClosedEntry
  <2>11. FreshCopy(c)'
    BY <2>6 DEF FreshCopy, Copying
  <2>12. ReadyToEmit(c)'
    BY <1>1, <2>6, <2>7, <2>9, <2>10 DEF ReadyToEmit
  <2>13. EmittedClosed'
    BY <1>1, <2>5, EmittedKept DEF JoinInv
  <2> QED
    BY <1>1, <2>11, <2>12, <2>13 DEF JoinInv, IsInjective
<1> QED
  BY <1>4, <1>5

LEMMA EmitJoinedJoin ==
  ASSUME NEW D, Inv(D), JoinInv, NEW c, Consumer = {c}, EmitJoined(c)
  PROVE  JoinInv'
<1> DEFINE e == Body(c).exec
           i == worker[c].idx
<1>1. ~At(c, "idle") /\ At(c, "joined") /\ UNCHANGED exec /\ c \in Consumer
      /\ Goto(c, "close") /\ joins' = Append(joins, <<e, i>>)
  BY DEF EmitJoined, At
<1>2. /\ exec[e].parallel \in Seq(ParallelEntry) /\ e \in Exec
      /\ exec[e].status # "none"
  BY <1>1, Standing
<1>3. ClosedEntry(e, i) /\ \A n \in DOMAIN joins : joins[n] # <<e, i>>
  BY <1>1 DEF JoinInv, ReadyToEmit
<1>4. i \in Nat
  BY <1>2, <1>3 DEF ClosedEntry
<1>5. joins \in Seq(Exec \X Nat) /\ <<e, i>> \in Exec \X Nat
  BY <1>2, <1>4 DEF JoinInv, EmittedClosed
<1>6. /\ joins' \in Seq(Exec \X Nat)
      /\ DOMAIN joins' = DOMAIN joins \union {Len(joins) + 1}
      /\ \A n \in DOMAIN joins : joins'[n] = joins[n]
      /\ joins'[Len(joins) + 1] = <<e, i>>
  BY <1>1, <1>5, SMTT(60)
<1>7. EmittedClosed'
  <2>1. ASSUME NEW n \in DOMAIN joins'
        PROVE  /\ exec[joins'[n][1]].status # "none"
               /\ joins'[n][2] \in DOMAIN exec[joins'[n][1]].parallel
               /\ ~exec[joins'[n][1]].parallel[joins'[n][2]].active
    <3>1. CASE n \in DOMAIN joins
      BY <1>6, <3>1 DEF JoinInv, EmittedClosed, ClosedEntry
    <3>2. CASE n = Len(joins) + 1
      BY <1>2, <1>3, <1>6, <3>2 DEF ClosedEntry
    <3> QED
      BY <1>6, <3>1, <3>2
  <2> QED
    BY <1>1, <1>6, <2>1, SMTT(60) DEF EmittedClosed, ClosedEntry
<1>8. IsInjective(joins)'
  BY <1>3, <1>6 DEF JoinInv, IsInjective
<1>9. worker'[c].pc = "close"
  BY <1>1, GotoAt
<1>10. FreshCopy(c)' /\ ReadyToEmit(c)'
  BY <1>9 DEF FreshCopy, ReadyToEmit, At, Copying
<1> QED
  BY <1>7, <1>8, <1>10 DEF JoinInv

-------------------------------------------------------------------------------

LEMMA InitJoin == Init => JoinInv
<1> SUFFICES ASSUME Init PROVE JoinInv
  OBVIOUS
<1>1. joins = << >> /\ \A c \in Consumer : worker[c].pc = "idle"
  BY DEF Init, Resting
<1> QED
  BY <1>1 DEF JoinInv, FreshCopy, ReadyToEmit, EmittedClosed, IsInjective, Copying, At

LEMMA NextJoin ==
  ASSUME NEW c, Consumer = {c}, IInv, JoinInv, [Next]_vars
  PROVE  JoinInv'
<1>1. PICK D : Inv(D)
  BY DEF IInv
<1>2. CASE Receive(c)
  BY <1>1, <1>2, ReceiveJoin
<1>3. CASE Handle(c)
  <2>1. CASE JoinBranches(c)
    BY <1>1, <2>1, JoinBranchesJoin
  <2>2. CASE EmitJoined(c)
    BY <1>1, <2>2, EmitJoinedJoin
  <2>3. CASE ForkBranches(c)
    BY <1>1, <2>3, ForkJoin
  <2>4. CASE ArriveBranch(c)
    BY <1>1, <2>4, ArriveJoin
  <2>5. CASE Perform(c)
    BY <1>1, <2>5, PerformJoin
  <2>6. CASE ClaimStep(c) \/ ReopenStep(c)
    BY <1>1, <2>6, OpenJoin
  <2>7. CASE CreateChild(c)
    BY <1>1, <2>7, CreateChildJoin
  <2>8. CASE Return(c) \/ MustThrow(c) \/ TriggerFails(c)
    BY <1>1, <2>8, ResettingSteps
  <2>9. CASE ConditionFails(c)
    BY <1>1, <2>9, ConditionFailsJoin
  <2> QED
    BY <1>1, <1>3, <2>1, <2>2, <2>3, <2>4, <2>5, <2>6, <2>7, <2>8, <2>9, LeavingSteps DEF Handle
<1>4. CASE Fault(c)
  BY <1>1, <1>4, ResettingSteps DEF Fault
<1>5. CASE \/ \E m \in Msg : Redrive(m)
           \/ \E b \in outside : Answer(b)
           \/ User \/ AllSettled \/ UNCHANGED vars
  BY <1>1, <1>5, WorldJoin DEF AllSettled
<1> QED
  BY <1>2, <1>3, <1>4, <1>5 DEF Next

\* With one consumer no Parallel End emits its next step twice for one entry of
\* PARALLEL: whatever throws, crashes, is lost, redelivered or sent again by a
\* user (updateParallelFinished and the emission that follows it).
THEOREM OneConsumerJoinsOnce ==
  ASSUME NEW c, Consumer = {c}
  PROVE  Spec => []JoinOnce
<1>1. Init => IInv /\ JoinInv
  BY InitInv, InitJoin
<1>2. IInv /\ JoinInv /\ [Next]_vars => (IInv /\ JoinInv)'
  BY NextInv, NextJoin
<1>3. JoinInv => JoinOnce
  BY DEF JoinInv, JoinOnce
<1> QED
  BY <1>1, <1>2, <1>3, PTL DEF Spec

-------------------------------------------------------------------------------
(* Never stranded: the hypotheses and the inductive invariant *)

\* A workflow without sub-workflows and joins in which every step that is not
\* an End has a next step to go to; settings and data may fail a Web Service or
\* an Action that is not the first step (a failed one is marked Error), but no
\* step whose failure would leave it closed with nothing sent.
OpenEnded ==
  /\ First # << >>
  /\ \A s \in Fragile : T[s] \in {"Web Service", "Action"} /\ s # First[1]
  /\ \A s \in Step :
       /\ T[s] \notin {"SubWorkflow", "Parallel End"}
       /\ T[s] # "End" => NAID[s] # << >>
       /\ T[s] = "Manual Approval" =>
            \A d \in {"approve", "reject"} : OnDecision[s][d] \in Step
       /\ T[s] = "Web Service" /\ ErrorAction[s] = "EXIT-PATH" =>
            \E n \in ToSet(NAID[s]) : n # DefaultNext[s]

\* Only users interfere.
NoFaults == Budget.throws = 0 /\ Budget.crashes = 0 /\ Budget.losses = 0

\* What is known of a message: of the execution, for a step, outside
\* sub-workflows; one that takes over a record asks no approval and turns no loop,
\* the first step of an HTTP call is sure, and a service answers External steps.
PlainBody(b) ==
  /\ b.step \in Step
  /\ b.exec = 1
  /\ b.parent = None
  /\ b.loop # None => b.loop.first \in Step
  /\ b.http /\ ~b.ext => b.loop = None
  /\ b.http => b.step \notin Fragile
  /\ b.ext => T[b.step] = "External"
  /\ b.wsxh # None \/ b.rerun =>
       /\ T[b.step] = "Manual Approval" => b.decision # "none"
       /\ T[b.step] = "End Loop" => b.loop = None

\* Every message there is, queued or held outside, is such a one.
PlainBodies ==
  /\ \A m \in Used : PlainBody(mail[m].body)
  /\ \A b \in outside : PlainBody(b)

\* The message that makes its handler log the trigger.
IsTrigger(b) == b.http /\ ~b.ext

\* There is one such message, and it is handled once.
TriggerOnce ==
  /\ \A b \in outside : ~IsTrigger(b)
  /\ \A m, n \in Used : IsTrigger(mail[m].body) /\ IsTrigger(mail[n].body) => m = n
  /\ \A m \in Used :
       IsTrigger(mail[m].body) /\ mail[m].state = "queued" => ~exec[1].logged

\* A message is still to be handled.
Pending ==
  outside # {} \/ \E m \in Msg : mail[m].state = "queued" /\ mail[m].receives < MaxReceive

\* The handler has not emitted yet, or it has an End to report.
Working(c) ==
  \/ worker[c].pc \notin {"idle", "close", "return"}
  \/ worker[c].pc = "return" /\ T[Body(c).step] = "End"

\* A user may act on a record of the execution.
Movable == \E k \in DOMAIN hist : mail[k[1]].body.exec = 1 /\ Actionable(k)

\* A Manual Approval step that has no decision yet.
AsksItself(b) == T[b.step] = "Manual Approval" /\ b.decision = "none"

\* What the handler knows at each place on its way.
PlainPlace(c) ==
  LET w == worker[c]
      b == Body(c)
  IN /\ w.pc \notin {"undefined", "resume", "resumed", "child", "sendChild", "join", "joined"}
     /\ w.pc \notin {"idle", "end", "return"} => T[b.step] # "End"
     /\ w.pc = "end" => T[b.step] = "End"
     /\ w.pc = "http" => IsTrigger(b) /\ ~exec[1].logged
     /\ w.pc = "external" => T[b.step] = "External"
     /\ w.pc = "delay" => T[b.step] = "Delay"
     /\ w.pc \in {"perform", "ask"} /\ AsksItself(b) =>
          w.key = Receipt(c) /\ w.key \in DOMAIN hist /\ hist[w.key] = "Started"
     /\ w.pc = "ask" => AsksItself(b)
     /\ w.pc \in {"emit", "delay", "error", "onError"} => w.next \in Seq(Step) \ {<< >>}
     /\ w.pc = "emit" /\ T[b.step] = "Web Service" => w.next = NAID[b.step]
     /\ w.pc = "onError" => w.key \in DOMAIN hist /\ hist[w.key] = "Error"
     /\ w.pc = "close" => Pending

\* Nothing failed but by its own content: no child was created.
Untouched ==
  /\ budget \in [throws: Nat, crashes: Nat, losses: Nat, users: Nat]
  /\ budget.throws = 0 /\ budget.crashes = 0 /\ budget.losses = 0
  /\ \A e \in Exec \ {1} : exec[e].status = "none"

\* The execution has reached its end or is carried on by something.
Carried == Reached(1) \/ Pending \/ Movable \/ \E c \in Consumer : Working(c)

StrandInv ==
  /\ Untouched /\ PlainBodies /\ TriggerOnce
  /\ \A c \in Consumer : PlainPlace(c)
  /\ Carried

-------------------------------------------------------------------------------
(* The queue, and the parts of the invariant it decides *)

\* What every step does to the queue: bodies stay, new ones are of S, what is
\* done stays so, and no trigger is queued again.
QueueStep(S) ==
  /\ \A m \in Used : mail'[m].state # "unsent" /\ mail'[m].body = mail[m].body
  /\ \A m \in Used' : m \in Used \/ mail'[m].body \in S
  /\ \A m \in Used : mail[m].state = "done" => mail'[m].state = "done"
  /\ \A m \in Used : mail'[m].state = "queued" /\ IsTrigger(mail[m].body) =>
       mail[m].state = "queued"

\* A delivery is such a step, and touches no message that was in use.
LEMMA QueueDelivered ==
  ASSUME MailInv, NEW S, IsFiniteSet(S), mail' = Deliver(S)
  PROVE  QueueStep(S) /\ \A m \in Used : mail'[m] = mail[m]
<1>1. MailGrows(S)
  BY DeliverGrows
<1> QED
  BY <1>1 DEF QueueStep, MailGrows, Used

\* Where there is room, what is delivered is queued.
LEMMA DeliverSome ==
  ASSUME MailInv, NEW S, IsFiniteSet(S), S # {}, mail' = Deliver(S),
         Cardinality(Used) + Cardinality(S) <= Cardinality(Msg)
  PROVE  Pending'
<1> DEFINE q == SetToSeq(S)
           k == Len(q)
<1>1. k \in Nat /\ k = Cardinality(S) /\ q \in [1 .. k -> S]
  BY SetToSeqType
<1>2. k # 0
  BY <1>1, FS_EmptySet
<1>3. PICK n \in Nat : Used = 1 .. n
  BY DEF MailInv
<1>4. Cardinality(Used) = n
  BY <1>3, FS_Interval
<1> HIDE DEF q, k
<1>5. mail' = [m \in Msg |-> IF m > n /\ m <= n + k
                  THEN [state |-> "queued", receives |-> 0, body |-> q[m - n]]
                  ELSE mail[m]]
  BY <1>4 DEF Deliver, q, k
<1>6. n + 1 \in Msg
  BY <1>1, <1>2, <1>3, <1>4, MsgFacts
<1>7. mail'[n + 1].state = "queued" /\ mail'[n + 1].receives = 0
  BY <1>1, <1>2, <1>3, <1>5, <1>6
<1> QED
  BY <1>6, <1>7, ReceivesOnce DEF Pending

\* With nothing to lose, what is emitted is queued.
LEMMA PutQueued ==
  ASSUME MailInv, Untouched, NEW S, IsFiniteSet(S), PutEvents(S)
  PROVE  /\ QueueStep(S) /\ budget' = budget
         /\ \A m \in Used : mail'[m] = mail[m]
         /\ S # {} => Pending'
<1>1. ~(budget.losses > 0)
  BY DEF Untouched
<1> QED
  BY <1>1, QueueDelivered, DeliverSome DEF PutEvents

LEMMA QueueStill ==
  ASSUME UNCHANGED mail
  PROVE  QueueStep({})
BY DEF QueueStep, Used

\* The parts of the invariant that hold by what the queue receives.
LEMMA StrandStep ==
  ASSUME NEW D, Inv(D), StrandInv, NEW S, QueueStep(S),
         \A d \in S : PlainBody(d) /\ ~IsTrigger(d),
         outside' \subseteq outside \union S,
         budget' = budget \/ UserCall,
         \A e \in Exec \ {1} : exec'[e].status = "none",
         \/ exec'[1].logged = exec[1].logged
         \/ \A m \in Used : IsTrigger(mail[m].body) => mail[m].state # "queued",
         \A x \in Consumer : PlainPlace(x)', Carried'
  PROVE  StrandInv'
<1>1. PlainBodies'
  BY DEF StrandInv, PlainBodies, QueueStep
<1>2. TriggerOnce'
  <2>1. \A b \in outside' : ~IsTrigger(b)
    BY DEF StrandInv, TriggerOnce
  <2>2. \A m \in Used' : IsTrigger(mail'[m].body) =>
          m \in Used /\ IsTrigger(mail[m].body)
    BY DEF QueueStep
  <2>3. \A m \in Used : mail'[m].state = "queued" /\ IsTrigger(mail[m].body)
          => mail[m].state = "queued"
    BY DEF QueueStep, Used
  <2>4. \A m \in Used' : IsTrigger(mail'[m].body) /\ mail'[m].state = "queued"
          => ~exec'[1].logged
    BY <2>2, <2>3 DEF StrandInv, TriggerOnce
  <2> QED
    BY <2>1, <2>2, <2>4 DEF StrandInv, TriggerOnce
<1>3. Untouched'
  <2>1. /\ budget' \in [throws: Nat, crashes: Nat, losses: Nat, users: Nat]
        /\ budget'.throws = 0 /\ budget'.crashes = 0 /\ budget'.losses = 0
    <3>1. CASE budget' = budget
      BY <3>1 DEF StrandInv, Untouched
    <3>2. CASE UserCall
      <4>1. PICK n : n = budget.users - 1
        OBVIOUS
      <4>2. n \in Nat /\ budget' = [budget EXCEPT !.users = n]
        BY <3>2, <4>1 DEF StrandInv, Untouched, UserCall
      <4> QED
        BY <4>2 DEF StrandInv, Untouched
    <3> QED
      BY <3>1, <3>2
  <2> QED
    BY <2>1 DEF Untouched
<1> QED
  BY <1>1, <1>2, <1>3 DEF StrandInv

\* What is known of a handler at work.
LEMMA Known ==
  ASSUME NEW D, Inv(D), StrandInv, NEW c \in Consumer, ~At(c, "idle")
  PROVE  /\ worker[c].msg \in Used /\ worker[c].msg \in Msg
         /\ mail[worker[c].msg].state = "handled"
         /\ PlainBody(Body(c)) /\ PlainPlace(c) /\ Fits(worker[c])
         /\ worker = [x \in Consumer |-> worker[x]]
         /\ worker[c] = [f \in HandlerField |-> worker[c][f]]
<1>1. Fits(worker[c]) /\ worker[c].msg \in Used
  BY Handling
<1>2. PlainBody(Body(c))
  BY <1>1 DEF StrandInv, PlainBodies, Body
<1> QED
  BY <1>1, <1>2, Standing DEF StrandInv, Fits, At

\* A step of the handler that touches no message.
LEMMA QuietStrand ==
  ASSUME NEW D, Inv(D), StrandInv, NEW c, Consumer = {c},
         UNCHANGED <<mail, outside, budget>>,
         \A e \in Exec \ {1} : exec'[e].status = "none",
         \/ exec'[1].logged = exec[1].logged
         \/ \A m \in Used : IsTrigger(mail[m].body) => mail[m].state # "queued",
         PlainPlace(c)', Carried'
  PROVE  StrandInv'
<1>1. QueueStep({})
  BY QueueStill
<1>2. \A d \in {} : PlainBody(d) /\ ~IsTrigger(d)
  OBVIOUS
<1>3. \A x \in Consumer : PlainPlace(x)'
  OBVIOUS
<1> QED
  BY <1>1, <1>2, <1>3, StrandStep

\* No execution changes.
LEMMA SameExec ==
  ASSUME StrandInv, UNCHANGED exec
  PROVE  /\ \A e \in Exec \ {1} : exec'[e].status = "none"
         /\ exec'[1].logged = exec[1].logged
BY DEF StrandInv, Untouched

\* Only the record of execution 1 changes, but for its trigger's record.
LEMMA OwnExec ==
  ASSUME NEW D, Inv(D), StrandInv, NEW r,
         exec' = [exec EXCEPT ![1] = r], r.logged = exec[1].logged
  PROVE  /\ \A e \in Exec \ {1} : exec'[e].status = "none"
         /\ exec'[1].logged = exec[1].logged /\ exec'[1].status = r.status
<1>1. 1 \in Exec /\ ExecOK
  BY WorkflowAssumption DEF WorkflowAssumption, Inv
<1> QED
  BY <1>1 DEF StrandInv, Untouched, ExecOK

\* The handler keeps its message, so it keeps its body.
LEMMA BodySame ==
  ASSUME NEW D, Inv(D), StrandInv, NEW c \in Consumer, ~At(c, "idle"),
         worker'[c].msg = worker[c].msg, NEW S, QueueStep(S)
  PROVE  Body(c)' = Body(c)
<1>1. worker[c].msg \in Used
  BY Known
<1> QED
  BY <1>1 DEF QueueStep, Body

\* A record that can be moved stays so when the history does.
LEMMA MovableKept ==
  ASSUME NEW D, Inv(D), Movable, UNCHANGED hist, NEW S, QueueStep(S)
  PROVE  Movable'
<1>1. PICK k \in DOMAIN hist : mail[k[1]].body.exec = 1 /\ Actionable(k)
  BY DEF Movable
<1>2. k[1] \in Used
  BY DEF Inv, HistInv, UsedKey, Key, Used
<1>3. mail'[k[1]].body = mail[k[1]].body
  BY <1>2 DEF QueueStep
<1>4. Actionable(k)'
  BY <1>1, <1>3 DEF Actionable
<1> QED
  BY <1>1, <1>3, <1>4 DEF Movable

\* A record of the handler's execution that a user may move.
LEMMA MadeMovable ==
  ASSUME NEW k, k[1] \in Used, PlainBody(mail[k[1]].body), NEW S, QueueStep(S),
         k \in DOMAIN hist',
         \/ hist'[k] \in {"Pause", "Error"}
         \/ hist'[k] = "Started" /\ T[mail[k[1]].body.step] = "Manual Approval"
  PROVE  Movable'
<1>1. mail'[k[1]].body = mail[k[1]].body
  BY DEF QueueStep
<1>2. mail'[k[1]].body.exec = 1
  BY <1>1 DEF PlainBody
<1>3. Actionable(k)'
  BY <1>1 DEF Actionable
<1> QED
  BY <1>2, <1>3 DEF Movable

\* An End that was handled stays so.
LEMMA ReachedKept ==
  ASSUME Reached(1), NEW S, QueueStep(S)
  PROVE  Reached(1)'
BY DEF Reached, QueueStep, Used

LEMMA Recorded ==
  ASSUME NEW k, NEW v, hist' = Record(k, v)
  PROVE  k \in DOMAIN hist' /\ hist'[k] = v
BY DEF Record

-------------------------------------------------------------------------------
(* Receiving, and the paths that return early *)

LEMMA ReceiveStrand ==
  ASSUME NEW D, Inv(D), StrandInv, NEW c, Consumer = {c}, Receive(c)
  PROVE  StrandInv'
<1>1. PICK m \in Msg :
        /\ mail[m].state = "queued" /\ mail[m].receives < MaxReceive
        /\ mail' = [mail EXCEPT ![m].state = "handled", ![m].receives = @ + 1]
        /\ worker' = [worker EXCEPT ![c] =
             [Resting EXCEPT !.pc = Dispatch(mail[m].body), !.msg = m]]
  BY DEF Receive
<1>2. m \in Used /\ PlainBody(mail[m].body)
  BY <1>1 DEF Used, StrandInv, PlainBodies
<1>3. /\ \A x \in Msg \ {m} : mail'[x] = mail[x]
      /\ mail'[m].state = "handled" /\ mail'[m].body = mail[m].body
  BY <1>1 DEF Inv, MailInv, MailField
<1>4. QueueStep({})
  BY <1>1, <1>3 DEF QueueStep, Used
<1>5. worker'[c].pc = Dispatch(mail[m].body) /\ worker'[c].msg = m
  BY <1>1 DEF Resting, Inv, WorkerInv
<1>6. Body(c)' = mail[m].body
  BY <1>3, <1>5 DEF Body
<1>7. mail[m].body.step \in Step /\ mail[m].body.step # NoStep
  BY <1>2, WorkflowAssumption DEF PlainBody, WorkflowAssumption
<1>8. UNCHANGED <<exec, hist, outside, budget>>
  BY DEF Receive
<1>9. worker'[c].pc \in {"end", "loop", "http", "rerun", "read"}
      /\ (worker'[c].pc # "end" <=> T[mail[m].body.step] # "End")
      /\ (worker'[c].pc = "http" => IsTrigger(mail[m].body))
  BY <1>5, <1>7 DEF Dispatch, IsTrigger
<1>10. IsTrigger(mail[m].body) => ~exec'[1].logged
  BY <1>1, <1>2, <1>8 DEF StrandInv, TriggerOnce
<1>11. PlainPlace(c)'
  BY <1>6, <1>9, <1>10 DEF PlainPlace
<1>12. Carried'
  BY <1>9 DEF Carried, Working
<1>13. \A x \in Consumer : PlainPlace(x)'
  BY <1>11
<1>14. \A d \in {} : PlainBody(d) /\ ~IsTrigger(d)
  OBVIOUS
<1> QED
  BY <1>4, <1>8, <1>12, <1>13, <1>14, SameExec, StrandStep

LEMMA EndExecutionStrand ==
  ASSUME NEW D, Inv(D), StrandInv, NEW c, Consumer = {c}, EndExecution(c)
  PROVE  StrandInv'
<1>1. ~At(c, "idle") /\ c \in Consumer /\ UNCHANGED <<mail, outside, budget>>
  BY DEF EndExecution, At
<1>2. Body(c).exec = 1 /\ Body(c).parent = None
  BY <1>1, Known DEF PlainBody
<1>3. PICK r : r = [exec[1] EXCEPT !.status = "Finished"]
  OBVIOUS
<1>4. exec' = [exec EXCEPT ![1] = r]
  BY <1>2, <1>3 DEF EndExecution
<1>5. r.logged = exec[1].logged /\ r.status = "Finished"
  BY <1>3, WorkflowAssumption DEF WorkflowAssumption, Inv, ExecOK
<1>6. Goto(c, "return") /\ T[Body(c).step] = "End"
  <2>1. At(c, "end") /\ Goto(c, IF Body(c).parent = None THEN "return" ELSE "resume")
    BY DEF EndExecution
  <2>2. PlainPlace(c)
    BY <1>1, Known
  <2> QED
    BY <1>2, <2>1, <2>2 DEF PlainPlace, At
<1>7. worker'[c].pc = "return" /\ worker'[c].msg = worker[c].msg
  BY <1>1, <1>6, Known, GotoAt DEF Goto, HandlerField
<1>8. PlainPlace(c)'
  BY <1>7 DEF PlainPlace
<1>9. Carried'
  BY <1>1, <1>6, <1>7 DEF Carried, Working, Body
<1> QED
  BY <1>1, <1>4, <1>5, <1>8, <1>9, OwnExec, QuietStrand

LEMMA LoopBackStrand ==
  ASSUME NEW D, Inv(D), StrandInv, NEW c, Consumer = {c}, LoopBack(c)
  PROVE  StrandInv'
<1>1. ~At(c, "idle") /\ c \in Consumer /\ UNCHANGED <<exec, hist, outside>>
      /\ Goto(c, "return")
  BY DEF LoopBack, At
<1>2. PICK b : b = Body(c)
  OBVIOUS
<1>3. PlainBody(b) /\ LoopsAgain(b) /\ b = [f \in DetailField |-> b[f]] /\ b.loop \in Loop
  BY <1>1, <1>2, Known, Handling DEF Fits, LoopBack, At, Body, LoopsAgain, Sound, IsDetail
<1>4. PICK l : l = NextTurn(b.loop)
  OBVIOUS
<1>5. l.first = b.loop.first
  BY <1>3, <1>4 DEF NextTurn, Loop
<1>6. PICK d : d = [b EXCEPT !.step = b.loop.first, !.loop = l]
  OBVIOUS
<1>7. /\ d.step = b.loop.first /\ d.loop = l /\ d.exec = b.exec /\ d.parent = b.parent
      /\ d.http = b.http /\ d.ext = b.ext /\ d.wsxh = b.wsxh /\ d.rerun = b.rerun
  BY <1>3, <1>6 DEF DetailField
<1>8. PlainBody(d) /\ ~IsTrigger(d)
  <2>1. ~b.ext /\ ~b.http
    BY <1>3 DEF PlainBody, LoopsAgain
  <2> QED
    BY <1>3, <1>5, <1>7, <2>1 DEF PlainBody, LoopsAgain, IsTrigger
<1>9. PutEvents({d})
  BY <1>2, <1>4, <1>6 DEF LoopBack
<1>10. QueueStep({d}) /\ budget' = budget /\ Pending'
  BY <1>9, FS_Singleton, PutQueued DEF Inv, StrandInv
<1>11. worker'[c].pc = "return"
  BY <1>1, GotoAt
<1>12. \A x \in Consumer : PlainPlace(x)'
  BY <1>11 DEF PlainPlace
<1>13. Carried'
  BY <1>10 DEF Carried
<1>14. \A x \in {d} : PlainBody(x) /\ ~IsTrigger(x)
  BY <1>8
<1> QED
  BY <1>1, <1>10, <1>12, <1>13, <1>14, SameExec, StrandStep

LEMMA LogTriggerStrand ==
  ASSUME NEW D, Inv(D), StrandInv, NEW c, Consumer = {c}, LogTrigger(c)
  PROVE  StrandInv'
<1>1. ~At(c, "idle") /\ c \in Consumer /\ UNCHANGED <<mail, outside, budget, hist>>
      /\ Goto(c, "read") /\ At(c, "http")
  BY DEF LogTrigger, At
<1>2. /\ PlainPlace(c) /\ Body(c).exec = 1 /\ worker[c].msg \in Used
      /\ mail[worker[c].msg].state = "handled"
  BY <1>1, Known DEF PlainBody
<1>3. worker'[c].pc = "read" /\ worker'[c].msg = worker[c].msg
  BY <1>1, Known, GotoAt DEF Goto, HandlerField
<1>4. Body(c)' = Body(c)
  BY <1>1, <1>3 DEF Body
<1>5. PlainPlace(c)'
  BY <1>1, <1>2, <1>3, <1>4 DEF PlainPlace, At
<1>6. \A m \in Used : IsTrigger(mail[m].body) => mail[m].state # "queued"
  <2>1. IsTrigger(mail[worker[c].msg].body)
    BY <1>1, <1>2 DEF PlainPlace, At, Body
  <2> QED
    BY <1>2, <2>1 DEF StrandInv, TriggerOnce
<1>7. \A e \in Exec \ {1} : exec'[e].status = "none"
  BY <1>2 DEF LogTrigger, StrandInv, Untouched, Inv, ExecOK
<1>8. Carried'
  BY <1>3 DEF Carried, Working
<1> QED
  BY <1>1, <1>5, <1>6, <1>7, <1>8, QuietStrand

LEMMA ReadExecutionStrand ==
  ASSUME NEW D, Inv(D), StrandInv, NEW c, Consumer = {c}, ReadExecution(c)
  PROVE  StrandInv'
<1>1. ~At(c, "idle") /\ c \in Consumer /\ UNCHANGED <<mail, outside, budget, exec>>
      /\ At(c, "read")
  BY DEF ReadExecution, At
<1>2. PlainPlace(c) /\ Body(c).exec = 1 /\ worker[c].msg \in Used /\ PlainBody(Body(c))
  BY <1>1, Known DEF PlainBody
<1>3. CASE exec[1].status = "Pause"
  <2>1. Goto(c, "return") /\ hist' = Record(Receipt(c), "Pause")
    BY <1>2, <1>3 DEF ReadExecution
  <2>2. worker'[c].pc = "return"
    BY <1>1, <2>1, GotoAt
  <2>3. PICK k : k = Receipt(c)
    OBVIOUS
  <2>4. k \in DOMAIN hist' /\ hist'[k] = "Pause" /\ k[1] = worker[c].msg
    BY <2>1, <2>3, Recorded DEF Receipt
  <2>5. Movable'
    BY <1>1, <1>2, <2>4, QueueStill, MadeMovable DEF Body
  <2>6. Carried' /\ PlainPlace(c)'
    BY <2>2, <2>5 DEF Carried, PlainPlace
  <2> QED
    BY <1>1, <2>6, SameExec, QuietStrand
<1>4. CASE exec[1].status # "Pause"
  <2>1. Goto(c, "claim")
    BY <1>2, <1>4 DEF ReadExecution
  <2>2. worker'[c].pc = "claim" /\ worker'[c].msg = worker[c].msg
    BY <1>1, <2>1, Known, GotoAt DEF Goto, HandlerField
  <2>3. Body(c)' = Body(c)
    BY <1>1, <2>2 DEF Body
  <2>4. Carried' /\ PlainPlace(c)'
    BY <1>1, <1>2, <2>2, <2>3 DEF Carried, PlainPlace, Working, At
  <2> QED
    BY <1>1, <2>4, SameExec, QuietStrand
<1> QED
  BY <1>3, <1>4

-------------------------------------------------------------------------------
(* Opening and running the step *)

LEMMA OpenStrand ==
  ASSUME OpenEnded, NEW D, Inv(D), StrandInv, NEW c, Consumer = {c},
         ClaimStep(c) \/ ReopenStep(c)
  PROVE  StrandInv'
<1>1. ~At(c, "idle") /\ c \in Consumer /\ UNCHANGED <<mail, outside, budget, exec>>
      /\ worker[c].pc \in {"claim", "rerun"}
  BY DEF ClaimStep, ReopenStep, At
<1>2. PICK b : b = Body(c)
  OBVIOUS
<1>3. PlainPlace(c) /\ PlainBody(b)
  BY <1>1, <1>2, Known
<1>4. PICK k : /\ Open(c, k)
               /\ AsksItself(b) => k = Receipt(c) /\ hist' = Record(k, "Started")
  <2>1. CASE ClaimStep(c)
    BY <1>2, <1>3, <2>1 DEF ClaimStep, PlainBody, AsksItself
  <2>2. CASE ReopenStep(c)
    <3>1. b.rerun
      BY <1>1, <1>2, <2>2, Known DEF ReopenStep, Fits, Body, At
    <3> QED
      BY <1>2, <1>3, <2>2, <3>1 DEF ReopenStep, PlainBody, AsksItself
  <2> QED
    BY <2>1, <2>2
<1>5. worker'[c].pc = Begin(b) /\ worker'[c].msg = worker[c].msg /\ worker'[c].key = k
  BY <1>1, <1>2, <1>4, Known DEF Open, HandlerField
<1>6. Body(c)' = b /\ Receipt(c)' = Receipt(c)
  BY <1>1, <1>2, <1>5 DEF Body, Receipt
<1>7. /\ worker'[c].pc \in {"external", "parallel", "perform"}
      /\ worker'[c].pc = "external" => T[b.step] = "External"
  BY <1>5 DEF Begin
<1>8. AsksItself(b) => k = Receipt(c) /\ k \in DOMAIN hist' /\ hist'[k] = "Started"
  BY <1>4, Recorded
<1>9. T[b.step] # "End"
  BY <1>1, <1>2, <1>3 DEF PlainPlace
<1>10. PlainPlace(c)'
  BY <1>5, <1>6, <1>7, <1>8, <1>9 DEF PlainPlace
<1>11. Carried'
  BY <1>7 DEF Carried, Working
<1> QED
  BY <1>1, <1>10, <1>11, SameExec, QuietStrand

LEMMA AskExternalStrand ==
  ASSUME NEW D, Inv(D), StrandInv, NEW c, Consumer = {c}, AskExternal(c)
  PROVE  StrandInv'
<1>1. ~At(c, "idle") /\ c \in Consumer /\ UNCHANGED <<mail, hist, exec>>
      /\ At(c, "external") /\ Goto(c, "return")
  BY DEF AskExternal, At
<1>2. PICK b : b = Body(c)
  OBVIOUS
<1>3. PlainPlace(c) /\ PlainBody(b) /\ b = [f \in DetailField |-> b[f]]
  BY <1>1, <1>2, Known, Handling DEF Sound, IsDetail
<1>4. T[b.step] = "External"
  BY <1>1, <1>2, <1>3 DEF PlainPlace, At
<1>5. PICK k, r : k = worker[c].key /\ r = Receipt(c)
  OBVIOUS
<1>6. PICK d : d = [b EXCEPT !.wsxh = k, !.ext = TRUE, !.by = r]
  OBVIOUS
<1>7. /\ d.step = b.step /\ d.exec = b.exec /\ d.parent = b.parent /\ d.loop = b.loop
      /\ d.ext /\ d.http = b.http
  BY <1>3, <1>6 DEF DetailField
<1>8. PlainBody(d) /\ ~IsTrigger(d)
  BY <1>3, <1>4, <1>7 DEF PlainBody, IsTrigger
<1>9. ~(budget.losses > 0)
  BY DEF StrandInv, Untouched
<1>10. outside' = outside \union {d} /\ budget' = budget
  BY <1>2, <1>5, <1>6, <1>9 DEF AskExternal
<1>11. worker'[c].pc = "return"
  BY <1>1, GotoAt
<1>12. \A x \in Consumer : PlainPlace(x)'
  BY <1>11 DEF PlainPlace
<1>13. Carried'
  BY <1>10 DEF Carried, Pending
<1>14. QueueStep({d})
  BY <1>1 DEF QueueStep, Used
<1>15. \A x \in {d} : PlainBody(x) /\ ~IsTrigger(x)
  BY <1>8
<1> QED
  BY <1>1, <1>10, <1>12, <1>13, <1>14, <1>15, SameExec, StrandStep

LEMMA ForkStrand ==
  ASSUME NEW D, Inv(D), StrandInv, NEW c, Consumer = {c}, ForkBranches(c)
  PROVE  StrandInv'
<1>1. ~At(c, "idle") /\ c \in Consumer /\ UNCHANGED <<mail, outside, budget, hist>>
      /\ Here(c) = "Parallel Start"
  BY DEF ForkBranches, At
<1>2. Body(c).exec = 1
  BY <1>1, Known DEF PlainBody
<1>3. worker'[c].pc = "perform" /\ worker'[c].msg = worker[c].msg
  BY <1>1, Known DEF ForkBranches, HandlerField
<1>4. Body(c)' = Body(c)
  BY <1>1, <1>3 DEF Body
<1>5. PlainPlace(c)'
  BY <1>1, <1>3, <1>4 DEF PlainPlace, Here, AsksItself
<1>6. Carried'
  BY <1>3 DEF Carried, Working
<1>7. PICK P : exec' = [exec EXCEPT ![1].parallel = P]
  BY <1>2 DEF ForkBranches
<1>8. PICK r : r = [exec[1] EXCEPT !.parallel = P]
  OBVIOUS
<1>9. exec' = [exec EXCEPT ![1] = r] /\ r.logged = exec[1].logged
  BY <1>7, <1>8, WorkflowAssumption, ZenonT(60) DEF WorkflowAssumption, Inv, ExecOK
<1> QED
  BY <1>1, <1>5, <1>6, <1>9, OwnExec, QuietStrand

\* Where a step that performed goes on to.
LEMMA PlainRoute ==
  ASSUME OpenEnded, NEW b, b.step \in Step, NEW ok
  PROVE  /\ Route(b, ok) \in {"error", "ask", "delay", "emit"}
         /\ Route(b, ok) = "ask" => AsksItself(b)
         /\ Route(b, ok) = "delay" => T[b.step] = "Delay"
BY DEF Route, OpenEnded, AsksItself

\* It has steps to go on with.
LEMMA PlainChoices ==
  ASSUME OpenEnded, NEW b, b.step \in Step, T[b.step] # "End",
         b.decision \in {"none", "approve", "reject"}, NEW n \in NextChoices(b)
  PROVE  /\ n \in Seq(Step) \ {<< >>}
         /\ T[b.step] = "Web Service" => n = NAID[b.step]
<1>1. NAID[b.step] \in Seq(Step) \ {<< >>}
  BY WorkflowAssumption DEF WorkflowAssumption, OpenEnded
<1>2. CASE T[b.step] = "Condition"
  <2>1. PICK s \in ToSet(NAID[b.step]) : n = <<s>>
    BY <1>2 DEF NextChoices
  <2>2. s \in Step
    BY <1>1, <2>1 DEF ToSet
  <2> QED
    BY <1>2, <2>1, <2>2
<1>3. CASE T[b.step] = "Manual Approval" /\ b.decision # "none"
  <2>1. PICK x : x = OnDecision[b.step][b.decision]
    OBVIOUS
  <2>2. n = <<x>> /\ x \in Step
    BY <1>3, <2>1 DEF NextChoices, OpenEnded
  <2>3. <<x>> \in Seq(Step) /\ <<x>> # << >>
    BY <2>2
  <2> QED
    BY <1>3, <2>2, <2>3
<1>4. CASE T[b.step] # "Condition" /\ ~(T[b.step] = "Manual Approval" /\ b.decision # "none")
  BY <1>1, <1>4 DEF NextChoices
<1> QED
  BY <1>2, <1>3, <1>4

LEMMA PerformStrand ==
  ASSUME OpenEnded, NEW D, Inv(D), StrandInv, NEW c, Consumer = {c}, Perform(c)
  PROVE  StrandInv'
<1>1. ~At(c, "idle") /\ c \in Consumer /\ UNCHANGED <<mail, outside, budget, hist>>
      /\ At(c, "perform")
  BY DEF Perform, At
<1>2. PICK b : b = Body(c)
  OBVIOUS
<1>3. PlainBody(b) /\ PlainPlace(c) /\ b.decision \in {"none", "approve", "reject"}
  BY <1>1, <1>2, Known, Handling DEF Sound, IsDetail
<1>4. T[b.step] # "End" /\ b.step \in Step
  BY <1>1, <1>2, <1>3 DEF PlainPlace, PlainBody, At
<1>5. PICK ok \in BOOLEAN, n \in NextChoices(b) :
        worker' = [worker EXCEPT ![c] = [@ EXCEPT !.pc = Route(b, ok), !.next = n]]
  <2>1. PICK ok \in BOOLEAN, n \in NextChoices(Body(c)) :
          worker' = [worker EXCEPT ![c] =
            [@ EXCEPT !.pc = Route(Body(c), ok), !.next = n]]
    BY DEF Perform
  <2>2. NextChoices(b) = NextChoices(Body(c)) /\ Route(b, ok) = Route(Body(c), ok)
    BY <1>2
  <2> QED
    BY <2>1, <2>2
<1>6. /\ worker'[c].pc = Route(b, ok) /\ worker'[c].next = n
      /\ worker'[c].msg = worker[c].msg /\ worker'[c].key = worker[c].key
  BY <1>1, <1>5, Known DEF HandlerField
<1>7. Body(c)' = b /\ Receipt(c)' = Receipt(c)
  BY <1>1, <1>2, <1>6 DEF Body, Receipt
<1>8. /\ worker'[c].pc \in {"error", "ask", "delay", "emit"}
      /\ worker'[c].pc = "ask" => AsksItself(b)
      /\ worker'[c].pc = "delay" => T[b.step] = "Delay"
  BY <1>4, <1>6, PlainRoute
<1>9. n \in Seq(Step) \ {<< >>} /\ (T[b.step] = "Web Service" => n = NAID[b.step])
  BY <1>3, <1>4, <1>5, PlainChoices
<1>10. AsksItself(b) => /\ worker'[c].key = Receipt(c)' /\ worker'[c].key \in DOMAIN hist'
                        /\ hist'[worker'[c].key] = "Started"
  BY <1>1, <1>2, <1>3, <1>6, <1>7 DEF PlainPlace, At
<1>11. PlainPlace(c)'
  BY <1>4, <1>6, <1>7, <1>8, <1>9, <1>10 DEF PlainPlace
<1>12. Carried'
  BY <1>8 DEF Carried, Working
<1>13. PICK S : exec' = [exec EXCEPT ![1].ste = S]
  BY <1>2, <1>3 DEF Perform, PlainBody
<1>14. PICK r : r = [exec[1] EXCEPT !.ste = S]
  OBVIOUS
<1>15. exec' = [exec EXCEPT ![1] = r] /\ r.logged = exec[1].logged
  BY <1>13, <1>14, WorkflowAssumption, ZenonT(60) DEF WorkflowAssumption, Inv, ExecOK
<1> QED
  BY <1>1, <1>11, <1>12, <1>15, OwnExec, QuietStrand

-------------------------------------------------------------------------------
(* After the activity *)

LEMMA MarkErrorStrand ==
  ASSUME NEW D, Inv(D), StrandInv, NEW c, Consumer = {c}, MarkError(c)
  PROVE  StrandInv'
<1>1. ~At(c, "idle") /\ c \in Consumer /\ UNCHANGED <<mail, outside, budget, exec>>
      /\ At(c, "error") /\ Goto(c, "onError")
  BY DEF MarkError, At
<1>2. PlainPlace(c)
  BY <1>1, Known
<1>3. /\ worker'[c].pc = "onError" /\ worker'[c].msg = worker[c].msg
      /\ worker'[c].key = worker[c].key /\ worker'[c].next = worker[c].next
  BY <1>1, Known, GotoAt DEF Goto, HandlerField
<1>4. Body(c)' = Body(c)
  BY <1>1, <1>3 DEF Body
<1>5. worker[c].key \in DOMAIN hist' /\ hist'[worker[c].key] = "Error"
  BY Recorded DEF MarkError
<1>6. PlainPlace(c)'
  BY <1>1, <1>2, <1>3, <1>4, <1>5 DEF PlainPlace, At
<1>7. Carried'
  BY <1>3 DEF Carried, Working
<1> QED
  BY <1>1, <1>6, <1>7, SameExec, QuietStrand

LEMMA StopStrand ==
  ASSUME NEW D, Inv(D), StrandInv, NEW c, Consumer = {c}, StopExecution(c)
  PROVE  StrandInv'
<1>1. ~At(c, "idle") /\ c \in Consumer /\ UNCHANGED <<mail, hist, outside, budget>>
      /\ At(c, "onError") /\ Goto(c, "return")
  BY DEF StopExecution, At
<1>2. Body(c).exec = 1 /\ PlainPlace(c)
  BY <1>1, Known DEF PlainBody
<1>3. PICK r : r = [exec[1] EXCEPT !.status = "Error"]
  OBVIOUS
<1>4. exec' = [exec EXCEPT ![1] = r]
  BY <1>2, <1>3 DEF StopExecution
<1>5. r.logged = exec[1].logged /\ r.status = "Error"
  BY <1>3, WorkflowAssumption DEF WorkflowAssumption, Inv, ExecOK
<1>6. worker'[c].pc = "return"
  BY <1>1, GotoAt
<1>7. worker[c].key \in DOMAIN hist /\ hist[worker[c].key] = "Error"
  BY <1>1, <1>2 DEF PlainPlace, At
<1>8. Movable
  BY <1>7 DEF Movable, Actionable, Inv, HistInv, UsedKey, Key, Used, StrandInv, PlainBodies,
              PlainBody
<1>9. PlainPlace(c)' /\ Carried'
  BY <1>1, <1>6, <1>8, QueueStill, MovableKept DEF PlainPlace, Carried
<1> QED
  BY <1>1, <1>4, <1>5, <1>9, OwnExec, QuietStrand

\* An entry is a plain message of a step that was chosen.
LEMMA PlainEntry ==
  ASSUME NEW D, Inv(D), StrandInv, NEW c \in Consumer, ~At(c, "idle"), NEW s \in Step
  PROVE  /\ Entry(c, s).step = s
         /\ PlainBody(Entry(c, s)) /\ ~IsTrigger(Entry(c, s))
         /\ Entry(c, s) = [f \in DetailField |-> Entry(c, s)[f]]
<1>1. PICK b : b = Body(c)
  OBVIOUS
<1>2. PlainBody(b)
  BY <1>1, Known
<1>3. PICK l : l = IF Here(c) = "Start Loop"
                   THEN [max |-> NLoop[b.step], current |-> 1, first |-> s] ELSE b.loop
  OBVIOUS
<1>4. l # None => l.first \in Step
  BY <1>2, <1>3 DEF PlainBody
<1>5. PICK i, j : i = worker[c].idx /\ j = worker[c].idxs
  OBVIOUS
<1>6. PICK d : d = Entry(c, s)
  OBVIOUS
<1>7. d = [Detail(s, b.exec) EXCEPT !.idx = i, !.idxs = j, !.parent = b.parent, !.loop = l]
  BY <1>1, <1>3, <1>5, <1>6 DEF Entry
<1>8. /\ d.step = s /\ d.exec = b.exec /\ d.parent = b.parent /\ d.loop = l
      /\ d.http = FALSE /\ d.ext = FALSE /\ d.rerun = FALSE /\ d.wsxh = None
      /\ d = [f \in DetailField |-> d[f]]
  BY <1>7 DEF Detail, DetailField
<1>9. PlainBody(d) /\ ~IsTrigger(d)
  BY <1>2, <1>4, <1>8 DEF PlainBody, IsTrigger
<1> QED
  BY <1>6, <1>8, <1>9

\* The messages of the next steps, when there are some.
LEMMA PlainEntries ==
  ASSUME NEW D, Inv(D), StrandInv, NEW c \in Consumer, ~At(c, "idle"),
         worker[c].pc \in Chosen, worker[c].next \in Seq(Step) \ {<< >>}
  PROVE  /\ IsFiniteSet(Entries(c))
         /\ \A d \in Entries(c) : PlainBody(d) /\ ~IsTrigger(d)
         /\ \A s \in ToSet(worker[c].next) : \E d \in Entries(c) : d.step = s
<1>1. IsFiniteSet(Entries(c))
  BY EntriesSound
<1>2. \A s \in ToSet(worker[c].next) : s \in Step
  BY DEF ToSet
<1>3. \A s \in ToSet(worker[c].next) :
        /\ PlainBody(Entry(c, s)) /\ ~IsTrigger(Entry(c, s))
        /\ Entry(c, s).step = s
  BY <1>2, PlainEntry
<1> QED
  BY <1>1, <1>3 DEF Entries

LEMMA ContinueStrand ==
  ASSUME NEW D, Inv(D), StrandInv, NEW c, Consumer = {c}, ContinueAfterError(c)
  PROVE  StrandInv'
<1>1. ~At(c, "idle") /\ c \in Consumer /\ UNCHANGED <<exec, hist, outside>>
      /\ At(c, "onError") /\ Goto(c, "return")
  BY DEF ContinueAfterError, At
<1>2. PlainPlace(c) /\ Fits(worker[c])
  BY <1>1, Known
<1>3. worker[c].pc \in Chosen /\ worker[c].next \in Seq(Step) \ {<< >>}
  BY <1>1, <1>2 DEF PlainPlace, At, Chosen
<1>4. PICK S \in SUBSET Entries(c) : PutEvents(S)
  BY DEF ContinueAfterError
<1>5. IsFiniteSet(S) /\ \A d \in S : PlainBody(d) /\ ~IsTrigger(d)
  BY <1>1, <1>3, <1>4, PlainEntries, FS_Subset
<1>6. QueueStep(S) /\ budget' = budget
  BY <1>4, <1>5, PutQueued DEF Inv, StrandInv
<1>7. PICK k : k = worker[c].key
  OBVIOUS
<1>8. k \in DOMAIN hist' /\ hist'[k] = "Error"
  BY <1>1, <1>2, <1>7 DEF PlainPlace, At
<1>9. k[1] \in Used /\ PlainBody(mail[k[1]].body)
  BY <1>1, <1>8 DEF Inv, HistInv, UsedKey, Key, Used, StrandInv, PlainBodies
<1>10. Movable'
  BY <1>6, <1>8, <1>9, MadeMovable
<1>11. worker'[c].pc = "return"
  BY <1>1, GotoAt
<1>12. \A x \in Consumer : PlainPlace(x)'
  BY <1>11 DEF PlainPlace
<1>13. Carried'
  BY <1>10 DEF Carried
<1> QED
  BY <1>1, <1>5, <1>6, <1>12, <1>13, SameExec, StrandStep

LEMMA AskApprovalStrand ==
  ASSUME OpenEnded, NEW D, Inv(D), StrandInv, NEW c, Consumer = {c}, AskApproval(c)
  PROVE  StrandInv'
<1>0. ~At(c, "idle") /\ c \in Consumer /\ At(c, "ask")
  BY DEF AskApproval, At
<1>2. PlainPlace(c) /\ PlainBody(Body(c)) /\ worker[c].msg \in Used
  BY <1>0, Known
<1>1. ~At(c, "idle") /\ c \in Consumer /\ UNCHANGED <<mail, exec, hist, outside, budget>>
      /\ At(c, "ask") /\ Goto(c, "return")
  BY <1>0, <1>2 DEF AskApproval, At, PlainPlace, AsksItself, OpenEnded
<1>3. PICK k : k = worker[c].key
  OBVIOUS
<1>4. /\ k = Receipt(c) /\ k \in DOMAIN hist' /\ hist'[k] = "Started"
      /\ T[Body(c).step] = "Manual Approval"
  BY <1>1, <1>2, <1>3 DEF PlainPlace, At, AsksItself
<1>5. k[1] = worker[c].msg
  BY <1>4 DEF Receipt
<1>6. Movable'
  BY <1>1, <1>2, <1>4, <1>5, QueueStill, MadeMovable DEF Body
<1>7. worker'[c].pc = "return"
  BY <1>1, GotoAt
<1>8. PlainPlace(c)' /\ Carried'
  BY <1>6, <1>7 DEF PlainPlace, Carried
<1> QED
  BY <1>1, <1>8, SameExec, QuietStrand

LEMMA ScheduleStrand ==
  ASSUME OpenEnded, NEW D, Inv(D), StrandInv, NEW c, Consumer = {c}, Schedule(c)
  PROVE  StrandInv'
<1>1. ~At(c, "idle") /\ c \in Consumer /\ UNCHANGED <<mail, exec, hist>>
      /\ At(c, "delay") /\ Goto(c, "close")
  BY DEF Schedule, At
<1>2. PlainPlace(c)
  BY <1>1, Known
<1>3. PICK n : n = worker[c].next
  OBVIOUS
<1>4. n \in Seq(Step) \ {<< >>}
  BY <1>1, <1>2, <1>3 DEF PlainPlace, At
<1>5. PICK s : s = Last(n)
  OBVIOUS
<1>6. s \in Step
  BY <1>4, <1>5 DEF Last
<1>7. PICK r : r = Receipt(c)
  OBVIOUS
<1>8. PICK a : a = Entry(c, s)
  OBVIOUS
<1>9. PlainBody(a) /\ ~IsTrigger(a) /\ a = [f \in DetailField |-> a[f]]
  BY <1>1, <1>6, <1>8, PlainEntry
<1>10. PICK d : d = [a EXCEPT !.by = r]
  OBVIOUS
<1>11. /\ d.step = a.step /\ d.exec = a.exec /\ d.parent = a.parent /\ d.loop = a.loop
       /\ d.http = a.http /\ d.ext = a.ext /\ d.wsxh = a.wsxh /\ d.rerun = a.rerun
       /\ d.decision = a.decision
  BY <1>9, <1>10 DEF DetailField
<1>12. PlainBody(d) /\ ~IsTrigger(d)
  BY <1>9, <1>11 DEF PlainBody, IsTrigger
<1>13. ~(budget.losses > 0)
  BY DEF StrandInv, Untouched
<1>14. PICK last : last = {[Entry(c, t) EXCEPT !.by = Receipt(c)] :
                      t \in IF worker[c].next = << >> THEN {} ELSE {Last(worker[c].next)}}
  OBVIOUS
<1>15. last = {d}
  BY <1>3, <1>4, <1>5, <1>7, <1>8, <1>10, <1>14
<1>16. /\ \E same : outside' = IF last = {} THEN outside ELSE (outside \ same) \union last
       /\ budget' = budget
  <2>1. Body(c).step \notin Fragile
    BY <1>1, <1>2 DEF PlainPlace, At, OpenEnded
  <2> QED
    BY <1>13, <1>14, <2>1 DEF Schedule
<1>17. outside' \subseteq outside \union {d} /\ d \in outside'
  BY <1>15, <1>16
<1>18. worker'[c].pc = "close"
  BY <1>1, GotoAt
<1>19. Pending'
  BY <1>17 DEF Pending
<1>20. T[Body(c).step] # "End"
  BY <1>1, <1>2 DEF PlainPlace, At
<1>21. worker'[c].msg = worker[c].msg
  BY <1>1, Known DEF Goto, HandlerField
<1>22. Body(c)' = Body(c)
  BY <1>1, <1>21 DEF Body
<1>23. \A x \in Consumer : PlainPlace(x)'
  BY <1>18, <1>19, <1>20, <1>22 DEF PlainPlace
<1>24. Carried'
  BY <1>19 DEF Carried
<1>25. QueueStep({d})
  BY <1>1 DEF QueueStep, Used
<1>26. \A x \in {d} : PlainBody(x) /\ ~IsTrigger(x)
  BY <1>12
<1> QED
  BY <1>1, <1>16, <1>17, <1>23, <1>24, <1>25, <1>26, SameExec, StrandStep

LEMMA EmitNextStrand ==
  ASSUME OpenEnded, NEW D, Inv(D), StrandInv, NEW c, Consumer = {c}, EmitNext(c)
  PROVE  StrandInv'
<1>1. ~At(c, "idle") /\ c \in Consumer /\ UNCHANGED <<exec, hist, outside>>
      /\ At(c, "emit") /\ Goto(c, "close")
  BY DEF EmitNext, At
<1>2. PICK b : b = Body(c)
  OBVIOUS
<1>3. PlainPlace(c) /\ b.step \in Step
  BY <1>1, <1>2, Known DEF PlainBody
<1>4. worker[c].pc \in Chosen /\ worker[c].next \in Seq(Step) \ {<< >>}
  BY <1>1, <1>3 DEF PlainPlace, At, Chosen
<1>5. PICK S : S = {d \in Entries(c) :
          (T[b.step] = "Web Service" /\ ErrorAction[b.step] = "EXIT-PATH")
            => d.step # DefaultNext[b.step]}
  OBVIOUS
<1>6. PutEvents(S)
  BY <1>2, <1>5 DEF EmitNext
<1>7. IsFiniteSet(S) /\ \A d \in S : PlainBody(d) /\ ~IsTrigger(d)
  BY <1>1, <1>4, <1>5, PlainEntries, FS_Subset
<1>8. S # {}
  <2>1. CASE T[b.step] = "Web Service" /\ ErrorAction[b.step] = "EXIT-PATH"
    <3>1. worker[c].next = NAID[b.step]
      BY <1>1, <1>2, <1>3, <2>1 DEF PlainPlace, At
    <3>2. PICK s \in ToSet(worker[c].next) : s # DefaultNext[b.step]
      BY <1>3, <2>1, <3>1 DEF OpenEnded
    <3>3. PICK d \in Entries(c) : d.step = s
      BY <1>1, <1>4, PlainEntries
    <3> QED
      BY <1>5, <3>2, <3>3
  <2>2. CASE ~(T[b.step] = "Web Service" /\ ErrorAction[b.step] = "EXIT-PATH")
    <3>1. PICK s : s \in ToSet(worker[c].next)
      <4>1. 1 \in DOMAIN worker[c].next
        BY <1>4
      <4> QED
        BY <4>1 DEF ToSet
    <3>2. PICK d \in Entries(c) : d.step = s
      BY <1>1, <1>4, <3>1, PlainEntries
    <3> QED
      BY <1>5, <2>2, <3>2
  <2> QED
    BY <2>1, <2>2
<1>9. QueueStep(S) /\ budget' = budget /\ Pending'
  BY <1>6, <1>7, <1>8, PutQueued DEF Inv, StrandInv
<1>10. worker'[c].pc = "close" /\ worker'[c].msg = worker[c].msg
  BY <1>1, Known, GotoAt DEF Goto, HandlerField
<1>11. Body(c)' = b
  BY <1>1, <1>2, <1>9, <1>10, BodySame
<1>12. T[b.step] # "End"
  BY <1>1, <1>2, <1>3 DEF PlainPlace, At
<1>13. \A x \in Consumer : PlainPlace(x)'
  BY <1>9, <1>10, <1>11, <1>12 DEF PlainPlace
<1>14. Carried'
  BY <1>9 DEF Carried
<1> QED
  BY <1>1, <1>7, <1>9, <1>13, <1>14, SameExec, StrandStep

LEMMA CloseStrand ==
  ASSUME NEW D, Inv(D), StrandInv, NEW c, Consumer = {c}, CloseStep(c)
  PROVE  StrandInv'
<1>1. ~At(c, "idle") /\ c \in Consumer /\ UNCHANGED <<mail, exec, outside, budget>>
      /\ At(c, "close") /\ Goto(c, "return")
  BY DEF CloseStep, At
<1>2. Pending
  BY <1>1, Known DEF PlainPlace, At
<1>3. Pending'
  BY <1>1, <1>2 DEF Pending
<1>4. worker'[c].pc = "return"
  BY <1>1, GotoAt
<1>5. PlainPlace(c)' /\ Carried'
  BY <1>3, <1>4 DEF PlainPlace, Carried
<1> QED
  BY <1>1, <1>5, SameExec, QuietStrand

LEMMA ReturnStrand ==
  ASSUME NEW D, Inv(D), StrandInv, NEW c, Consumer = {c}, Return(c)
  PROVE  StrandInv'
<1>1. ~At(c, "idle") /\ c \in Consumer /\ UNCHANGED <<exec, hist, outside, budget>>
      /\ At(c, "return")
  BY DEF Return, At
<1>2. PICK m : m = worker[c].msg
  OBVIOUS
<1>3. m \in Used /\ m \in Msg /\ mail[m].state = "handled"
  BY <1>1, <1>2, Known
<1>4. /\ \A x \in Msg \ {m} : mail'[x] = mail[x]
      /\ mail'[m].state = "done" /\ mail'[m].body = mail[m].body
  BY <1>2, <1>3 DEF Return, Inv, MailInv, MailField
<1>5. QueueStep({})
  BY <1>3, <1>4 DEF QueueStep, Used
<1>6. worker'[c] = Resting
  BY <1>1 DEF Return, Inv, WorkerInv
<1>7. worker'[c].pc = "idle"
  BY <1>6 DEF Resting
<1>8. \A x \in Consumer : PlainPlace(x)'
  BY <1>7 DEF PlainPlace
<1>9. Carried'
  <2>1. CASE Working(c)
    <3>1. T[mail[m].body.step] = "End" /\ PlainBody(mail[m].body)
      BY <1>1, <1>2, <1>3, <2>1 DEF Working, At, Body, StrandInv, PlainBodies
    <3> QED
      BY <1>3, <1>4, <3>1 DEF Carried, Reached, PlainBody
  <2>2. CASE Reached(1)
    BY <1>5, <2>2, ReachedKept DEF Carried
  <2>3. CASE Pending
    BY <1>1, <1>3, <1>4, <2>3 DEF Pending, Carried
  <2>4. CASE Movable
    BY <1>1, <1>5, <2>4, MovableKept DEF Carried
  <2> QED
    BY <2>1, <2>2, <2>3, <2>4 DEF StrandInv, Carried
<1>10. \A d \in {} : PlainBody(d) /\ ~IsTrigger(d)
  OBVIOUS
<1> QED
  BY <1>1, <1>5, <1>8, <1>9, <1>10, SameExec, StrandStep

\* What does not happen to a plain message when nothing fails.
LEMMA NeverStrand ==
  ASSUME OpenEnded, NEW D, Inv(D), StrandInv, NEW c, Consumer = {c}
  PROVE  /\ ~FinishParent(c) /\ ~ResumeParent(c) /\ ~CreateChild(c) /\ ~SendChild(c)
         /\ ~JoinBranches(c) /\ ~EmitJoined(c) /\ ~ArriveBranch(c)
         /\ ~TriggerFails(c) /\ ~ConditionFails(c) /\ ~Fault(c)
         /\ MustThrow(c) => At(c, "perform") /\ Body(c).step \in Fragile
<1>1. PlainPlace(c) /\ c \in Consumer
  BY SMTT(60) DEF StrandInv
<1>2. ~FinishParent(c) /\ ~ResumeParent(c) /\ ~CreateChild(c) /\ ~SendChild(c)
      /\ ~JoinBranches(c) /\ ~EmitJoined(c)
  BY <1>1 DEF PlainPlace, At, FinishParent, ResumeParent, CreateChild, SendChild,
              JoinBranches, EmitJoined
<1>3. ~At(c, "idle") => Here(c) # "Parallel End"
  <2>1. SUFFICES ASSUME ~At(c, "idle") PROVE Here(c) # "Parallel End"
    OBVIOUS
  <2>2. Body(c).step \in Step
    BY <1>1, <2>1, Known DEF PlainBody
  <2> QED
    BY <2>2 DEF OpenEnded, Here
<1>4. ~ArriveBranch(c)
  BY <1>3 DEF ArriveBranch, At
<1>5. At(c, "http") => ~exec[Body(c).exec].logged
  <2>1. SUFFICES ASSUME At(c, "http") PROVE ~exec[Body(c).exec].logged
    OBVIOUS
  <2>2. ~At(c, "idle")
    BY <2>1 DEF At
  <2>3. Body(c).exec = 1
    BY <1>1, <2>2, Known DEF PlainBody
  <2> QED
    BY <1>1, <2>1, <2>3 DEF PlainPlace, At
<1>6. MustThrow(c) => At(c, "perform") /\ Body(c).step \in Fragile
  BY <1>1, <1>3, <1>5 DEF MustThrow, At, PlainPlace, AsksItself, OpenEnded
<1>7. ~(budget.throws > 0) /\ ~(budget.crashes > 0)
  BY DEF StrandInv, Untouched
<1>8. ~Fault(c)
  BY <1>7 DEF Fault, Throw, Crash
<1>9. ~TriggerFails(c)
  <2>1. ~At(c, "idle") => PlainBody(Body(c))
    BY <1>1, Known
  <2> QED
    BY <2>1 DEF TriggerFails, At, PlainBody
<1>10. ~ConditionFails(c)
  BY DEF ConditionFails, Here, OpenEnded
<1> QED
  BY <1>2, <1>4, <1>6, <1>8, <1>9, <1>10

\* A step whose content throws is marked, so that a user can run it again.
LEMMA MustThrowStrand ==
  ASSUME OpenEnded, NEW D, Inv(D), StrandInv, NEW c, Consumer = {c}, MustThrow(c)
  PROVE  StrandInv'
<1>1. /\ ~At(c, "idle") /\ c \in Consumer /\ UNCHANGED <<exec, outside, budget>>
      /\ At(c, "perform") /\ Body(c).step \in Fragile
  BY NeverStrand DEF MustThrow, Rethrow, At
<1>2. PICK m, k : m = worker[c].msg /\ k = worker[c].key
  BY SMTT(60)
<1>3. m \in Used /\ m \in Msg /\ mail[m].state = "handled" /\ PlainBody(mail[m].body)
      /\ ~mail[m].body.http /\ UsedKey(k)
  BY <1>1, <1>2, Known DEF Fits, At, InsideTry, PlainBody, Body
<1>4. /\ \A x \in Msg \ {m} : mail'[x] = mail[x]
      /\ mail'[m].state = "queued" /\ mail'[m].body = mail[m].body
  <2>1. mail = [x \in Msg |-> mail[x]] /\ mail[m] = [x \in MailField |-> mail[m][x]]
    BY <1>3 DEF Inv, MailInv
  <2>2. mail' = [mail EXCEPT ![m].state = "queued"]
    BY <1>2 DEF MustThrow, Rethrow
  <2> QED
    BY <1>3, <2>1, <2>2 DEF MailField
<1>5. QueueStep({})
  BY <1>3, <1>4 DEF QueueStep, Used, IsTrigger
<1>6. hist' = Record(k, "Error")
  BY <1>1, <1>2 DEF MustThrow, Rethrow, At, InsideTry
<1>7. k \in DOMAIN hist' /\ hist'[k] = "Error"
  BY <1>6, Recorded
<1>8. Movable'
  BY <1>3, <1>5, <1>7, MadeMovable DEF UsedKey, Key, Used, StrandInv, PlainBodies
<1>9. worker'[c] = Resting
  BY <1>1 DEF MustThrow, Rethrow, Inv, WorkerInv
<1>10. worker'[c].pc = "idle"
  BY <1>9 DEF Resting
<1>11. \A x \in Consumer : PlainPlace(x)'
  BY <1>10 DEF PlainPlace
<1>12. \A d \in {} : PlainBody(d) /\ ~IsTrigger(d)
  OBVIOUS
<1> QED
  BY <1>1, <1>5, <1>8, <1>11, <1>12, SameExec, StrandStep DEF Carried

-------------------------------------------------------------------------------
(* The world, and the theorem *)

\* The handler stays where it is while a message arrives.
LEMMA ArrivalStrand ==
  ASSUME NEW D, Inv(D), StrandInv, NEW c, Consumer = {c},
         UNCHANGED <<exec, hist, worker>>, budget' = budget \/ UserCall,
         NEW d, PlainBody(d), ~IsTrigger(d), mail' = Deliver({d}),
         Cardinality(Used) < Cardinality(Msg), outside' \subseteq outside
  PROVE  StrandInv'
<1>1. IsFiniteSet({d}) /\ Cardinality({d}) = 1
  BY FS_Singleton
<1>2. QueueStep({d}) /\ \A m \in Used : mail'[m] = mail[m]
  BY <1>1, QueueDelivered DEF Inv
<1>3. Cardinality(Used) + Cardinality({d}) <= Cardinality(Msg)
  <2>1. PICK n \in Nat : Used = 1 .. n
    BY DEF Inv, MailInv
  <2>2. Cardinality(Used) = n
    BY <2>1, FS_Interval
  <2> QED
    BY <1>1, <2>2, MsgFacts
<1>4. Pending'
  BY <1>1, <1>3, DeliverSome DEF Inv
<1>5. PlainPlace(c)
  BY DEF StrandInv
<1>6. PlainPlace(c)'
  <2>1. CASE At(c, "idle")
    BY <2>1 DEF PlainPlace, At
  <2>2. CASE ~At(c, "idle")
    <3>1. worker[c].msg \in Used
      BY <2>2, Known
    <3>2. Body(c)' = Body(c) /\ Receipt(c)' = Receipt(c)
      BY <1>2, <3>1 DEF Body, Receipt
    <3> QED
      BY <1>4, <1>5, <3>2 DEF PlainPlace
  <2> QED
    BY <2>1, <2>2
<1>7. Carried'
  BY <1>4 DEF Carried
<1>8. \A x \in Consumer : PlainPlace(x)'
  BY <1>6
<1>9. \A x \in {d} : PlainBody(x) /\ ~IsTrigger(x)
  OBVIOUS
<1>10. outside' \subseteq outside \union {d}
  OBVIOUS
<1> QED
  BY <1>2, <1>7, <1>8, <1>9, <1>10, SameExec, StrandStep

LEMMA AnswerStrand ==
  ASSUME NEW D, Inv(D), StrandInv, NEW c, Consumer = {c}, NEW b \in outside, Answer(b)
  PROVE  StrandInv'
<1>1. PlainBody(b) /\ ~IsTrigger(b)
  BY DEF StrandInv, PlainBodies, TriggerOnce
<1> QED
  BY <1>1, ArrivalStrand DEF Answer

LEMMA InitiateStrand ==
  ASSUME NEW D, Inv(D), StrandInv, NEW c, Consumer = {c},
         UNCHANGED <<exec, hist, worker, outside>>, UserCall,
         NEW k \in DOMAIN hist, NEW rerun \in BOOLEAN, NEW decision,
         T[mail[k[1]].body.step] = "Manual Approval" => decision # "none",
         Initiate(k, rerun, decision)
  PROVE  StrandInv'
<1>1. PICK b : b = mail[k[1]].body
  OBVIOUS
<1>2. PlainBody(b)
  BY <1>1 DEF Inv, HistInv, UsedKey, Key, Used, StrandInv, PlainBodies
<1>3. PICK d : d = [Detail(b.step, b.exec) EXCEPT
                      !.wsxh = k, !.rerun = rerun, !.decision = decision]
  OBVIOUS
<1>4. /\ d.step = b.step /\ d.exec = b.exec /\ d.loop = None /\ d.parent = None
      /\ d.decision = decision /\ d.http = FALSE /\ d.ext = FALSE
  BY <1>3 DEF Detail
<1>5. PlainBody(d) /\ ~IsTrigger(d)
  BY <1>1, <1>2, <1>4 DEF PlainBody, IsTrigger
<1>6. mail' = Deliver({d}) /\ Cardinality(Used) < Cardinality(Msg)
  BY <1>1, <1>3 DEF Initiate
<1> QED
  BY <1>5, <1>6, ArrivalStrand

\* An exhausted message was pending no more.
LEMMA RedriveStrand ==
  ASSUME NEW D, Inv(D), StrandInv, NEW c, Consumer = {c}, NEW m \in Msg, Redrive(m)
  PROVE  StrandInv'
<1>1. UNCHANGED <<exec, hist, worker, outside, budget>>
  BY DEF Redrive
<1>2. /\ \A x \in Msg \ {m} : mail'[x] = mail[x]
      /\ mail'[m].state = "dead" /\ mail'[m].body = mail[m].body
      /\ mail[m].state = "queued" /\ ~(mail[m].receives < MaxReceive)
  <2>1. /\ mail = [x \in Msg |-> mail[x]]
        /\ mail[m] = [f \in MailField |-> mail[m][f]]
    BY DEF Inv, MailInv
  <2>2. mail[m].state = "queued" /\ mail[m].receives = MaxReceive
    BY DEF Redrive
  <2>3. mail' = [mail EXCEPT ![m].state = "dead"]
    BY DEF Redrive
  <2>4. ~(mail[m].receives < MaxReceive)
    BY <2>2, ReceivesOnce
  <2> QED
    BY <2>1, <2>2, <2>3, <2>4 DEF MailField
<1>3. QueueStep({})
  BY <1>2 DEF QueueStep, Used
<1>4. Pending => Pending'
  BY <1>1, <1>2 DEF Pending
<1>5. Reached(1) => Reached(1)'
  BY <1>3, ReachedKept
<1>6. Movable => Movable'
  BY <1>1, <1>3, MovableKept
<1>7. ~At(c, "idle") => worker[c].msg \in Msg /\ worker[c].msg # m
  BY <1>2, Known
<1>8. ~At(c, "idle") => mail'[worker[c].msg] = mail[worker[c].msg]
  BY <1>2, <1>7
<1>9. ~At(c, "idle") => Body(c)' = Body(c) /\ Receipt(c)' = Receipt(c)
  BY <1>1, <1>8 DEF Body, Receipt
<1>10. Working(c) => Working(c)'
  BY <1>1, <1>9 DEF Working, At
<1>11. Carried'
  BY <1>4, <1>5, <1>6, <1>10 DEF StrandInv, Carried
<1>12. PlainPlace(c)'
  <2>1. CASE At(c, "idle")
    BY <1>1, <2>1 DEF PlainPlace, At
  <2>2. CASE ~At(c, "idle")
    <3>1. PlainPlace(c)
      BY <1>2 DEF StrandInv
    <3>2. worker' = worker /\ hist' = hist /\ exec' = exec
      BY <1>1
    <3> QED
      BY <1>4, <1>9, <2>2, <3>1, <3>2 DEF PlainPlace
  <2> QED
    BY <2>1, <2>2
<1>13. \A x \in Consumer : PlainPlace(x)'
  BY <1>12
<1>14. \A d \in {} : PlainBody(d) /\ ~IsTrigger(d)
  OBVIOUS
<1> QED
  BY <1>1, <1>3, <1>11, <1>13, <1>14, SameExec, StrandStep

\* The handler and the queue stay.
LEMMA StillStrand ==
  ASSUME NEW D, Inv(D), StrandInv, NEW c, Consumer = {c},
         UNCHANGED <<mail, hist, worker, outside>>, budget' = budget \/ UserCall,
         \A e \in Exec \ {1} : exec'[e].status = "none",
         exec'[1].logged = exec[1].logged
  PROVE  StrandInv'
<1>1. QueueStep({})
  BY QueueStill
<1>2. \A d \in {} : PlainBody(d) /\ ~IsTrigger(d)
  OBVIOUS
<1>3. \A x \in Consumer : PlainPlace(x)'
  BY ZenonT(60) DEF StrandInv, PlainPlace, Body, Receipt, Pending
<1>4. Carried'
  BY DEF StrandInv, Carried, Reached, Pending, Movable, Actionable, Working, Body
<1> QED
  BY <1>1, <1>2, <1>3, <1>4, StrandStep

LEMMA UserStrand ==
  ASSUME NEW D, Inv(D), StrandInv, NEW c, Consumer = {c}, User
  PROVE  StrandInv'
<1>1. ASSUME NEW k \in DOMAIN hist, Rerun(k)
      PROVE  StrandInv'
  <2>1. PICK d : d = IF T[mail[k[1]].body.step] = "Manual Approval"
                     THEN "reject" ELSE "none"
    OBVIOUS
  <2>2. T[mail[k[1]].body.step] = "Manual Approval" => d # "none"
    BY <2>1
  <2>3. Initiate(k, TRUE, d)
    BY <1>1, <2>1 DEF Rerun
  <2> QED
    BY <1>1, <2>2, <2>3, InitiateStrand DEF Rerun
<1>2. ASSUME NEW k \in DOMAIN hist, NEW d \in {"approve", "reject"}, Decide(k, d)
      PROVE  StrandInv'
  BY <1>2, InitiateStrand DEF Decide
<1>3. ASSUME NEW e \in Exec, NEW s \in {"Running", "Pause"}, SetStatus(e, s)
      PROVE  StrandInv'
  <2>1. e = 1
    BY <1>3 DEF SetStatus, StrandInv, Untouched
  <2>2. PICK r : r = [exec[1] EXCEPT !.status = s]
    OBVIOUS
  <2>3. exec' = [exec EXCEPT ![1] = r]
    BY <1>3, <2>1, <2>2 DEF SetStatus
  <2>4. r.logged = exec[1].logged
    BY <1>3, <2>1, <2>2 DEF Inv, ExecOK
  <2> QED
    BY <1>3, <2>3, <2>4, OwnExec, StillStrand DEF SetStatus
<1> QED
  BY <1>1, <1>2, <1>3 DEF User

\* SetToSeq lists each member once.
LEMMA SetToSeqInjective ==
  ASSUME NEW S, IsFiniteSet(S)
  PROVE  IsInjective(SetToSeq(S))
<1>1. ExistsBijection(1 .. Cardinality(S), S)
  BY FS_CardinalityType
<1>2. \E f \in [1 .. Cardinality(S) -> S] : IsInjective(f)
  BY <1>1 DEF ExistsBijection, Bijection, Injection
<1> QED
  BY <1>2 DEF SetToSeq

LEMMA InitStrand ==
  ASSUME OpenEnded, NoFaults, NEW c, Consumer = {c}, Init
  PROVE  StrandInv
<1>1. PICK D : D = FirstDetails(First, 1, None)
  OBVIOUS
<1> DEFINE q == SetToSeq(D)
           k == Len(q)
<1>2. First \in Seq(Step) /\ First # << >> /\ Len(First) <= Cardinality(Msg)
  <2>1. First \in Seq(Step) /\ Len(First) <= Cardinality(Msg)
    BY WorkflowAssumption DEF WorkflowAssumption
  <2> QED
    BY <2>1 DEF OpenEnded
<1>3. PICK g : g = [i \in DOMAIN First |->
                      [Detail(First[i], 1) EXCEPT !.http = (i = 1), !.parent = None]]
  OBVIOUS
<1>4. D = {g[i] : i \in DOMAIN First} /\ g = [i \in DOMAIN First |-> g[i]]
  BY <1>1, <1>3 DEF FirstDetails
<1>5. IsFiniteSet(D)
  BY <1>2, <1>4, SeqImageFinite
<1>6. \A i \in DOMAIN First :
        /\ g[i].step = First[i] /\ g[i].exec = 1 /\ g[i].parent = None
        /\ g[i].loop = None /\ g[i].wsxh = None /\ g[i].rerun = FALSE
        /\ g[i].http = (i = 1) /\ g[i].ext = FALSE
  BY <1>3 DEF Detail
<1>7. \A d \in D : PlainBody(d) /\ (IsTrigger(d) => d = g[1])
  <2> TAKE d \in D
  <2>1. PICK i \in DOMAIN First : d = g[i]
    BY <1>4
  <2>2. First[i] \in Step /\ First[1] \notin Fragile
    <3>1. First[i] \in Step
      BY <1>2, <2>1
    <3> QED
      BY <3>1, Zenon DEF OpenEnded
  <2>3. /\ d.step \in Step /\ d.exec = 1 /\ d.parent = None /\ d.loop = None
        /\ d.wsxh = None /\ d.rerun = FALSE /\ d.http = (i = 1) /\ d.ext = FALSE
        /\ d.step = First[i]
    BY <1>6, <2>1, <2>2
  <2>4. PlainBody(d)
    BY <2>2, <2>3 DEF PlainBody
  <2>5. IsTrigger(d) => d = g[1]
    BY <2>1, <2>3 DEF IsTrigger
  <2> QED
    BY <2>4, <2>5
<1>8. k \in Nat /\ k = Cardinality(D) /\ q \in [1 .. k -> D]
  BY <1>5, SetToSeqType
<1>9. IsInjective(q)
  BY <1>5, SetToSeqInjective
<1>10. k # 0
  <2>1. g[1] \in D
    BY <1>2, <1>4
  <2> QED
    BY <1>5, <1>8, <2>1, FS_EmptySet
<1> HIDE DEF q, k
<1>11. mail = [m \in Msg |-> IF m <= k
                THEN [state |-> "queued", receives |-> 0, body |-> q[m]] ELSE Unsent]
  BY <1>1 DEF Init, q, k
<1>12. \A m \in Msg : /\ m \in Nat \ {0}
                      /\ m \in Used <=> m \in 1 .. k
                      /\ m \in Used => mail[m].body = q[m] /\ q[m] \in D
                      /\ mail[m].state \in {"unsent", "queued"} /\ mail[m].receives = 0
  <2> TAKE m \in Msg
  <2>1. m \in Nat \ {0}
    BY MsgFacts
  <2>2. mail[m] = IF m <= k
          THEN [state |-> "queued", receives |-> 0, body |-> q[m]] ELSE Unsent
    BY <1>11
  <2> QED
    BY <1>8, <2>1, <2>2 DEF Used, Unsent
<1>13. outside = {} /\ budget = Budget /\ hist = << >>
       /\ worker = [x \in Consumer |-> Resting]
  BY DEF Init
<1>14. PlainBodies
  BY <1>7, <1>12, <1>13 DEF PlainBodies, Used
<1>15. exec[1].logged = FALSE /\ \A e \in Exec \ {1} : exec[e].status = "none"
  <2>1. 1 \in Exec
    BY WorkflowAssumption DEF WorkflowAssumption
  <2>2. exec = [e \in Exec |-> IF e = 1 THEN NewExec ELSE [NewExec EXCEPT !.status = "none"]]
    BY DEF Init
  <2> QED
    BY <2>1, <2>2 DEF NewExec
<1>16. TriggerOnce
  <2>1. \A m, n \in Used : IsTrigger(mail[m].body) /\ IsTrigger(mail[n].body) => m = n
    <3> SUFFICES ASSUME NEW m \in Used, NEW n \in Used,
                        IsTrigger(mail[m].body), IsTrigger(mail[n].body)
                 PROVE  m = n
      OBVIOUS
    <3>1. m \in 1 .. k /\ n \in 1 .. k /\ q[m] = g[1] /\ q[n] = g[1]
      BY <1>7, <1>12 DEF Used
    <3> QED
      BY <1>8, <1>9, <3>1 DEF IsInjective
  <2> QED
    BY <1>13, <1>15, <2>1 DEF TriggerOnce
<1>17. Untouched
  <2>1. Budget \in [throws: Nat, crashes: Nat, losses: Nat, users: Nat]
    BY WorkflowAssumption DEF WorkflowAssumption
  <2> QED
    BY <1>12, <1>13, <1>15, <2>1 DEF Untouched, NoFaults
<1>18. \A x \in Consumer : PlainPlace(x)
  <2>1. \A x \in Consumer : worker[x].pc = "idle"
    BY <1>13 DEF Resting
  <2> QED
    BY <2>1 DEF PlainPlace
<1>19. Pending
  <2>1. 1 \in Msg
    <3>1. Len(First) \in Nat /\ Len(First) # 0
      BY <1>2
    <3> QED
      BY <1>2, <3>1, MsgFacts
  <2>2. mail[1].state = "queued" /\ mail[1].receives = 0
    BY <1>8, <1>10, <1>11, <2>1
  <2> QED
    BY <2>1, <2>2, ReceivesOnce DEF Pending
<1> QED
  BY <1>14, <1>16, <1>17, <1>18, <1>19 DEF StrandInv, Carried

LEMMA NextStrand ==
  ASSUME OpenEnded, NEW c, Consumer = {c}, IInv, StrandInv, [Next]_vars
  PROVE  StrandInv'
<1>1. PICK D : Inv(D)
  BY DEF IInv
<1>2. CASE \E x \in Consumer : Receive(x) \/ Handle(x) \/ Fault(x)
  <2>1. Receive(c) \/ Handle(c) \/ Fault(c)
    BY <1>2
  <2> QED
    BY <1>1, <2>1, NeverStrand, ReceiveStrand, EndExecutionStrand, LoopBackStrand,
       LogTriggerStrand, ReadExecutionStrand, OpenStrand, AskExternalStrand, ForkStrand,
       PerformStrand, MarkErrorStrand, StopStrand, ContinueStrand, AskApprovalStrand,
       ScheduleStrand, EmitNextStrand, CloseStrand, ReturnStrand, MustThrowStrand DEF Handle
<1>3. CASE \E m \in Msg : Redrive(m)
  BY <1>1, <1>3, RedriveStrand
<1>4. CASE \E b \in outside : Answer(b)
  BY <1>1, <1>4, AnswerStrand
<1>5. CASE User
  BY <1>1, <1>5, UserStrand
<1>6. CASE AllSettled \/ UNCHANGED vars
  BY <1>1, <1>6, SameExec, StillStrand DEF AllSettled, vars
<1> QED
  BY <1>2, <1>3, <1>4, <1>5, <1>6 DEF Next

LEMMA StrandNever ==
  ASSUME StrandInv
  PROVE  NeverStranded
<1> SUFFICES ASSUME Quiescent, outside = {}, NEW e \in Exec,
                    exec[e].status # "none", ~Reached(e)
             PROVE  \E k \in DOMAIN hist : mail[k[1]].body.exec = e /\ Actionable(k)
  BY DEF NeverStranded
<1>1. e = 1
  BY DEF StrandInv, Untouched
<1>2. ~Pending
  BY DEF Pending, Quiescent
<1>3. \A c \in Consumer : ~Working(c)
  BY DEF Quiescent, Working, At
<1> QED
  BY <1>1, <1>2, <1>3 DEF StrandInv, Carried, Movable

\* With one consumer and no transient faults, in every workflow without
\* sub-workflows and joins whose steps lead somewhere: whatever Web Services and
\* Actions throw at every receipt, and however users pause, resume, approve and
\* run again, an execution at rest before its end has a step that is paused,
\* failed or waits for an approval (handleMessage, initiatAWorkflowStep).
THEOREM AlwaysMovable ==
  ASSUME OpenEnded, NoFaults, NEW c, Consumer = {c}
  PROVE  Spec => []NeverStranded
<1>1. Init => IInv /\ StrandInv
  BY InitInv, InitStrand
<1>2. IInv /\ StrandInv /\ [Next]_vars => (IInv /\ StrandInv)'
  BY NextInv, NextStrand
<1>3. StrandInv => NeverStranded
  BY StrandNever
<1> QED
  BY <1>1, <1>2, <1>3, PTL DEF Spec

-------------------------------------------------------------------------------
(* What a message says: who sent it, and what it carries on                   *)
(*                                                                            *)
(* Three invariants speak of every message there is, sent, held outside or    *)
(* carried by another: L gathers them, and a step adds to L what its handler  *)
(* makes of the message it works on.                                          *)

Gathers(L) ==
  /\ outside \subseteq L
  /\ \A m \in Used : mail[m].body \in L
  /\ \A d \in L : d.parent # None => d.parent.next \subseteq L

\* The turn a message of next step s is in.
TurnOf(c, s) ==
  IF Here(c) = "Start Loop"
  THEN [max |-> NLoop[Body(c).step], current |-> 1, first |-> s]
  ELSE Body(c).loop

SameRun(c, d) == d.exec = Body(c).exec /\ d.parent = Body(c).parent

\* What handler c sends: a next step, another turn, a child's first step; what
\* it hands to a service; and what a user sends.
GoesOn(c, d) ==
  SameRun(c, d) /\ d.wsxh = None
  /\ \E s \in ToSet(worker[c].next) : d.step = s /\ d.loop = TurnOf(c, s)

TurnsBack(c, d) ==
  /\ SameRun(c, d) /\ d.wsxh = Body(c).wsxh
  /\ d.step = Body(c).loop.first /\ d.loop = NextTurn(Body(c).loop)

Spawns(c, d) ==
  /\ d.step \in ToSet(SubFirst[Body(c).step]) /\ d.exec = worker[c].child
  /\ d.wsxh = None /\ d.loop = None
  /\ d.parent # None => d.parent.key = worker[c].key /\ d.parent.next = Entries(c)

HandsOver(c, d) ==
  SameRun(c, d) /\ d.wsxh = worker[c].key /\ d.step = Body(c).step /\ d.loop = Body(c).loop

CalledFor(d) ==
  /\ budget.users > 0 /\ d.loop = None /\ d.parent = None
  /\ \E k \in DOMAIN hist : /\ d.step = mail[k[1]].body.step /\ d.exec = mail[k[1]].body.exec
                            /\ d.wsxh = k

\* A message that a step puts in the queue.
Arrives(d) == \E m \in Msg \ Used : mail'[m].state # "unsent" /\ mail'[m].body = d

\* Where the handlers emit.
Emitting == {"onError", "joined", "emit"}

\* Handler c is done with its message.
Leaves(c) == worker'[c].pc = "return" /\ worker'[c].msg = worker[c].msg

SentBy(d) ==
  \/ CalledFor(d)
  \/ \E c \in Consumer :
       \/ At(c, "loop") /\ TurnsBack(c, d)
       \/ At(c, "sendChild") /\ Spawns(c, d) /\ Leaves(c)
       \/ worker[c].pc \in Emitting /\ GoesOn(c, d)

\* A message that a step adds to those there are.
IsNew(d) ==
  \/ Arrives(d) /\ SentBy(d)
  \/ \E c \in Consumer :
       \/ At(c, "external") /\ HandsOver(c, d)
       \/ worker[c].pc \in {"delay", "sendChild"} /\ GoesOn(c, d)

\* The fields of a next step's message that are not its scopes.
LEMMA EntryFields ==
  ASSUME NEW c, NEW s
  PROVE  /\ Entry(c, s).step = s /\ Entry(c, s).loop = TurnOf(c, s)
         /\ SameRun(c, Entry(c, s)) /\ Entry(c, s).wsxh = None
<1>1. PICK l : l = TurnOf(c, s)
  OBVIOUS
<1>2. Entry(c, s) = [Detail(s, Body(c).exec) EXCEPT !.idx = worker[c].idx,
                       !.idxs = worker[c].idxs, !.parent = Body(c).parent, !.loop = l]
  BY <1>1 DEF Entry, TurnOf
<1> QED
  BY <1>1, <1>2 DEF Detail, SameRun

LEMMA EntriesGoOn ==
  ASSUME NEW c
  PROVE  \A d \in Entries(c) : GoesOn(c, d)
BY EntryFields DEF Entries, GoesOn

LEMMA ArrivesFrom ==
  ASSUME NEW S, MailGrows(S), NEW d, Arrives(d)
  PROVE  d \in S
BY DEF MailGrows, Arrives

\* A handler's PutEvents, one action after the other.
LEMMA EmitArrives ==
  ASSUME NEW D, Inv(D), NEW c \in Consumer,
         EmitNext(c) \/ ContinueAfterError(c) \/ EmitJoined(c), NEW d, Arrives(d)
  PROVE  SentBy(d)
<1>1. worker[c].pc \in Chosen /\ worker[c].pc \in Emitting
  BY DEF EmitNext, ContinueAfterError, EmitJoined, At, Chosen, Emitting
<1>2. /\ IsFiniteSet(Entries(c))
      /\ \A x \in Entries(c) : x = [f \in DetailField |-> x[f]] /\ GoesOn(c, x)
  BY <1>1, EntriesSound, EntriesGoOn
<1>3. GoesOn(c, d)
  <2>1. CASE EmitNext(c) \/ ContinueAfterError(c)
    <3>1. PICK S : S \subseteq Entries(c) /\ PutEvents(S)
      BY <2>1 DEF EmitNext, ContinueAfterError
    <3>2. IsFiniteSet(S)
      BY <1>2, <3>1, FS_Subset
    <3>3. MailGrows(S)
      BY <3>1, <3>2, PutEventsGrows DEF Inv
    <3>4. d \in S
      BY <3>3, ArrivesFrom
    <3> QED
      BY <1>2, <3>1, <3>4
  <2>2. CASE EmitJoined(c)
    <3>1. PICK o : o = Enclosing(worker[c].idxs, worker[c].idx)
      OBVIOUS
    <3>2. PICK f : f = [x \in Entries(c) |-> [x EXCEPT !.idxs = o, !.idx = Innermost(o)]]
      OBVIOUS
    <3>3. PICK S : S = {f[x] : x \in Entries(c)}
      OBVIOUS
    <3>4. IsFiniteSet(S)
      <4>1. f = [x \in Entries(c) |-> f[x]]
        BY <3>2
      <4> QED
        BY <1>2, <3>3, <4>1, ImageFinite
    <3>5. S = {[x EXCEPT !.idxs = o, !.idx = Innermost(o)] : x \in Entries(c)}
      BY <3>2, <3>3
    <3>6. PutEvents(S)
      BY <2>2, <3>1, <3>5 DEF EmitJoined
    <3>7. MailGrows(S)
      BY <3>4, <3>6, PutEventsGrows, SMTT(60) DEF Inv
    <3>8. d \in S
      BY <3>7, ArrivesFrom
    <3>9. PICK x \in Entries(c) : d = [x EXCEPT !.idxs = o, !.idx = Innermost(o)]
      BY <3>5, <3>8
    <3>10. x = [f1 \in DetailField |-> x[f1]] /\ GoesOn(c, x)
      BY <1>2
    <3>11. /\ d.step = x.step /\ d.exec = x.exec /\ d.loop = x.loop /\ d.parent = x.parent
           /\ d.wsxh = x.wsxh
      BY <3>9, <3>10 DEF DetailField
    <3> QED
      BY <3>10, <3>11 DEF GoesOn, SameRun
  <2> QED
    BY <2>1, <2>2
<1> QED
  BY <1>1, <1>3 DEF SentBy

LEMMA LoopArrives ==
  ASSUME NEW D, Inv(D), NEW c \in Consumer, LoopBack(c), NEW d, Arrives(d)
  PROVE  SentBy(d)
<1>1. At(c, "loop") /\ Sound(Body(c))
  BY Handling DEF LoopBack, At
<1>2. PICK l : l = NextTurn(Body(c).loop)
  OBVIOUS
<1>3. PICK x : x = [Body(c) EXCEPT !.step = Body(c).loop.first, !.loop = l]
  OBVIOUS
<1>4. PutEvents({x})
  BY <1>2, <1>3 DEF LoopBack
<1>5. MailGrows({x})
  BY <1>4, FS_Singleton, PutEventsGrows DEF Inv
<1>6. d = x
  BY <1>5 DEF MailGrows, Arrives
<1>7. Body(c) = [f \in DetailField |-> Body(c)[f]]
  BY <1>1 DEF Sound, IsDetail
<1>8. TurnsBack(c, d)
  BY <1>2, <1>3, <1>6, <1>7 DEF TurnsBack, SameRun, DetailField
<1> QED
  BY <1>1, <1>8 DEF SentBy

LEMMA ChildArrives ==
  ASSUME NEW D, Inv(D), NEW c \in Consumer, SendChild(c), NEW d, Arrives(d)
  PROVE  SentBy(d)
<1>1. worker[c].pc \in Chosen /\ Fits(worker[c]) /\ At(c, "sendChild")
  BY Handling DEF SendChild, At, Chosen
<1>2. PICK steps : steps = SubFirst[Body(c).step]
  BY SMTT(60)
<1>3. steps \in Seq(Step)
  BY <1>1, <1>2, AtChosen, WorkflowAssumption DEF At, Fits, Body, WorkflowAssumption
<1>4. PICK p : p = [key |-> worker[c].key, next |-> Entries(c)]
  OBVIOUS
<1>5. PICK e : e = worker[c].child
  OBVIOUS
<1>6. PICK g : g = [i \in DOMAIN steps |->
                      [Detail(steps[i], e) EXCEPT !.http = (i = 1), !.parent = p]]
  OBVIOUS
<1>7. PICK S : S = {g[i] : i \in DOMAIN steps}
  OBVIOUS
<1>8. g = [i \in DOMAIN steps |-> g[i]]
  BY <1>6
<1>9. IsFiniteSet(S)
  BY <1>3, <1>7, <1>8, SeqImageFinite
<1>10. S = FirstDetails(steps, e, p)
  BY <1>6, <1>7 DEF FirstDetails
<1>11. PutEvents(S)
  BY <1>2, <1>4, <1>5, <1>10 DEF SendChild
<1>12. MailGrows(S)
  BY <1>9, <1>11, PutEventsGrows DEF Inv
<1>13. d \in S
  BY <1>12, ArrivesFrom, SMTT(60)
<1>14. PICK i \in DOMAIN steps :
         d = [Detail(steps[i], e) EXCEPT !.http = (i = 1), !.parent = p]
  BY <1>6, <1>7, <1>13
<1>15. /\ d.step = steps[i] /\ d.exec = e /\ d.parent = p
       /\ d.wsxh = None /\ d.loop = None
  BY <1>14 DEF Detail
<1>16. d.step \in ToSet(steps)
  BY <1>15 DEF ToSet
<1>17. Spawns(c, d)
  BY <1>2, <1>4, <1>5, <1>15, <1>16 DEF Spawns
<1>18. Leaves(c)
  <2>1. worker = [x \in Consumer |-> worker[x]] /\ worker[c] = [f \in HandlerField |-> worker[c][f]]
    BY DEF Inv, WorkerInv, Fits
  <2> QED
    BY <2>1 DEF SendChild, Goto, Leaves, HandlerField
<1> QED
  BY <1>1, <1>17, <1>18 DEF SentBy

LEMMA ResumedArrives ==
  ASSUME NEW D, Inv(D), NEW c \in Consumer, ResumeParent(c), NEW d, Arrives(d)
  PROVE  At(c, "resumed") /\ Body(c).parent # None /\ d \in Body(c).parent.next
<1>1. At(c, "resumed") /\ Carries(Body(c), D) /\ Fits(worker[c])
  BY Handling, SMTT(60) DEF ResumeParent, At
<1>2. Body(c).parent # None
  BY <1>1 DEF Fits, At, Body
<1>3. IsFiniteSet(Body(c).parent.next)
  BY <1>1, <1>2 DEF Carries
<1>4. MailGrows(Body(c).parent.next)
  BY <1>3, PutEventsGrows DEF ResumeParent, Inv
<1> QED
  BY <1>1, <1>2, <1>4, ArrivesFrom

LEMMA AnswerArrives ==
  ASSUME NEW D, Inv(D), NEW b \in outside, Answer(b), NEW d, Arrives(d)
  PROVE  d \in outside
<1>1. MailGrows({b})
  BY FS_Singleton, DeliverGrows DEF Answer, Inv
<1> QED
  BY <1>1 DEF MailGrows, Arrives

LEMMA UserArrives ==
  ASSUME NEW D, Inv(D), User, NEW d, Arrives(d)
  PROVE  SentBy(d)
<1>1. ASSUME NEW k \in DOMAIN hist, NEW r, NEW v, Initiate(k, r, v), budget.users > 0
      PROVE  SentBy(d)
  <2>1. PICK b : b = mail[k[1]].body
    OBVIOUS
  <2>2. PICK x : x = [Detail(b.step, b.exec) EXCEPT !.wsxh = k, !.rerun = r, !.decision = v]
    OBVIOUS
  <2>3. mail' = Deliver({x})
    BY <1>1, <2>1, <2>2 DEF Initiate
  <2>4. MailGrows({x})
    BY <2>3, FS_Singleton, DeliverGrows DEF Inv
  <2>5. d = x
    BY <2>4 DEF MailGrows, Arrives
  <2>6. d.step = b.step /\ d.exec = b.exec /\ d.wsxh = k /\ d.loop = None /\ d.parent = None
    BY <2>2, <2>5 DEF Detail
  <2> QED
    BY <1>1, <2>1, <2>6 DEF SentBy, CalledFor
<1>2. CASE \E k \in DOMAIN hist : Rerun(k) \/ \E v \in {"approve", "reject"} : Decide(k, v)
  BY <1>1, <1>2 DEF Rerun, Decide, UserCall
<1>3. CASE \E e \in Exec, s \in {"Running", "Pause"} : SetStatus(e, s)
  BY <1>3 DEF SetStatus, Arrives, Used
<1> QED
  BY <1>2, <1>3 DEF User

\* Actions that put nothing in the queue.
LEMMA NothingArrives ==
  ASSUME NEW D, Inv(D), NEW d, Arrives(d)
  PROVE  /\ ~UNCHANGED mail
         /\ \A m \in Used : \A s : mail' # [mail EXCEPT ![m].state = s]
         /\ \A m \in Used : \A s, r : mail' # [mail EXCEPT ![m].state = s, ![m].receives = r]
<1>1. mail = [m \in Msg |-> mail[m]]
  BY DEF Inv, MailInv
<1>2. PICK m \in Msg \ Used : mail'[m].state # "unsent"
  BY SMTT(60) DEF Arrives
<1> QED
  BY <1>1, <1>2 DEF Used

LEMMA HandlerArrives ==
  ASSUME NEW D, Inv(D), NEW c \in Consumer, Receive(c) \/ Handle(c) \/ Fault(c), NEW d, Arrives(d)
  PROVE  \/ SentBy(d)
         \/ At(c, "resumed") /\ Body(c).parent # None /\ d \in Body(c).parent.next
<1>1. mail' # mail
  BY NothingArrives, SMTT(60)
<1>2. ~Receive(c)
  <2>1. ASSUME NEW m \in Msg, mail[m].state = "queued",
               mail' = [mail EXCEPT ![m].state = "handled", ![m].receives = @ + 1]
        PROVE  FALSE
    <3>1. PICK r : r = mail[m].receives + 1
      OBVIOUS
    <3>2. m \in Used /\ mail' = [mail EXCEPT ![m].state = "handled", ![m].receives = r]
      BY <2>1, <3>1 DEF Used
    <3> QED
      BY <3>2, NothingArrives
  <2> QED
    BY <2>1 DEF Receive
<1>3. ~At(c, "idle") => \A s : mail' # [mail EXCEPT ![worker[c].msg].state = s]
  BY NothingArrives, Handling
<1>4. ~Return(c) /\ ~MustThrow(c) /\ ~Throw(c) /\ ~Crash(c) /\ ~TriggerFails(c)
  BY <1>3 DEF Return, MustThrow, Throw, Crash, Rethrow, TriggerFails, At
<1>5. CASE ResumeParent(c)
  BY <1>5, ResumedArrives
<1>6. CASE LoopBack(c) \/ SendChild(c) \/ EmitNext(c) \/ ContinueAfterError(c) \/ EmitJoined(c)
  BY <1>6, LoopArrives, ChildArrives, EmitArrives
<1> QED
  BY <1>1, <1>2, <1>4, <1>5, <1>6
     DEF Handle, Fault, EndExecution, FinishParent, LogTrigger, ReadExecution, ClaimStep,
         ReopenStep, AskExternal, ForkBranches, ArriveBranch, Perform, MarkError, StopExecution,
         CreateChild, AskApproval, Schedule, JoinBranches, CloseStep, ConditionFails

LEMMA StepArrives ==
  ASSUME NEW D, Inv(D), [Next]_vars, NEW d, Arrives(d)
  PROVE  \/ SentBy(d)
         \/ d \in outside
         \/ \E c \in Consumer :
              At(c, "resumed") /\ Body(c).parent # None /\ d \in Body(c).parent.next
<1>1. CASE \E c \in Consumer : Receive(c) \/ Handle(c) \/ Fault(c)
  BY <1>1, HandlerArrives
<1>2. CASE \E m \in Msg : Redrive(m)
  BY <1>2, NothingArrives DEF Redrive, Used
<1>3. CASE \E b \in outside : Answer(b)
  BY <1>3, AnswerArrives
<1>4. CASE User
  BY <1>4, UserArrives
<1>5. CASE UNCHANGED vars
  BY <1>5, NothingArrives DEF vars
<1> QED
  BY <1>1, <1>2, <1>3, <1>4, <1>5 DEF Next, AllSettled

\* What is handed to the world outside.
LEMMA StepHandsOver ==
  ASSUME NEW D, Inv(D), [Next]_vars, NEW b \in outside'
  PROVE  \/ b \in outside
         \/ \E c \in Consumer : \/ At(c, "external") /\ HandsOver(c, b)
                                \/ At(c, "delay") /\ GoesOn(c, b)
<1>1. CASE \E c \in Consumer : AskExternal(c)
  <2>1. PICK c \in Consumer : AskExternal(c)
    BY <1>1
  <2>2. At(c, "external") /\ Sound(Body(c))
    BY <2>1, Handling DEF AskExternal, At
  <2>3. PICK k : k = worker[c].key
    OBVIOUS
  <2>4. PICK r : r = Receipt(c)
    OBVIOUS
  <2>5. b \in outside \/ b = [Body(c) EXCEPT !.wsxh = k, !.ext = TRUE, !.by = r]
    BY <2>1, <2>3, <2>4 DEF AskExternal
  <2>6. Body(c) = [f \in DetailField |-> Body(c)[f]]
    BY <2>2 DEF Sound, IsDetail
  <2>7. b \in outside \/ HandsOver(c, b)
    BY <2>3, <2>5, <2>6 DEF HandsOver, SameRun, DetailField
  <2> QED
    BY <2>2, <2>7
<1>2. CASE \E c \in Consumer : Schedule(c)
  <2>1. PICK c \in Consumer : Schedule(c)
    BY <1>2
  <2>2. At(c, "delay") /\ worker[c].pc \in Chosen
    BY <2>1 DEF Schedule, At, Chosen
  <2>3. PICK r : r = Receipt(c)
    OBVIOUS
  <2>4. \/ b \in outside
        \/ worker[c].next # << >> /\ b = [Entry(c, Last(worker[c].next)) EXCEPT !.by = r]
    BY <2>1, <2>3 DEF Schedule
  <2>5. ASSUME worker[c].next # << >>, b = [Entry(c, Last(worker[c].next)) EXCEPT !.by = r]
        PROVE  GoesOn(c, b)
    <3>1. PICK s : s = Last(worker[c].next)
      OBVIOUS
    <3>2. worker[c].next \in Seq(Step \union {NoStep})
      BY <2>2, AtChosen
    <3>3. s \in ToSet(worker[c].next) /\ s \in Step \union {NoStep}
      BY <2>5, <3>1, <3>2 DEF Last, ToSet
    <3>4. PICK x : x = Entry(c, s)
      OBVIOUS
    <3>5. x = [f \in DetailField |-> x[f]]
      BY <2>2, <3>3, <3>4, EntrySound
    <3>6. x.step = s /\ x.loop = TurnOf(c, s) /\ SameRun(c, x) /\ x.wsxh = None
      BY <3>4, EntryFields
    <3>7. b = [x EXCEPT !.by = r]
      BY <2>5, <3>1, <3>4
    <3>8. /\ b.step = x.step /\ b.loop = x.loop /\ b.exec = x.exec /\ b.parent = x.parent
          /\ b.wsxh = x.wsxh
      BY <3>5, <3>7 DEF DetailField
    <3> QED
      BY <3>3, <3>6, <3>8 DEF GoesOn, SameRun
  <2> QED
    BY <2>2, <2>4, <2>5
<1>3. CASE \E d \in outside : Answer(d)
  BY <1>3 DEF Answer
<1>4. CASE UNCHANGED outside
  BY <1>4
<1> QED
  BY <1>1, <1>2, <1>3, <1>4, ZenonT(60)
     DEF Next, Receive, Handle, Fault, Redrive, User, Rerun, Decide, SetStatus, AllSettled, vars,
         EndExecution, FinishParent, ResumeParent, LoopBack, LogTrigger, ReadExecution, ClaimStep,
         ReopenStep, ForkBranches, ArriveBranch, Perform, MarkError, StopExecution,
         ContinueAfterError, CreateChild, SendChild, AskApproval, JoinBranches, EmitJoined,
         EmitNext, CloseStep, Return, MustThrow, ConditionFails, TriggerFails, Throw, Crash,
         Rethrow

\* Whatever a step does, what was sent stays as it was sent.
BodiesKept == \A m \in Used : mail'[m].state # "unsent" /\ mail'[m].body = mail[m].body

LEMMA DeliverKeepsBodies ==
  ASSUME MailInv, NEW S, mail' = Deliver(S)
  PROVE  BodiesKept /\ \A m \in Used : mail'[m] = mail[m]
<1>1. PICK n \in Nat : Used = 1 .. n
  BY DEF MailInv
<1>2. Cardinality(Used) = n
  BY <1>1, FS_Interval
<1>3. \A m \in Used : m \in Msg /\ ~(m > n)
  BY <1>1 DEF Used
<1>4. PICK k : k = Len(SetToSeq(S))
  OBVIOUS
<1>5. PICK q : q = SetToSeq(S)
  OBVIOUS
<1>6. mail' = [m \in Msg |-> IF m > n /\ m <= n + k
                  THEN [state |-> "queued", receives |-> 0, body |-> q[m - n]]
                  ELSE mail[m]]
  BY <1>2, <1>4, <1>5 DEF Deliver
<1>7. \A m \in Used : mail'[m] = mail[m]
  BY <1>3, <1>6
<1>8. BodiesKept
  BY <1>7 DEF BodiesKept, Used
<1> QED
  BY <1>7, <1>8

LEMMA MarkKeepsBodies ==
  ASSUME MailInv, NEW m \in Used, NEW s, s # "unsent",
         \/ mail' = [mail EXCEPT ![m].state = s]
         \/ \E r : mail' = [mail EXCEPT ![m].state = s, ![m].receives = r]
  PROVE  BodiesKept
<1>1. mail = [x \in Msg |-> mail[x]] /\ mail[m] = [f \in MailField |-> mail[m][f]] /\ m \in Msg
  BY DEF MailInv, Used
<1>2. \A x \in Msg \ {m} : mail'[x] = mail[x]
  BY <1>1
<1>3. mail'[m].state = s /\ mail'[m].body = mail[m].body
  <2>1. CASE mail' = [mail EXCEPT ![m].state = s]
    BY <1>1, <2>1 DEF MailField
  <2>2. ASSUME NEW r, mail' = [mail EXCEPT ![m].state = s, ![m].receives = r]
        PROVE  mail'[m].state = s /\ mail'[m].body = mail[m].body
    BY <1>1, <2>2 DEF MailField
  <2> QED
    BY <2>1, <2>2
<1> QED
  BY <1>2, <1>3 DEF BodiesKept, Used

LEMMA BodiesStay ==
  ASSUME NEW D, Inv(D), [Next]_vars
  PROVE  BodiesKept
<1>1. MailInv
  BY DEF Inv
<1>2. CASE UNCHANGED mail
  BY <1>2 DEF BodiesKept, Used
<1>3. ASSUME NEW S, PutEvents(S)
      PROVE  BodiesKept
  BY <1>1, <1>2, <1>3, DeliverKeepsBodies DEF PutEvents
<1>4. ASSUME NEW c \in Consumer, Receive(c)
      PROVE  BodiesKept
  <2>1. PICK m \in Msg : /\ mail[m].state = "queued"
                         /\ mail' = [mail EXCEPT ![m].state = "handled", ![m].receives = @ + 1]
    BY <1>4 DEF Receive
  <2>2. PICK r : r = mail[m].receives + 1
    OBVIOUS
  <2>3. m \in Used /\ mail' = [mail EXCEPT ![m].state = "handled", ![m].receives = r]
    BY <2>1, <2>2 DEF Used
  <2> QED
    BY <1>1, <2>3, MarkKeepsBodies
<1>5. ASSUME NEW c \in Consumer,
             Return(c) \/ Throw(c) \/ MustThrow(c) \/ Crash(c) \/ TriggerFails(c)
      PROVE  BodiesKept
  <2>1. ~At(c, "idle")
    BY <1>5 DEF Return, Throw, MustThrow, Crash, TriggerFails, At
  <2>2. worker[c].msg \in Used
    BY <2>1, Handling
  <2>3. PICK s \in {"done", "queued"} : mail' = [mail EXCEPT ![worker[c].msg].state = s]
    BY <1>5 DEF Return, Throw, MustThrow, Crash, Rethrow, TriggerFails
  <2> QED
    BY <1>1, <2>2, <2>3, MarkKeepsBodies
<1>6. ASSUME NEW m \in Msg, Redrive(m)
      PROVE  BodiesKept
  <2>1. m \in Used /\ mail' = [mail EXCEPT ![m].state = "dead"]
    BY <1>6 DEF Redrive, Used
  <2> QED
    BY <1>1, <2>1, MarkKeepsBodies
<1>7. CASE \E c \in Consumer : Handle(c) \/ Fault(c)
  BY <1>2, <1>3, <1>5, <1>7, ZenonT(60)
     DEF Handle, Fault, EndExecution, FinishParent, LogTrigger, ReadExecution, ClaimStep,
         ReopenStep, AskExternal, ForkBranches, ArriveBranch, Perform, MarkError, StopExecution,
         CreateChild, AskApproval, Schedule, JoinBranches, CloseStep, ConditionFails,
         ResumeParent, LoopBack, SendChild, EmitNext, ContinueAfterError, EmitJoined
<1>8. CASE (\E b \in outside : Answer(b)) \/ User
  <2>1. UNCHANGED mail \/ \E S : mail' = Deliver(S)
    BY <1>8 DEF Answer, User, Rerun, Decide, SetStatus, Initiate
  <2> QED
    BY <1>1, <1>2, <2>1, DeliverKeepsBodies
<1> QED
  BY <1>2, <1>4, <1>6, <1>7, <1>8 DEF Next, AllSettled, vars

\* One step of the whole: L, and what is new.
LEMMA GatherStep ==
  ASSUME NEW D, Inv(D), NEW L, Gathers(L), [Next]_vars
  PROVE  \E M : Gathers(M)' /\ L \subseteq M /\ \A d \in M : d \in L \/ IsNew(d)
<1>1. BodiesKept
  BY BodiesStay
<1>2. PICK N1 : N1 = {mail'[m].body : m \in {x \in Msg \ Used : mail'[x].state # "unsent"}}
  OBVIOUS
<1>3. PICK N2 : N2 = UNION {Entries(c) : c \in {x \in Consumer : At(x, "sendChild")}}
  OBVIOUS
<1>4. PICK M : M = L \union N1 \union outside' \union N2
  OBVIOUS
<1>5. \A c \in Consumer : ~At(c, "idle") => Body(c) \in L
  BY Handling DEF Gathers, Body
<1>6. \A c \in Consumer : \A d : ~At(c, "idle") /\ SameRun(c, d) /\ d.parent # None => d.parent.next \subseteq L
  BY <1>5 DEF Gathers, SameRun
<1>7. ASSUME NEW d \in N1
      PROVE  d \in L \/ (IsNew(d) /\ (d.parent # None => d.parent.next \subseteq M))
  <2>1. Arrives(d)
    BY <1>2, <1>7 DEF Arrives
  <2>2. CASE d \in outside
    BY <2>2 DEF Gathers
  <2>3. CASE \E c \in Consumer : At(c, "resumed") /\ Body(c).parent # None /\ d \in Body(c).parent.next
    BY <1>5, <2>3 DEF Gathers, At
  <2>4. CASE SentBy(d)
    <3>1. IsNew(d)
      BY <2>1, <2>4 DEF IsNew
    <3>2. CASE CalledFor(d)
      BY <3>1, <3>2 DEF CalledFor
    <3>3. ASSUME NEW c \in Consumer,
                 \/ At(c, "loop") /\ TurnsBack(c, d)
                 \/ worker[c].pc \in Emitting /\ GoesOn(c, d)
          PROVE  d.parent # None => d.parent.next \subseteq M
      BY <1>4, <1>6, <3>3 DEF TurnsBack, GoesOn, At, Emitting
    <3>4. ASSUME NEW c \in Consumer, At(c, "sendChild"), Spawns(c, d)
          PROVE  d.parent # None => d.parent.next \subseteq M
      BY <1>3, <1>4, <3>4 DEF Spawns
    <3> QED
      BY <2>4, <3>1, <3>2, <3>3, <3>4 DEF SentBy
  <2> QED
    BY <2>1, <2>2, <2>3, <2>4, StepArrives
<1>8. ASSUME NEW d \in outside'
      PROVE  d \in L \/ (IsNew(d) /\ (d.parent # None => d.parent.next \subseteq M))
  <2>1. CASE d \in outside
    BY <2>1 DEF Gathers
  <2>2. ASSUME NEW c \in Consumer, \/ At(c, "external") /\ HandsOver(c, d)
                                   \/ At(c, "delay") /\ GoesOn(c, d)
        PROVE  IsNew(d) /\ (d.parent # None => d.parent.next \subseteq M)
    <3>1. IsNew(d)
      BY <2>2 DEF IsNew, At
    <3>2. ~At(c, "idle") /\ SameRun(c, d)
      BY <2>2 DEF At, HandsOver, GoesOn
    <3> QED
      BY <1>4, <1>6, <3>1, <3>2
  <2> QED
    BY <2>1, <2>2, StepHandsOver
<1>9. ASSUME NEW d \in N2
      PROVE  IsNew(d) /\ (d.parent # None => d.parent.next \subseteq M)
  <2>1. PICK c \in Consumer : At(c, "sendChild") /\ d \in Entries(c)
    BY <1>3
  <2>2. GoesOn(c, d) /\ ~At(c, "idle") /\ worker[c].pc \in {"delay", "sendChild"}
    BY <2>1, EntriesGoOn DEF At
  <2>3. IsNew(d)
    BY <2>2 DEF IsNew
  <2> QED
    BY <1>4, <1>6, <2>2, <2>3 DEF GoesOn
<1>10. \A d \in L : d.parent # None => d.parent.next \subseteq M
  BY <1>4 DEF Gathers
<1>11. \A m \in Used' : mail'[m].body \in M
  <2> TAKE m \in Used'
  <2>1. CASE m \in Used
    BY <1>1, <1>4, <2>1 DEF BodiesKept, Gathers
  <2>2. CASE m \notin Used
    BY <1>2, <1>4, <2>2 DEF Used
  <2> QED
    BY <2>1, <2>2
<1>12. Gathers(M)'
  <2>1. outside' \subseteq M
    BY <1>4
  <2>2. \A d \in M : d.parent # None => d.parent.next \subseteq M
    BY <1>4, <1>7, <1>8, <1>9, <1>10
  <2> QED
    BY <1>11, <2>1, <2>2 DEF Gathers
<1>13. \A d \in M : d \in L \/ IsNew(d)
  BY <1>4, <1>7, <1>8, <1>9
<1>14. L \subseteq M
  BY <1>4
<1> QED
  BY <1>12, <1>13, <1>14

-------------------------------------------------------------------------------
(* How a handler moves *)

Hop(p, q) ==
  \/ q = "return"
  \/ q = "close" /\ p \in {"ask", "delay", "join", "joined", "emit"}
  \/ p = "end" /\ q = "resume"
  \/ p = "resume" /\ q = "resumed"
  \/ p = "http" /\ q = "read"
  \/ p = "read" /\ q = "claim"
  \/ p = "parallel" /\ q = "perform"
  \/ p = "error" /\ q = "onError"
  \/ p = "child" /\ q = "sendChild"
  \/ p = "join" /\ q = "joined"

\* The record that a step is opened under.
OpenKey(c) ==
  IF At(c, "claim") /\ Body(c).wsxh = None THEN Receipt(c) ELSE Body(c).wsxh

\* Handler c, at work on its message, becomes v.
MovesTo(c, v) ==
  \/ /\ Hop(worker[c].pc, v.pc)
     /\ v.key = worker[c].key /\ v.next = worker[c].next /\ v.ste = worker[c].ste
  \/ /\ worker[c].pc \in {"claim", "rerun"} /\ v.pc = Begin(Body(c))
     /\ v.key = OpenKey(c) /\ v.ste = exec[Body(c).exec].ste
  \/ /\ At(c, "perform") /\ v.key = worker[c].key /\ v.next \in NextChoices(Body(c))
     /\ \E ok \in BOOLEAN : v.pc = Route(Body(c), ok) /\ (ok \/ Here(c) = "Web Service")
  \/ /\ At(c, "perform") /\ v.key = worker[c].key /\ v.next = <<NoStep>>
     /\ v.pc = "emit" /\ Here(c) = "Condition"

Moves(c, v) ==
  \/ v.pc = "idle"
  \/ At(c, "idle") /\ v.msg \in Used /\ v.pc = Dispatch(mail[v.msg].body)
  \/ ~At(c, "idle") /\ v.msg = worker[c].msg /\ MovesTo(c, v)

LEMMA HopMovesTo ==
  ASSUME NEW c, NEW v, Hop(worker[c].pc, v.pc), v.key = worker[c].key,
         v.next = worker[c].next, v.ste = worker[c].ste
  PROVE  MovesTo(c, v)
BY DEF MovesTo

LEMMA HopMoves ==
  ASSUME NEW D, Inv(D), NEW c \in Consumer, ~At(c, "idle"), NEW p, Goto(c, p), Hop(worker[c].pc, p)
  PROVE  Moves(c, worker'[c]) /\ \A x \in Consumer \ {c} : worker'[x] = worker[x]
<1>1. worker[c] = [f \in HandlerField |-> worker[c][f]] /\ worker = [x \in Consumer |-> worker[x]]
  BY DEF Inv, WorkerInv, Fits
<1>2. PICK v : v = [worker[c] EXCEPT !.pc = p]
  OBVIOUS
<1>3. worker'[c] = v /\ \A x \in Consumer \ {c} : worker'[x] = worker[x]
  BY <1>1, <1>2 DEF Goto
<1>4. v.pc = p /\ v.key = worker[c].key /\ v.next = worker[c].next /\ v.ste = worker[c].ste
      /\ v.msg = worker[c].msg
  BY <1>1, <1>2 DEF HandlerField
<1> QED
  BY <1>3, <1>4 DEF Moves, MovesTo

\* A step of the handler that is more than a change of place.
LEMMA ChangeMoves ==
  ASSUME NEW D, Inv(D), NEW c \in Consumer, ~At(c, "idle"), NEW v,
         worker' = [worker EXCEPT ![c] = v], v.msg = worker[c].msg, MovesTo(c, v)
  PROVE  Moves(c, worker'[c]) /\ \A x \in Consumer \ {c} : worker'[x] = worker[x]
<1>1. worker = [x \in Consumer |-> worker[x]]
  BY DEF Inv, WorkerInv
<1>2. worker'[c] = v
  BY <1>1
<1> QED
  BY <1>1, <1>2 DEF Moves

LEMMA GoingMoves ==
  ASSUME NEW D, Inv(D), NEW c \in Consumer,
         \/ EndExecution(c) \/ FinishParent(c) \/ ResumeParent(c) \/ LoopBack(c) \/ LogTrigger(c)
         \/ ReadExecution(c) \/ AskExternal(c) \/ MarkError(c) \/ StopExecution(c)
         \/ ContinueAfterError(c) \/ SendChild(c) \/ AskApproval(c)
         \/ Schedule(c) \/ EmitNext(c) \/ EmitJoined(c) \/ CloseStep(c)
  PROVE  Moves(c, worker'[c]) /\ \A x \in Consumer \ {c} : worker'[x] = worker[x]
<1>1. ~At(c, "idle")
  BY DEF EndExecution, FinishParent, ResumeParent, LoopBack, LogTrigger, ReadExecution, AskExternal,
         MarkError, StopExecution, ContinueAfterError, SendChild, AskApproval,
         Schedule, EmitNext, EmitJoined, CloseStep, At
<1>2. ASSUME NEW p, Goto(c, p), Hop(worker[c].pc, p)
      PROVE  Moves(c, worker'[c]) /\ \A x \in Consumer \ {c} : worker'[x] = worker[x]
  BY <1>1, <1>2, HopMoves
<1>3. CASE \/ ResumeParent(c) \/ LoopBack(c) \/ AskExternal(c) \/ StopExecution(c)
           \/ ContinueAfterError(c) \/ SendChild(c) \/ CloseStep(c)
           \/ AskApproval(c) /\ Goto(c, "return")
  <2>1. Goto(c, "return")
    BY <1>3 DEF ResumeParent, LoopBack, AskExternal, StopExecution, ContinueAfterError,
                SendChild, CloseStep
  <2>2. Hop(worker[c].pc, "return")
    BY DEF Hop
  <2> QED
    BY <1>2, <2>1, <2>2
<1>4. CASE \/ Schedule(c) \/ EmitNext(c) \/ EmitJoined(c)
           \/ AskApproval(c) /\ Goto(c, "close")
  <2>1. Goto(c, "close") /\ worker[c].pc \in {"ask", "delay", "emit", "joined"}
    BY <1>4 DEF Schedule, EmitNext, EmitJoined, AskApproval, At
  <2>2. Hop(worker[c].pc, "close")
    BY <2>1 DEF Hop
  <2> QED
    BY <1>2, <2>1, <2>2, SMTT(60)
<1>5. CASE EndExecution(c) \/ ReadExecution(c)
  <2>1. \/ worker[c].pc = "end" /\ (Goto(c, "return") \/ Goto(c, "resume"))
        \/ worker[c].pc = "read" /\ (Goto(c, "return") \/ Goto(c, "claim"))
    BY <1>5 DEF EndExecution, ReadExecution, At, Goto
  <2>2. /\ Hop(worker[c].pc, "return")
        /\ worker[c].pc = "end" => Hop(worker[c].pc, "resume")
        /\ worker[c].pc = "read" => Hop(worker[c].pc, "claim")
    BY DEF Hop
  <2> QED
    BY <1>2, <2>1, <2>2
<1>6. CASE FinishParent(c) \/ LogTrigger(c) \/ MarkError(c)
  <2>1. \/ worker[c].pc = "resume" /\ Goto(c, "resumed")
        \/ worker[c].pc = "http" /\ Goto(c, "read")
        \/ worker[c].pc = "error" /\ Goto(c, "onError")
    BY <1>6 DEF FinishParent, LogTrigger, MarkError, At
  <2>2. /\ worker[c].pc = "resume" => Hop(worker[c].pc, "resumed")
        /\ worker[c].pc = "http" => Hop(worker[c].pc, "read")
        /\ worker[c].pc = "error" => Hop(worker[c].pc, "onError")
    BY DEF Hop
  <2> QED
    BY <1>2, <2>1, <2>2
<1> QED
  BY <1>3, <1>4, <1>5, <1>6, SMTT(60) DEF AskApproval

LEMMA RunningMoves ==
  ASSUME NEW D, Inv(D), NEW c \in Consumer,
         \/ ClaimStep(c) \/ ReopenStep(c) \/ ForkBranches(c) \/ ArriveBranch(c) \/ Perform(c)
         \/ ConditionFails(c) \/ CreateChild(c) \/ JoinBranches(c)
  PROVE  Moves(c, worker'[c]) /\ \A x \in Consumer \ {c} : worker'[x] = worker[x]
<1>1. ~At(c, "idle")
  BY DEF ClaimStep, ReopenStep, ForkBranches, ArriveBranch, Perform, ConditionFails, CreateChild,
         JoinBranches, At
<1>2. PICK w : w = worker[c]
  OBVIOUS
<1>3. w = [f \in HandlerField |-> w[f]]
  BY <1>2 DEF Inv, WorkerInv, Fits
<1>4. CASE ClaimStep(c) \/ ReopenStep(c)
  <2>1. PICK k : k = OpenKey(c)
    OBVIOUS
  <2>2. PICK p : p = Begin(Body(c))
    OBVIOUS
  <2>3. PICK r : r = exec[Body(c).exec]
    OBVIOUS
  <2>4. PICK b : b = Body(c)
    OBVIOUS
  <2>5. PICK v : v = [w EXCEPT !.pc = p, !.key = k, !.parallel = r.parallel,
                               !.ste = r.ste, !.idx = b.idx, !.idxs = b.idxs]
    OBVIOUS
  <2>6. worker' = [worker EXCEPT ![c] = v]
    BY <1>2, <1>4, <2>1, <2>2, <2>3, <2>4, <2>5 DEF ClaimStep, ReopenStep, Open, OpenKey, At
  <2>7. v.msg = w.msg /\ v.pc = p /\ v.key = k /\ v.ste = r.ste
    BY <1>3, <2>5 DEF HandlerField
  <2>8. worker[c].pc \in {"claim", "rerun"}
    BY <1>4 DEF ClaimStep, ReopenStep, At
  <2> QED
    BY <1>1, <1>2, <2>1, <2>2, <2>3, <2>6, <2>7, <2>8, ChangeMoves DEF MovesTo
<1>5. CASE ForkBranches(c) \/ ArriveBranch(c)
  <2>1. worker = [x \in Consumer |-> worker[x]]
    BY DEF Inv, WorkerInv
  <2>2. ASSUME NEW P, NEW i, NEW q,
               worker' = [worker EXCEPT ![c] = [@ EXCEPT !.pc = "perform", !.parallel = P,
                                                         !.idx = i, !.idxs = q]]
        PROVE  \E v : /\ worker' = [worker EXCEPT ![c] = v] /\ v.msg = w.msg /\ v.pc = "perform"
                      /\ v.key = w.key /\ v.ste = w.ste /\ v.next = w.next
    <3>1. PICK v : v = [w EXCEPT !.pc = "perform", !.parallel = P, !.idx = i, !.idxs = q]
      OBVIOUS
    <3>2. worker' = [worker EXCEPT ![c] = v]
      BY <1>2, <2>2, <3>1
    <3>3. /\ v.msg = w.msg /\ v.pc = "perform" /\ v.key = w.key /\ v.ste = w.ste
          /\ v.next = w.next
      BY <1>3, <3>1 DEF HandlerField
    <3> QED
      BY <3>2, <3>3
  <2>3. ASSUME NEW P, worker' = [worker EXCEPT ![c].pc = "perform", ![c].parallel = P]
        PROVE  \E v : /\ worker' = [worker EXCEPT ![c] = v] /\ v.msg = w.msg /\ v.pc = "perform"
                      /\ v.key = w.key /\ v.ste = w.ste /\ v.next = w.next
    <3>1. PICK v : v = [w EXCEPT !.pc = "perform", !.parallel = P]
      OBVIOUS
    <3>2. worker' = [worker EXCEPT ![c] = v]
      BY <1>2, <2>1, <2>3, <3>1
    <3>3. /\ v.msg = w.msg /\ v.pc = "perform" /\ v.key = w.key /\ v.ste = w.ste
          /\ v.next = w.next
      BY <1>3, <3>1 DEF HandlerField
    <3> QED
      BY <3>2, <3>3
  <2>4. PICK v : /\ worker' = [worker EXCEPT ![c] = v] /\ v.msg = w.msg /\ v.pc = "perform"
                 /\ v.key = w.key /\ v.ste = w.ste /\ v.next = w.next
    <3>1. CASE ForkBranches(c)
      BY <2>2, <3>1 DEF ForkBranches
    <3>2. CASE ArriveBranch(c)
      BY <2>3, <3>2 DEF ArriveBranch
    <3> QED
      BY <1>5, <3>1, <3>2
  <2>5. Hop(worker[c].pc, v.pc)
    BY <1>5, <2>4 DEF ForkBranches, ArriveBranch, At, Hop
  <2>6. MovesTo(c, v)
    BY <1>2, <2>4, <2>5, HopMovesTo
  <2> QED
    BY <1>1, <1>2, <2>4, <2>6, ChangeMoves
<1>7. CASE Perform(c)
  <2>1. PICK ok \in BOOLEAN, n \in NextChoices(Body(c)) :
          /\ ok \/ Here(c) = "Web Service"
          /\ worker' = [worker EXCEPT ![c] = [@ EXCEPT !.pc = Route(Body(c), ok), !.next = n]]
    BY <1>7 DEF Perform
  <2>2. PICK p : p = Route(Body(c), ok)
    OBVIOUS
  <2>3. PICK v : /\ worker' = [worker EXCEPT ![c] = v] /\ v.msg = w.msg /\ v.pc = p
                 /\ v.next = n /\ v.key = w.key
    <3>1. PICK v : v = [w EXCEPT !.pc = p, !.next = n]
      OBVIOUS
    <3>2. worker' = [worker EXCEPT ![c] = v]
      BY <1>2, <2>1, <2>2, <3>1
    <3>3. v.msg = w.msg /\ v.pc = p /\ v.next = n /\ v.key = w.key
      BY <1>3, <3>1 DEF HandlerField
    <3> QED
      BY <3>2, <3>3
  <2>4. At(c, "perform")
    BY <1>7 DEF Perform
  <2>5. MovesTo(c, v)
    BY <1>2, <2>1, <2>2, <2>3, <2>4 DEF MovesTo
  <2> QED
    BY <1>1, <1>2, <2>3, <2>5, ChangeMoves
<1>8. CASE ConditionFails(c)
  <2>1. PICK n : n = <<NoStep>>
    OBVIOUS
  <2>2. At(c, "perform") /\ Here(c) = "Condition"
        /\ worker' = [worker EXCEPT ![c] = [@ EXCEPT !.pc = "emit", !.next = n]]
    BY <1>8, <2>1 DEF ConditionFails
  <2>3. PICK v : /\ worker' = [worker EXCEPT ![c] = v] /\ v.msg = w.msg /\ v.pc = "emit"
                 /\ v.next = n /\ v.key = w.key
    <3>1. PICK v : v = [w EXCEPT !.pc = "emit", !.next = n]
      OBVIOUS
    <3>2. worker' = [worker EXCEPT ![c] = v]
      BY <1>2, <2>2, <3>1
    <3>3. v.msg = w.msg /\ v.pc = "emit" /\ v.next = n /\ v.key = w.key
      BY <1>3, <3>1 DEF HandlerField
    <3> QED
      BY <3>2, <3>3
  <2>4. MovesTo(c, v)
    BY <1>2, <2>1, <2>2, <2>3 DEF MovesTo
  <2> QED
    BY <1>1, <1>2, <2>3, <2>4, ChangeMoves
<1>9. CASE CreateChild(c)
  <2>1. At(c, "child")
    BY <1>9 DEF CreateChild
  <2>2. CASE Goto(c, "return")
    <3>1. Hop(worker[c].pc, "return")
      BY DEF Hop
    <3> QED
      BY <1>1, <2>2, <3>1, HopMoves
  <2>3. ASSUME NEW e, worker' = [worker EXCEPT ![c].pc = "sendChild", ![c].child = e]
        PROVE  Moves(c, worker'[c]) /\ \A x \in Consumer \ {c} : worker'[x] = worker[x]
    <3>1. PICK v : v = [w EXCEPT !.pc = "sendChild", !.child = e]
      OBVIOUS
    <3>2. worker = [x \in Consumer |-> worker[x]]
      BY DEF Inv, WorkerInv
    <3>3. worker' = [worker EXCEPT ![c] = v]
      BY <1>2, <2>3, <3>1, <3>2
    <3>4. /\ v.msg = w.msg /\ v.pc = "sendChild" /\ v.key = w.key /\ v.ste = w.ste
          /\ v.next = w.next
      BY <1>3, <3>1 DEF HandlerField
    <3>5. Hop(worker[c].pc, v.pc)
      BY <2>1, <3>4 DEF Hop, At
    <3>6. MovesTo(c, v)
      BY <1>2, <3>4, <3>5, HopMovesTo
    <3> QED
      BY <1>1, <1>2, <3>3, <3>4, <3>6, ChangeMoves
  <2> QED
    BY <1>9, <2>2, <2>3 DEF CreateChild
<1>10. CASE JoinBranches(c)
  <2>1. At(c, "join") /\ (Goto(c, "joined") \/ Goto(c, "close"))
    BY <1>10 DEF JoinBranches, Goto
  <2> QED
    BY <1>1, <2>1, HopMoves DEF Hop, At
<1> QED
  BY <1>4, <1>5, <1>7, <1>8, <1>9, <1>10, SMTT(60)

LEMMA HandlerMoves ==
  ASSUME NEW D, Inv(D), NEW c \in Consumer, Receive(c) \/ Handle(c) \/ Fault(c)
  PROVE  Moves(c, worker'[c]) /\ \A x \in Consumer \ {c} : worker'[x] = worker[x]
<1>1. worker = [x \in Consumer |-> worker[x]]
  BY DEF Inv, WorkerInv
<1>2. CASE Return(c) \/ Throw(c) \/ MustThrow(c) \/ Crash(c) \/ TriggerFails(c)
  <2>1. worker' = [worker EXCEPT ![c] = Resting]
    BY <1>2 DEF Return, Throw, MustThrow, Crash, Rethrow, TriggerFails
  <2> QED
    BY <1>1, <2>1 DEF Resting, Moves
<1>3. CASE Receive(c)
  <2>1. PICK m \in Msg : mail[m].state = "queued" /\ worker' = [worker EXCEPT ![c] =
                           [Resting EXCEPT !.pc = Dispatch(mail[m].body), !.msg = m]]
    BY <1>3 DEF Receive
  <2>2. PICK p : p = Dispatch(mail[m].body)
    OBVIOUS
  <2>3. worker'[c].pc = p /\ worker'[c].msg = m
    BY <1>1, <2>1, <2>2 DEF Resting
  <2>4. m \in Used /\ At(c, "idle")
    BY <1>3, <2>1 DEF Used, Receive
  <2> QED
    BY <1>1, <2>1, <2>2, <2>3, <2>4 DEF Moves
<1> QED
  BY <1>2, <1>3, GoingMoves, RunningMoves DEF Handle, Fault

-------------------------------------------------------------------------------
(* Where a handler is tells what it works on *)

\* The places past the test that sends a loop's next turn.
Going == {"http", "read", "claim", "rerun", "external", "parallel", "perform"} \union Chosen

LeadsOn(n, b) ==
  /\ ToSet(n) \subseteq Leads(b.step) \union {NoStep}
  /\ T[b.step] = "Start Loop" => ToSet(n) \subseteq ToSet(NAID[b.step])

StandsAt(p, n, b) ==
  /\ p \in {"end", "resume", "resumed"} => T[b.step] = "End"
  /\ p = "external" => T[b.step] = "External"
  /\ p = "delay" => T[b.step] = "Delay"
  /\ p \in {"child", "sendChild"} => T[b.step] = "SubWorkflow"
  /\ p \in {"error", "onError"} => T[b.step] = "Web Service"
  /\ p \in {"join", "joined"} => T[b.step] = "Parallel End"
  /\ p = "emit" => T[b.step] # "SubWorkflow"
  /\ p \in Chosen => LeadsOn(n, b)
  /\ p \in Going => ~LoopsAgain(b)

Stands(c) == ~At(c, "idle") => StandsAt(worker[c].pc, worker[c].next, Body(c))

LEMMA HopStands ==
  ASSUME NEW p, NEW q, NEW n, NEW b, Hop(p, q), StandsAt(p, n, b)
  PROVE  StandsAt(q, n, b)
BY Zenon DEF Hop, StandsAt, Chosen, Going

LEMMA DispatchStands ==
  ASSUME NEW n, NEW b
  PROVE  StandsAt(Dispatch(b), n, b)
<1>1. Dispatch(b) \in {"undefined", "end", "loop", "http", "rerun", "read"}
  BY DEF Dispatch
<1>2. Dispatch(b) \in {"http", "rerun", "read"} => ~LoopsAgain(b)
  BY DEF Dispatch
<1>3. PICK p : p = Dispatch(b) /\ (p = "end" => T[b.step] = "End")
  BY DEF Dispatch
<1>4. p \in {"undefined", "end", "loop", "http", "rerun", "read"}
  BY <1>1, <1>3
<1>5. p \notin Chosen /\ p # "external" /\ (p \in Going => p \in {"http", "rerun", "read"})
  BY <1>4 DEF Chosen, Going
<1> QED
  BY <1>2, <1>3, <1>4, <1>5 DEF StandsAt

LEMMA BeginStands ==
  ASSUME NEW n, NEW b, ~LoopsAgain(b)
  PROVE  StandsAt(Begin(b), n, b)
<1>1. PICK p : p = Begin(b)
  OBVIOUS
<1>2. p \in {"external", "parallel", "perform"} /\ (p = "external" => T[b.step] = "External")
  BY <1>1 DEF Begin
<1>3. p \notin Chosen
  BY <1>2 DEF Chosen
<1> QED
  BY <1>1, <1>2, <1>3 DEF StandsAt

LEMMA ChoicesLeadOn ==
  ASSUME NEW b, IsDetail(b), b.step \in Step, NEW n \in NextChoices(b)
  PROVE  LeadsOn(n, b)
<1>1. CASE T[b.step] = "Condition"
  <2>1. PICK s \in ToSet(NAID[b.step]) : n = <<s>>
    BY <1>1 DEF NextChoices
  <2>2. ToSet(n) = {s}
    BY <2>1 DEF ToSet
  <2>3. s \in Leads(b.step)
    BY <2>1 DEF Leads
  <2> QED
    BY <1>1, <2>2, <2>3 DEF LeadsOn
<1>2. CASE T[b.step] = "Manual Approval" /\ b.decision # "none"
  <2>1. b.decision \in {"approve", "reject"}
    BY <1>2 DEF IsDetail
  <2>2. PICK s : s = OnDecision[b.step][b.decision]
    OBVIOUS
  <2>3. n = <<s>>
    BY <1>2, <2>2 DEF NextChoices
  <2>4. ToSet(n) = {s}
    BY <2>3 DEF ToSet
  <2>5. s \in Leads(b.step)
    BY <1>2, <2>1, <2>2 DEF Leads
  <2> QED
    BY <1>2, <2>4, <2>5 DEF LeadsOn
<1>3. CASE T[b.step] # "Condition" /\ ~(T[b.step] = "Manual Approval" /\ b.decision # "none")
  <2>1. n = NAID[b.step]
    BY <1>3 DEF NextChoices
  <2> QED
    BY <2>1 DEF LeadsOn, Leads
<1> QED
  BY <1>1, <1>2, <1>3

\* Where the activity leads, by the kind of step.
LEMMA RouteStands ==
  ASSUME NEW b, ~LoopsAgain(b), NEW n, LeadsOn(n, b), NEW ok \in BOOLEAN,
         ok \/ T[b.step] = "Web Service"
  PROVE  StandsAt(Route(b, ok), n, b)
<1>1. PICK p : p = Route(b, ok)
  OBVIOUS
<1>2. \/ p = "error" /\ T[b.step] = "Web Service"
      \/ p = "child" /\ T[b.step] = "SubWorkflow"
      \/ p = "ask"
      \/ p = "delay" /\ T[b.step] = "Delay"
      \/ p = "join" /\ T[b.step] = "Parallel End"
      \/ p = "emit" /\ T[b.step] # "SubWorkflow"
  BY <1>1 DEF Route
<1> QED
  BY <1>1, <1>2 DEF StandsAt

LEMMA MoveStands ==
  ASSUME NEW D, Inv(D), NEW c \in Consumer, ~At(c, "idle"), Stands(c), NEW v, MovesTo(c, v)
  PROVE  StandsAt(v.pc, v.next, Body(c))
<1> DEFINE b == Body(c)
<1>1. StandsAt(worker[c].pc, worker[c].next, b) /\ IsDetail(b)
  BY Handling, SMTT(60) DEF Stands, Sound
<1>2. worker[c].pc \in {"claim", "rerun", "perform"} => ~LoopsAgain(b) /\ b.step \in Step
  <2>1. Fits(worker[c])
    BY Handling
  <2>2. worker[c].pc \in {"claim", "rerun", "perform"} => worker[c].pc \in Going
    BY DEF Going
  <2> QED
    BY <1>1, <2>1, <2>2 DEF StandsAt, Fits, Body
<1>3. CASE Hop(worker[c].pc, v.pc) /\ v.next = worker[c].next
  <2>1. PICK q : q = v.pc
    OBVIOUS
  <2> QED
    BY <1>1, <1>3, <2>1, HopStands
<1>4. CASE worker[c].pc \in {"claim", "rerun"} /\ v.pc = Begin(b)
  BY <1>2, <1>4, BeginStands
<1>5. CASE At(c, "perform") /\ v.next \in NextChoices(b)
           /\ \E ok \in BOOLEAN : v.pc = Route(b, ok) /\ (ok \/ Here(c) = "Web Service")
  <2>1. ~LoopsAgain(b) /\ b.step \in Step
    BY <1>2, <1>5 DEF At
  <2>2. LeadsOn(v.next, b)
    BY <1>1, <1>5, <2>1, ChoicesLeadOn
  <2>3. PICK ok \in BOOLEAN : v.pc = Route(b, ok) /\ (ok \/ T[b.step] = "Web Service")
    BY <1>5 DEF Here
  <2> QED
    BY <2>1, <2>2, <2>3, RouteStands
<1>6. CASE At(c, "perform") /\ v.next = <<NoStep>> /\ v.pc = "emit" /\ Here(c) = "Condition"
  <2>1. ToSet(v.next) = {NoStep}
    BY <1>6 DEF ToSet
  <2>2. LeadsOn(v.next, b) /\ T[b.step] # "SubWorkflow"
    BY <1>6, <2>1 DEF LeadsOn, Here
  <2>3. ~LoopsAgain(b)
    BY <1>2, <1>6, SMTT(60) DEF At
  <2> QED
    BY <1>6, <2>2, <2>3 DEF StandsAt
<1> QED
  BY <1>3, <1>4, <1>5, <1>6 DEF MovesTo

\* What a handler works on is fixed by where it is, in every step of the whole.
LEMMA StandsNext ==
  ASSUME NEW D, Inv(D), \A c \in Consumer : Stands(c), [Next]_vars
  PROVE  \A c \in Consumer : Stands(c)'
<1>1. BodiesKept
  BY BodiesStay
<1>2. ASSUME NEW c \in Consumer, worker'[c] = worker[c]
      PROVE  Stands(c)'
  <2> SUFFICES ASSUME ~At(c, "idle") PROVE StandsAt(worker[c].pc, worker[c].next, Body(c)')
    BY <1>2 DEF Stands, At
  <2>1. Body(c)' = Body(c)
    BY <1>1, <1>2, Handling DEF Body, BodiesKept
  <2> QED
    BY <2>1 DEF Stands
<1>3. ASSUME NEW c \in Consumer, Moves(c, worker'[c])
      PROVE  Stands(c)'
  <2> SUFFICES ASSUME worker'[c].pc # "idle"
               PROVE  StandsAt(worker'[c].pc, worker'[c].next, Body(c)')
    BY DEF Stands, At
  <2>1. CASE At(c, "idle") /\ worker'[c].msg \in Used
             /\ worker'[c].pc = Dispatch(mail[worker'[c].msg].body)
    <3>1. Body(c)' = mail[worker'[c].msg].body
      BY <1>1, <2>1 DEF Body, BodiesKept
    <3> QED
      BY <2>1, <3>1, DispatchStands
  <2>2. CASE ~At(c, "idle") /\ worker'[c].msg = worker[c].msg /\ MovesTo(c, worker'[c])
    <3>1. Body(c)' = Body(c)
      BY <1>1, <2>2, Handling DEF Body, BodiesKept
    <3> QED
      BY <2>2, <3>1, MoveStands
  <2> QED
    BY <1>3, <2>1, <2>2 DEF Moves
<1>4. CASE \E c \in Consumer : Receive(c) \/ Handle(c) \/ Fault(c)
  BY <1>2, <1>3, <1>4, HandlerMoves
<1>5. CASE UNCHANGED worker
  BY <1>2, <1>5
<1> QED
  BY <1>4, <1>5 DEF Next, Redrive, Answer, User, Rerun, Decide, SetStatus, AllSettled, vars

-------------------------------------------------------------------------------
(* The turns of loops *)

\* A message in turn n of a loop: the loop's first activity was sent n times.
Turned(d) ==
  d.loop # None =>
    /\ d.loop.current \in Nat
    /\ \E s \in Step : /\ T[s] = "Start Loop"
                       /\ d.loop.first \in ToSet(NAID[s]) /\ d.loop.max = NLoop[s]
    /\ Cardinality(SentFor(d.loop.first, d.exec)) >= d.loop.current

LoopInv ==
  /\ \A c \in Consumer : Stands(c)
  /\ \E L : Gathers(L) /\ \A d \in L : Turned(d)

LEMMA SentForGrows ==
  ASSUME BodiesKept, NEW s, NEW e
  PROVE  /\ IsFiniteSet(SentFor(s, e)) /\ Cardinality(SentFor(s, e)) \in Nat
         /\ IsFiniteSet(SentFor(s, e)') /\ Cardinality(SentFor(s, e)') \in Nat
         /\ Cardinality(SentFor(s, e)') >= Cardinality(SentFor(s, e))
         /\ \A m \in Msg \ Used : mail'[m].state # "unsent" /\ mail'[m].body.step = s
                                  /\ mail'[m].body.exec = e =>
              Cardinality(SentFor(s, e)') >= Cardinality(SentFor(s, e)) + 1
<1>1. IsFiniteSet(Msg)
  BY WorkflowAssumption DEF WorkflowAssumption
<1>2. PICK A : A = SentFor(s, e)
  OBVIOUS
<1>3. PICK B : B = SentFor(s, e)'
  OBVIOUS
<1>4. A \subseteq Msg /\ B \subseteq Msg /\ A \subseteq B
  BY <1>2, <1>3 DEF SentFor, Used, BodiesKept
<1>5. IsFiniteSet(A) /\ IsFiniteSet(B)
  BY <1>1, <1>4, FS_Subset
<1>6. Cardinality(A) \in Nat /\ Cardinality(B) \in Nat /\ Cardinality(A) <= Cardinality(B)
  BY <1>4, <1>5, FS_Subset, FS_CardinalityType
<1>7. ASSUME NEW m \in Msg \ Used, mail'[m].state # "unsent", mail'[m].body.step = s,
             mail'[m].body.exec = e
      PROVE  Cardinality(B) >= Cardinality(A) + 1
  <2>1. m \in B /\ m \notin A
    BY <1>2, <1>3, <1>7 DEF SentFor, Used
  <2>2. Cardinality(A \union {m}) = Cardinality(A) + 1 /\ IsFiniteSet(A \union {m})
    BY <1>5, <2>1, FS_AddElement
  <2>3. PICK C : C = A \union {m}
    OBVIOUS
  <2>4. C \subseteq B /\ IsFiniteSet(C) /\ Cardinality(C) = Cardinality(A) + 1
    BY <1>4, <2>1, <2>2, <2>3
  <2>5. Cardinality(C) <= Cardinality(B)
    BY <1>5, <2>4, FS_Subset
  <2> QED
    BY <1>6, <2>4, <2>5
<1> QED
  BY <1>2, <1>3, <1>5, <1>6, <1>7

LEMMA TurnedKept ==
  ASSUME BodiesKept, NEW d, Turned(d), NEW x, x.loop = d.loop, x.exec = d.exec
  PROVE  Turned(x)'
<1> SUFFICES ASSUME d.loop # None
             PROVE  Cardinality(SentFor(d.loop.first, d.exec)') >= d.loop.current
  BY DEF Turned
<1>1. d.loop.current \in Nat /\ Cardinality(SentFor(d.loop.first, d.exec)) >= d.loop.current
  BY DEF Turned
<1>2. PICK k : k = Cardinality(SentFor(d.loop.first, d.exec))
  OBVIOUS
<1>3. PICK j : j = Cardinality(SentFor(d.loop.first, d.exec)')
  OBVIOUS
<1>4. k \in Nat /\ j \in Nat /\ j >= k
  BY <1>2, <1>3, SentForGrows
<1> QED
  BY <1>1, <1>2, <1>3, <1>4

LEMMA NewTurned ==
  ASSUME NEW D, Inv(D), BodiesKept, \A c \in Consumer : Stands(c),
         NEW L, Gathers(L), \A d \in L : Turned(d), NEW d, IsNew(d)
  PROVE  Turned(d)'
<1>1. \A c \in Consumer : ~At(c, "idle") =>
        Turned(Body(c)) /\ Sound(Body(c)) /\ Fits(worker[c])
        /\ StandsAt(worker[c].pc, worker[c].next, Body(c))
  BY Handling DEF Gathers, Body, Stands
<1>2. d.loop = None => Turned(d)'
  BY DEF Turned
<1>3. ASSUME NEW c \in Consumer, ~At(c, "idle"), d.loop = Body(c).loop, d.exec = Body(c).exec
      PROVE  Turned(d)'
  BY <1>1, <1>3, TurnedKept
<1>4. ASSUME NEW c \in Consumer, At(c, "loop"), TurnsBack(c, d), Arrives(d)
      PROVE  Turned(d)'
  <2>1. PICK l : l = Body(c).loop
    BY SMTT(60)
  <2>2. l # None /\ l \in Loop /\ Turned(Body(c))
    BY <1>1, <1>4, <2>1 DEF At, Fits, Body, LoopsAgain, Sound, IsDetail
  <2>3. d.loop = NextTurn(l) /\ d.step = l.first /\ d.exec = Body(c).exec
    BY <1>4, <2>1 DEF TurnsBack, SameRun
  <2>4. d.loop.current = l.current + 1 /\ d.loop.first = l.first /\ d.loop.max = l.max
    BY <2>2, <2>3 DEF Loop, NextTurn
  <2>5. /\ l.current \in Nat
        /\ Cardinality(SentFor(l.first, d.exec)) >= l.current
        /\ \E s \in Step : /\ T[s] = "Start Loop"
                           /\ l.first \in ToSet(NAID[s]) /\ l.max = NLoop[s]
    BY <2>1, <2>2, <2>3 DEF Turned
  <2>6. PICK m \in Msg \ Used : mail'[m].state # "unsent" /\ mail'[m].body = d
    BY <1>4 DEF Arrives
  <2>7. PICK k : k = Cardinality(SentFor(l.first, d.exec))
    OBVIOUS
  <2>8. PICK j : j = Cardinality(SentFor(l.first, d.exec)')
    OBVIOUS
  <2>9. k \in Nat /\ j \in Nat /\ j >= k + 1
    BY <2>3, <2>6, <2>7, <2>8, SentForGrows
  <2>10. PICK n \in Nat : n = l.current
    BY <2>5
  <2>11. k >= n
    BY <2>5, <2>7, <2>10
  <2>12. j >= n + 1 /\ n + 1 \in Nat
    BY ONLY <2>9, <2>11, n \in Nat
  <2> QED
    BY <2>4, <2>5, <2>8, <2>10, <2>12 DEF Turned
<1>5. ASSUME NEW c \in Consumer, ~At(c, "idle"), GoesOn(c, d), Here(c) # "Start Loop"
      PROVE  Turned(d)'
  BY <1>3, <1>5 DEF GoesOn, TurnOf, SameRun
<1>6. ASSUME NEW c \in Consumer, worker[c].pc \in Emitting, GoesOn(c, d), Arrives(d),
             Here(c) = "Start Loop"
      PROVE  Turned(d)'
  <2>1. PICK b : b = Body(c)
    OBVIOUS
  <2>2. worker[c].pc \in Chosen /\ ~At(c, "idle")
    BY <1>6 DEF Emitting, Chosen, At
  <2>3. LeadsOn(worker[c].next, b) /\ b.step \in Step
    BY <1>1, <2>1, <2>2, AtChosen DEF StandsAt
  <2>4. PICK s \in ToSet(worker[c].next) : d.step = s /\ d.loop = TurnOf(c, s)
    BY <1>6 DEF GoesOn
  <2>5. d.loop = [max |-> NLoop[b.step], current |-> 1, first |-> s]
    BY <1>6, <2>1, <2>4 DEF TurnOf
  <2>6. d.loop.max = NLoop[b.step] /\ d.loop.current = 1 /\ d.loop.first = s
    BY <2>5
  <2>7. T[b.step] = "Start Loop" /\ s \in ToSet(NAID[b.step])
    BY <1>6, <2>1, <2>3, <2>4 DEF Here, LeadsOn
  <2>8. PICK m \in Msg \ Used : mail'[m].state # "unsent" /\ mail'[m].body = d
    BY <1>6 DEF Arrives
  <2>9. PICK k : k = Cardinality(SentFor(s, d.exec))
    OBVIOUS
  <2>10. PICK j : j = Cardinality(SentFor(s, d.exec)')
    OBVIOUS
  <2>11. k \in Nat /\ j \in Nat /\ j >= k + 1
    BY <2>4, <2>8, <2>9, <2>10, SentForGrows
  <2>12. j >= 1 /\ 1 \in Nat
    BY <2>11
  <2> QED
    BY <2>3, <2>6, <2>7, <2>10, <2>12 DEF Turned
<1>7. CASE Arrives(d) /\ SentBy(d)
  <2>1. CASE CalledFor(d)
    BY <1>2, <2>1 DEF CalledFor
  <2>2. ASSUME NEW c \in Consumer, At(c, "sendChild"), Spawns(c, d)
        PROVE  Turned(d)'
    BY <1>2, <2>2 DEF Spawns
  <2>3. ASSUME NEW c \in Consumer, worker[c].pc \in Emitting, GoesOn(c, d)
        PROVE  Turned(d)'
    <3>1. ~At(c, "idle")
      BY <2>3 DEF Emitting, At
    <3> QED
      BY <1>5, <1>6, <1>7, <2>3, <3>1
  <2> QED
    BY <1>4, <1>7, <2>1, <2>2, <2>3 DEF SentBy
<1>8. ASSUME NEW c \in Consumer, At(c, "external"), HandsOver(c, d)
      PROVE  Turned(d)'
  BY <1>3, <1>8 DEF HandsOver, SameRun, At
<1>9. ASSUME NEW c \in Consumer, worker[c].pc \in {"delay", "sendChild"}, GoesOn(c, d)
      PROVE  Turned(d)'
  <2>1. ~At(c, "idle")
    BY <1>9 DEF At
  <2>2. Here(c) # "Start Loop"
    BY <1>1, <1>9, <2>1 DEF StandsAt, Here
  <2> QED
    BY <1>5, <1>9, <2>1, <2>2
<1> QED
  BY <1>7, <1>8, <1>9 DEF IsNew

LEMMA LoopNext == IInv /\ LoopInv /\ [Next]_vars => LoopInv'
<1> SUFFICES ASSUME IInv, LoopInv, [Next]_vars PROVE LoopInv'
  OBVIOUS
<1>1. PICK D : Inv(D)
  BY DEF IInv
<1>2. PICK L : Gathers(L) /\ \A d \in L : Turned(d)
  BY DEF LoopInv
<1>3. BodiesKept
  BY <1>1, BodiesStay
<1>4. PICK M : Gathers(M)' /\ \A d \in M : d \in L \/ IsNew(d)
  BY <1>1, <1>2, GatherStep
<1>5. \A d \in M : Turned(d)'
  <2> TAKE d \in M
  <2>1. CASE d \in L
    BY <1>2, <1>3, <2>1, TurnedKept
  <2>2. CASE IsNew(d)
    BY <1>1, <1>2, <1>3, <2>2, NewTurned DEF LoopInv
  <2> QED
    BY <1>4, <2>1, <2>2
<1>6. \A c \in Consumer : Stands(c)'
  BY <1>1, StandsNext DEF LoopInv
<1> QED
  BY <1>4, <1>5, <1>6 DEF LoopInv

\* At the start there are the first messages, and nothing is carried.
LEMMA FirstGathered ==
  ASSUME Init, NEW D, Inv(D)
  PROVE  /\ \A c \in Consumer : At(c, "idle")
         /\ \E L : Gathers(L) /\ \A d \in L : /\ d.step \in ToSet(First) /\ d.exec = 1
                                              /\ d.loop = None /\ d.parent = None
                                              /\ d.wsxh = None
<1>1. \A c \in Consumer : At(c, "idle")
  BY DEF Init, At, Resting
<1>2. PICK S : S = FirstDetails(First, 1, None)
  OBVIOUS
<1>3. ASSUME NEW d \in S
      PROVE  d.step \in ToSet(First) /\ d.exec = 1 /\ d.loop = None /\ d.parent = None
             /\ d.wsxh = None
  <2>1. PICK i \in DOMAIN First :
          d = [Detail(First[i], 1) EXCEPT !.http = (i = 1), !.parent = None]
    BY <1>2, <1>3 DEF FirstDetails
  <2> QED
    BY <2>1 DEF Detail, ToSet
<1>4. IsFiniteSet(S)
  <2>1. PICK g : g = [i \in DOMAIN First |->
                        [Detail(First[i], 1) EXCEPT !.http = (i = 1), !.parent = None]]
    OBVIOUS
  <2>2. g = [i \in DOMAIN First |-> g[i]] /\ S = {g[i] : i \in DOMAIN First}
    BY <1>2, <2>1 DEF FirstDetails
  <2>3. First \in Seq(Step)
    BY WorkflowAssumption DEF WorkflowAssumption
  <2> QED
    BY <2>2, <2>3, SeqImageFinite
<1>5. \A m \in Used : mail[m].body \in S
  <2>1. PICK q : q = SetToSeq(S)
    OBVIOUS
  <2>2. q \in [1 .. Cardinality(S) -> S] /\ Len(q) = Cardinality(S) /\ Cardinality(S) \in Nat
    BY <1>4, <2>1, SetToSeqType
  <2>3. mail = [m \in Msg |-> IF m <= Len(q)
                  THEN [state |-> "queued", receives |-> 0, body |-> q[m]] ELSE Unsent]
    BY <1>2, <2>1 DEF Init
  <2>4. ASSUME NEW m \in Used PROVE mail[m].body \in S
    <3>1. m \in Msg /\ mail[m].state # "unsent"
      BY <2>4 DEF Used
    <3>2. m <= Len(q) /\ mail[m].body = q[m]
      BY <2>3, <3>1 DEF Unsent
    <3>3. m \in 1 .. Cardinality(S)
      BY <2>2, <3>1, <3>2, MsgFacts
    <3> QED
      BY <2>2, <3>2, <3>3
  <2> QED
    BY <2>4
<1>6. Gathers(S)
  BY <1>3, <1>5 DEF Gathers, Init
<1> QED
  BY <1>1, <1>3, <1>6

LEMMA LoopInit == Init => LoopInv
<1> SUFFICES ASSUME Init PROVE LoopInv
  OBVIOUS
<1>1. PICK D : Inv(D)
  BY InitInv DEF IInv
<1> QED
  BY <1>1, FirstGathered DEF LoopInv, Stands, Turned

-------------------------------------------------------------------------------
(* Earlier results: with one consumer no save of STE drops a result            *)

\* Steps R that a workflow cannot leave but through p, whose result is stored.
Sealed(p, R) ==
  /\ Produces(p) /\ p \notin R
  /\ Starts \subseteq R \union {p}
  /\ \A r \in R : Leads(r) \subseteq R \union {p, NoStep}

\* An execution of which a message speaks has the result of p, or the message
\* asks for a step in R, or for p.
Reaching(d, p, R) ==
  /\ d.exec \in Exec /\ exec[d.exec].status # "none"
  /\ \/ p \in exec[d.exec].ste
     \/ /\ d.step \in R \union {p, NoStep}
        /\ d.loop # None => d.loop.first \in R \union {p, NoStep}

\* The handler's copy of STE is the record's until it saves its own, and what
\* it saved has its result.
SteFresh(c) ==
  /\ worker[c].pc \in {"external", "parallel", "perform"} =>
       worker[c].ste = exec[Body(c).exec].ste
  /\ worker[c].pc \in Chosen /\ Produces(Body(c).step) =>
       Body(c).step \in exec[Body(c).exec].ste

ResultInv(c) ==
  /\ Stands(c) /\ SteFresh(c)
  /\ \A p \in Step, R \in SUBSET Step : Sealed(p, R) =>
       \E L : Gathers(L) /\ \A d \in L : Reaching(d, p, R)

SameSte ==
  \A e \in Exec : exec[e].status # "none" =>
    exec'[e].status # "none" /\ exec'[e].ste = exec[e].ste

\* What the activity's step saves.
SavesSte(c) ==
  /\ At(c, "perform") /\ worker'[c].pc \in Chosen /\ mail' = mail
  /\ worker'[c].msg = worker[c].msg
  /\ \E S \in SUBSET Step :
       /\ exec' = [exec EXCEPT ![Body(c).exec].ste = S]
       /\ worker[c].ste \subseteq S /\ (Produces(Body(c).step) => Body(c).step \in S)

LEMMA ActivitySaves ==
  ASSUME NEW D, Inv(D), NEW c \in Consumer, Perform(c) \/ ConditionFails(c)
  PROVE  SavesSte(c)
<1>1. ExecOK /\ worker = [x \in Consumer |-> worker[x]]
      /\ worker[c] = [f \in HandlerField |-> worker[c][f]]
  BY DEF Inv, WorkerInv, Fits
<1>2. ~At(c, "idle") => Body(c).exec \in Exec /\ Fits(worker[c])
  BY Handling DEF Sound, IsDetail
<1>3. CASE Perform(c)
  <2>1. PICK S : S = IF Produces(Body(c).step) THEN worker[c].ste \union {Body(c).step}
                                               ELSE worker[c].ste
    OBVIOUS
  <2>2. At(c, "perform") /\ ~At(c, "idle")
    BY <1>3 DEF Perform, At
  <2>3. worker[c].ste \subseteq Step /\ Body(c).step \in Step
    BY <1>2, <2>2 DEF Fits, At, Body
  <2>4. S \in SUBSET Step /\ worker[c].ste \subseteq S
        /\ (Produces(Body(c).step) => Body(c).step \in S)
    BY <2>1, <2>3
  <2>5. exec' = [exec EXCEPT ![Body(c).exec].ste = S] /\ mail' = mail
    BY <1>3, <2>1 DEF Perform
  <2>6. PICK ok \in BOOLEAN, n \in NextChoices(Body(c)) :
          worker' = [worker EXCEPT ![c] = [@ EXCEPT !.pc = Route(Body(c), ok), !.next = n]]
    BY <1>3 DEF Perform
  <2>7. PICK p : p = Route(Body(c), ok)
    OBVIOUS
  <2>8. worker'[c].pc = p /\ worker'[c].msg = worker[c].msg
    BY <1>1, <2>6, <2>7 DEF HandlerField
  <2>9. p \in Chosen
    BY <2>7 DEF Route, Chosen
  <2> QED
    BY <2>2, <2>4, <2>5, <2>8, <2>9 DEF SavesSte
<1>4. CASE ConditionFails(c)
  <2>1. At(c, "perform") /\ ~At(c, "idle") /\ mail' = mail
        /\ exec' = [exec EXCEPT ![Body(c).exec].ste = worker[c].ste]
    BY <1>4 DEF ConditionFails, At
  <2>2. worker[c].ste \in SUBSET Step
    BY <1>2, <2>1 DEF Fits
  <2>3. worker'[c].pc = "emit" /\ worker'[c].msg = worker[c].msg /\ "emit" \in Chosen
    BY <1>1, <1>4 DEF ConditionFails, HandlerField, Chosen
  <2>4. ~Produces(Body(c).step)
    BY <1>4 DEF ConditionFails, Here, Produces
  <2>5. PICK S \in SUBSET Step : S = worker[c].ste
    BY <2>2
  <2> QED
    BY <2>1, <2>3, <2>4, <2>5 DEF SavesSte
<1> QED
  BY <1>3, <1>4

LEMMA SteStep ==
  ASSUME NEW D, Inv(D), NEW c, Consumer = {c}, [Next]_vars
  PROVE  SameSte \/ SavesSte(c)
<1>1. ExecOK /\ worker = [x \in Consumer |-> worker[x]]
      /\ worker[c] = [f \in HandlerField |-> worker[c][f]]
  BY DEF Inv, WorkerInv, Fits
<1>2. ~At(c, "idle") => Body(c).exec \in Exec /\ Fits(worker[c])
  BY Handling DEF Sound, IsDetail
<1>3. CASE UNCHANGED exec
  BY <1>3 DEF SameSte
<1>4. ASSUME NEW e \in Exec, NEW s, s # "none", exec' = [exec EXCEPT ![e].status = s]
      PROVE  SameSte
  BY <1>1, <1>4 DEF ExecOK, SameSte
<1>5. ASSUME NEW e \in Exec, NEW s, exec' = [exec EXCEPT ![e].parallel = s]
      PROVE  SameSte
  BY <1>1, <1>5 DEF ExecOK, SameSte
<1>6. ASSUME NEW e \in Exec, NEW s, exec' = [exec EXCEPT ![e].logged = s]
      PROVE  SameSte
  BY <1>1, <1>6 DEF ExecOK, SameSte
<1>7. CASE EndExecution(c) \/ StopExecution(c)
  BY <1>2, <1>4, <1>7 DEF EndExecution, StopExecution, At
<1>8. CASE LogTrigger(c)
  BY <1>2, <1>6, <1>8 DEF LogTrigger, At
<1>9. CASE ForkBranches(c) \/ ArriveBranch(c) \/ JoinBranches(c)
  <2>1. PICK P : exec' = [exec EXCEPT ![Body(c).exec].parallel = P] \/ exec' = exec
    BY <1>9 DEF ForkBranches, ArriveBranch, JoinBranches
  <2>2. ~At(c, "idle")
    BY <1>9 DEF ForkBranches, ArriveBranch, JoinBranches, At
  <2> QED
    BY <1>2, <1>3, <1>5, <2>1, <2>2
<1>10. CASE CreateChild(c)
  <2>1. ASSUME NEW e \in Exec, exec[e].status = "none", exec' = [exec EXCEPT ![e] = NewExec]
        PROVE  SameSte
    BY <1>1, <2>1 DEF ExecOK, SameSte
  <2> QED
    BY <1>3, <1>10, <2>1 DEF CreateChild
<1>11. CASE Perform(c) \/ ConditionFails(c)
  BY <1>11, ActivitySaves
<1>13. CASE User
  BY <1>3, <1>4, <1>13 DEF User, Rerun, Decide, SetStatus
<1> QED
  BY <1>3, <1>7, <1>8, <1>9, <1>10, <1>11, <1>13, ZenonT(60)
     DEF Next, Receive, Handle, Fault, Redrive, Answer, AllSettled, vars,
         FinishParent, ResumeParent, LoopBack, ReadExecution, ClaimStep, AskExternal,
         ReopenStep, MarkError, ContinueAfterError, SendChild, AskApproval, Schedule, EmitJoined,
         EmitNext, CloseStep, Return, MustThrow, Throw, Crash, Rethrow, TriggerFails

\* A result that is stored stays stored.
SteGrows ==
  \A e \in Exec : exec[e].status # "none" =>
    exec'[e].status # "none" /\ exec[e].ste \subseteq exec'[e].ste

LEMMA SteOnlyGrows ==
  ASSUME NEW D, Inv(D), NEW c, Consumer = {c}, SteFresh(c), [Next]_vars
  PROVE  SteGrows
<1>1. CASE SameSte
  BY <1>1 DEF SameSte, SteGrows
<1>2. CASE SavesSte(c)
  <2>1. PICK S \in SUBSET Step :
          exec' = [exec EXCEPT ![Body(c).exec].ste = S] /\ worker[c].ste \subseteq S
    BY <1>2 DEF SavesSte
  <2>2. exec[Body(c).exec].ste \subseteq S
    BY <1>2, <2>1 DEF SavesSte, SteFresh, At
  <2> QED
    BY <2>1, <2>2 DEF SteGrows, Inv, ExecOK
<1> QED
  BY <1>1, <1>2, SteStep

LEMMA ChosenSaves ==
  ASSUME NEW D, Inv(D), NEW c, Consumer = {c}, [Next]_vars, At(c, "perform"),
         worker'[c].pc \in Chosen
  PROVE  SavesSte(c)
<1>1. worker = [x \in Consumer |-> worker[x]]
  BY DEF Inv, WorkerInv
<1>2. worker' # worker
  BY DEF At, Chosen
<1>3. worker' # [worker EXCEPT ![c] = Resting]
  BY <1>1, SMTT(60) DEF Resting, Chosen
<1>4. Perform(c) \/ ConditionFails(c)
  <2>1. CASE \E x \in Consumer : Receive(x) \/ Handle(x) \/ Fault(x)
    <3>1. Receive(c) \/ Handle(c) \/ Fault(c)
      BY <2>1
    <3> QED
      BY <1>3, <3>1
         DEF At, Handle, Fault, Receive, EndExecution, FinishParent, ResumeParent, LoopBack,
             LogTrigger, ReadExecution, ClaimStep, ReopenStep, AskExternal, ForkBranches,
             ArriveBranch, MarkError, StopExecution, ContinueAfterError, CreateChild, SendChild,
             AskApproval, Schedule, JoinBranches, EmitJoined, EmitNext, CloseStep, Return,
             MustThrow, Throw, Crash, Rethrow, TriggerFails
  <2> QED
    BY <1>2, <2>1
       DEF Next, Redrive, Answer, User, Rerun, Decide, SetStatus, AllSettled, vars
<1> QED
  BY <1>4, ActivitySaves

LEMMA SteFreshNext ==
  ASSUME NEW D, Inv(D), NEW c, Consumer = {c}, SteFresh(c), [Next]_vars
  PROVE  SteFresh(c)'
<1> DEFINE Reads == {"external", "parallel", "perform"}
<1> USE DEF SteFresh
<1>1. BodiesKept
  BY BodiesStay
<1>2. SteGrows /\ (SameSte \/ SavesSte(c))
  BY SteOnlyGrows, SteStep
<1>3. ~At(c, "idle") => Body(c).exec \in Exec /\ exec[Body(c).exec].status # "none"
  BY Handling DEF Sound, IsDetail
<1>4. ASSUME ~At(c, "idle"), worker'[c].msg = worker[c].msg
      PROVE  Body(c)' = Body(c)
  BY <1>1, <1>4, Handling DEF Body, BodiesKept
<1>5. ASSUME ~At(c, "idle"), worker'[c].msg = worker[c].msg, worker'[c].ste = worker[c].ste,
             worker[c].pc \in Reads, ~SavesSte(c)
      PROVE  worker'[c].ste = exec'[Body(c)'.exec].ste
  BY <1>2, <1>3, <1>4, <1>5 DEF SameSte
<1>6. ASSUME worker[c].pc \in Chosen, worker'[c].msg = worker[c].msg, Produces(Body(c).step)
      PROVE  Body(c)'.step \in exec'[Body(c)'.exec].ste
  <2>1. ~At(c, "idle")
    BY <1>6 DEF At, Chosen
  <2> QED
    BY <1>2, <1>3, <1>4, <1>6, <2>1 DEF SteGrows
<1>7. CASE worker' = worker
  <2>1. ~SavesSte(c)
    BY <1>7 DEF SavesSte, At, Chosen
  <2>2. worker[c].pc \in Reads \union Chosen => ~At(c, "idle") /\ Body(c)' = Body(c)
    BY <1>4, <1>7 DEF At, Chosen
  <2> QED
    BY <1>5, <1>6, <1>7, <2>1, <2>2
<1>8. CASE worker'[c].pc = "idle"
  BY <1>8 DEF Chosen
<1>9. CASE At(c, "idle") /\ worker'[c].pc = Dispatch(mail[worker'[c].msg].body)
  BY <1>9 DEF Dispatch, Chosen
<1>10. CASE ~At(c, "idle") /\ worker'[c].msg = worker[c].msg /\ MovesTo(c, worker'[c])
  <2>1. CASE Hop(worker[c].pc, worker'[c].pc) /\ worker'[c].ste = worker[c].ste
    <3>1. worker'[c].pc \in Reads => At(c, "parallel") /\ At(c, "parallel") # At(c, "perform")
      BY <2>1 DEF Hop, At
    <3>2. worker'[c].pc \in Reads => worker[c].pc \in Reads /\ ~SavesSte(c)
      BY <3>1 DEF At, SavesSte
    <3>3. worker'[c].pc \in Chosen => worker[c].pc \in Chosen
      BY <2>1 DEF Hop, Chosen
    <3>4. Body(c)' = Body(c)
      BY <1>4, <1>10
    <3> QED
      BY <1>5, <1>6, <1>10, <2>1, <3>2, <3>3, <3>4
  <2>2. CASE worker[c].pc \in {"claim", "rerun"} /\ worker'[c].pc = Begin(Body(c))
             /\ worker'[c].ste = exec[Body(c).exec].ste
    <3>1. ~SavesSte(c)
      BY <2>2 DEF SavesSte, At
    <3>2. worker'[c].pc \notin Chosen
      BY <2>2 DEF Begin, Chosen
    <3>3. exec'[Body(c)'.exec].ste = exec[Body(c).exec].ste
      BY <1>2, <1>3, <1>4, <1>10, <3>1 DEF SameSte
    <3> QED
      BY <2>2, <3>2, <3>3
  <2>3. CASE At(c, "perform") /\ worker'[c].pc \in Chosen
    <3>1. SavesSte(c)
      BY <2>3, ChosenSaves
    <3>2. PICK S \in SUBSET Step : /\ exec' = [exec EXCEPT ![Body(c).exec].ste = S]
                                   /\ Produces(Body(c).step) => Body(c).step \in S
      BY <3>1 DEF SavesSte
    <3>3. exec'[Body(c).exec].ste = S
      BY <1>3, <1>10, <3>2 DEF Inv, ExecOK
    <3>4. Body(c)' = Body(c)
      BY <1>4, <1>10
    <3>5. worker'[c].pc \notin Reads
      BY <2>3 DEF Chosen
    <3> QED
      BY <3>2, <3>3, <3>4, <3>5
  <2>4. ASSUME At(c, "perform"), NEW ok \in BOOLEAN, worker'[c].pc = Route(Body(c), ok)
        PROVE  worker'[c].pc \in Chosen
    BY <2>4 DEF Route, Chosen
  <2>5. "emit" \in Chosen
    BY DEF Chosen
  <2> QED
    BY <1>10, <2>1, <2>2, <2>3, <2>4, <2>5 DEF MovesTo
<1>11. Moves(c, worker'[c]) \/ worker' = worker
  BY HandlerMoves DEF Next, Redrive, Answer, User, Rerun, Decide, SetStatus, AllSettled, vars
<1> QED
  BY <1>7, <1>8, <1>9, <1>10, <1>11 DEF Moves

LEMMA ReachingKept ==
  ASSUME NEW D, Inv(D), SteGrows, NEW p, NEW R, NEW d, Reaching(d, p, R),
         NEW x, x.exec = d.exec, x.step = d.step, x.loop = d.loop
  PROVE  Reaching(x, p, R)'
BY DEF Reaching, SteGrows

\* What is sent next asks for a step that is reached without p, or p is done.
LEMMA NewReaching ==
  ASSUME NEW D, Inv(D), NEW c, Consumer = {c}, SteGrows, Stands(c), SteFresh(c),
         NEW p \in Step, NEW R \in SUBSET Step, Sealed(p, R),
         NEW L, Gathers(L), \A d \in L : Reaching(d, p, R), NEW d, IsNew(d)
  PROVE  Reaching(d, p, R)'
<1> DEFINE b == Body(c)
           Near == R \union {p, NoStep}
<1>1. ~At(c, "idle") =>
        Reaching(b, p, R) /\ Sound(b) /\ Fits(worker[c])
        /\ StandsAt(worker[c].pc, worker[c].next, b)
  BY Handling DEF Gathers, Body, Stands
<1>2. ASSUME NEW e \in Exec, d.exec = e, exec[e].status # "none",
             \/ p \in exec[e].ste
             \/ d.step \in Near /\ (d.loop # None => d.loop.first \in Near)
      PROVE  Reaching(d, p, R)'
  BY <1>2, SMTT(60) DEF Reaching, SteGrows
<1>3. CASE CalledFor(d)
  <2>1. PICK k \in DOMAIN hist : d.step = mail[k[1]].body.step /\ d.exec = mail[k[1]].body.exec
    BY <1>3 DEF CalledFor
  <2>2. k[1] \in Used
    BY <2>1 DEF Inv, HistInv, UsedKey, Key, Used
  <2>3. PICK x : x = mail[k[1]].body
    OBVIOUS
  <2>4. Reaching(x, p, R)
    BY <2>2, <2>3 DEF Gathers
  <2> QED
    BY <1>2, <1>3, <2>1, <2>3, <2>4 DEF CalledFor, Reaching
<1>4. CASE At(c, "loop") /\ TurnsBack(c, d)
  <2>1. PICK l : l = b.loop
    BY SMTT(60)
  <2>2. l # None /\ l \in Loop /\ Reaching(b, p, R)
    BY <1>1, <1>4, <2>1 DEF At, Fits, Body, LoopsAgain, Sound, IsDetail
  <2>3. d.loop = NextTurn(l) /\ d.step = l.first /\ d.exec = b.exec
    BY <1>4, <2>1 DEF TurnsBack, SameRun
  <2>4. d.loop.first = l.first
    BY <2>2, <2>3 DEF Loop, NextTurn
  <2> QED
    BY <1>2, <2>1, <2>2, <2>3, <2>4 DEF Reaching
<1>5. CASE At(c, "sendChild") /\ Spawns(c, d)
  <2>1. ~At(c, "idle") /\ worker[c].pc = "sendChild"
    BY <1>5, SMTT(60) DEF At
  <2>2. b.step \in Step /\ T[b.step] = "SubWorkflow" /\ d.exec \in Exec
        /\ exec[d.exec].status # "none"
    BY <1>1, <1>5, <2>1 DEF Fits, Body, Spawns
  <2>3. ToSet(SubFirst[b.step]) \subseteq Starts
    BY <2>2 DEF Starts
  <2>4. d.step \in Near /\ d.loop = None
    BY <1>5, <2>3 DEF Spawns, Sealed
  <2> QED
    BY <1>2, <2>2, <2>4
<1>6. CASE At(c, "external") /\ HandsOver(c, d)
  <2>1. Reaching(b, p, R) /\ d.exec = b.exec /\ d.step = b.step /\ d.loop = b.loop
    BY <1>1, <1>6 DEF HandsOver, SameRun, At
  <2> QED
    BY <2>1, ReachingKept
<1>7. CASE worker[c].pc \in Chosen /\ GoesOn(c, d)
  <2>1. ~At(c, "idle")
    BY <1>7 DEF At, Chosen
  <2>2. b.step \in Step /\ LeadsOn(worker[c].next, b)
    BY <1>1, <1>7, <2>1, AtChosen DEF StandsAt
  <2>3. d.exec = b.exec /\ d.exec \in Exec /\ exec[d.exec].status # "none" /\ Reaching(b, p, R)
    BY <1>1, <1>7, <2>1 DEF GoesOn, SameRun, Reaching
  <2>4. CASE p \in exec[d.exec].ste
    BY <1>2, <2>3, <2>4
  <2>5. CASE p \notin exec[d.exec].ste
    <3>1. b.step # NoStep
      BY <2>2, WorkflowAssumption DEF WorkflowAssumption
    <3>2. b.step # p
      BY <1>7, <2>3, <2>5 DEF SteFresh, Sealed
    <3>3. b.step \in R /\ (b.loop # None => b.loop.first \in Near)
      BY <2>3, <2>5, <3>1, <3>2 DEF Reaching
    <3>4. ToSet(worker[c].next) \subseteq Near
      BY <2>2, <3>3 DEF LeadsOn, Sealed
    <3>5. PICK s \in ToSet(worker[c].next) : d.step = s /\ d.loop = TurnOf(c, s)
      BY <1>7 DEF GoesOn
    <3>6. PICK l : l = TurnOf(c, s)
      OBVIOUS
    <3>7. l # None => l.first \in Near
      <4>1. CASE Here(c) = "Start Loop"
        <5>1. l.first = s
          BY <3>6, <4>1 DEF TurnOf
        <5> QED
          BY <3>4, <5>1
      <4>2. CASE Here(c) # "Start Loop"
        BY <3>3, <3>6, <4>2 DEF TurnOf
      <4> QED
        BY <4>1, <4>2
    <3> QED
      BY <1>2, <2>3, <3>4, <3>5, <3>6, <3>7
  <2> QED
    BY <2>4, <2>5
<1>8. Emitting \subseteq Chosen /\ {"delay", "sendChild"} \subseteq Chosen
  BY DEF Emitting, Chosen
<1> QED
  BY <1>3, <1>4, <1>5, <1>6, <1>7, <1>8 DEF IsNew, SentBy

LEMMA ResultNext ==
  ASSUME IInv, NEW c, Consumer = {c}, ResultInv(c), [Next]_vars
  PROVE  ResultInv(c)'
<1>1. PICK D : Inv(D)
  BY DEF IInv
<1>2. BodiesKept /\ SteGrows /\ Stands(c)' /\ SteFresh(c)'
  BY <1>1, BodiesStay, SteOnlyGrows, StandsNext, SteFreshNext DEF ResultInv
<1>3. ASSUME NEW p \in Step, NEW R \in SUBSET Step, Sealed(p, R)
      PROVE  \E M : Gathers(M)' /\ \A d \in M : Reaching(d, p, R)'
  <2>1. PICK L : Gathers(L) /\ \A d \in L : Reaching(d, p, R)
    BY <1>3 DEF ResultInv
  <2>2. PICK M : Gathers(M)' /\ \A d \in M : d \in L \/ IsNew(d)
    BY <1>1, <2>1, GatherStep
  <2>3. \A d \in M : Reaching(d, p, R)'
    BY <1>1, <1>2, <1>3, <2>1, <2>2, ReachingKept, NewReaching DEF ResultInv
  <2> QED
    BY <2>2, <2>3
<1>4. \A p, R : Sealed(p, R)' <=> Sealed(p, R)
  BY DEF Sealed
<1> QED
  BY <1>2, <1>3, <1>4 DEF ResultInv

LEMMA ResultInit ==
  ASSUME Init, NEW c, Consumer = {c}
  PROVE  ResultInv(c)
<1>1. PICK D : Inv(D)
  BY InitInv DEF IInv
<1>2. PICK L : Gathers(L) /\ \A d \in L : d.step \in ToSet(First) /\ d.exec = 1 /\ d.loop = None
  BY <1>1, FirstGathered
<1>3. At(c, "idle")
  BY <1>1, FirstGathered
<1>4. Stands(c) /\ SteFresh(c)
  BY <1>3 DEF Stands, SteFresh, At, Chosen
<1>5. 1 \in Exec /\ exec[1].status # "none"
  BY WorkflowAssumption DEF WorkflowAssumption, Init, NewExec
<1>6. \A p, R : Sealed(p, R) => \A d \in L : Reaching(d, p, R)
  BY <1>2, <1>5 DEF Sealed, Reaching, Starts
<1> QED
  BY <1>2, <1>4, <1>6 DEF ResultInv

LEMMA ResultDone ==
  ASSUME IInv, NEW c, Consumer = {c}, ResultInv(c)
  PROVE  EarlierResults
<1>1. PICK D : Inv(D)
  BY DEF IInv
<1> SUFFICES ASSUME At(c, "perform"), NEW p \in Step \ {Body(c).step}, Produces(p),
                    OnEveryWay(p, Body(c).step)
             PROVE  p \in worker[c].ste
  BY DEF EarlierResults
<1>2. ~At(c, "idle") /\ worker[c].pc = "perform"
  BY DEF At
<1>3. Body(c).step \in Step /\ Body(c).step # NoStep
  BY <1>1, <1>2, Handling, WorkflowAssumption, ZenonT(60) DEF Fits, Body, WorkflowAssumption
<1>4. PICK R \in SUBSET (Step \ {p, Body(c).step}) :
        Starts \subseteq R \union {p} /\ \A r \in R : Leads(r) \subseteq R \union {p, NoStep}
  BY DEF OnEveryWay
<1>5. Sealed(p, R) /\ R \in SUBSET Step
  BY <1>4 DEF Sealed
<1>6. PICK L : Gathers(L) /\ \A d \in L : Reaching(d, p, R)
  BY <1>5 DEF ResultInv
<1>7. Reaching(Body(c), p, R)
  BY <1>1, <1>2, <1>6, Handling DEF Gathers, Body
<1>8. p \in exec[Body(c).exec].ste
  BY <1>3, <1>4, <1>7 DEF Reaching
<1> QED
  BY <1>2, <1>8 DEF ResultInv, SteFresh

\* With one consumer no result is lost: whatever throws, crashes, loss of events
\* or user calls there are, a step's activity is given the result of every step
\* that is on every way to it (the STE that handleMessage reads and saves).
THEOREM ResultsReachSteps ==
  ASSUME NEW c, Consumer = {c}
  PROVE  Spec => []EarlierResults
<1>1. Init => IInv /\ ResultInv(c)
  BY InitInv, ResultInit
<1>2. IInv /\ ResultInv(c) /\ [Next]_vars => (IInv /\ ResultInv(c))'
  BY NextInv, ResultNext
<1>3. IInv /\ ResultInv(c) => EarlierResults
  BY ResultDone
<1> QED
  BY <1>1, <1>2, <1>3, PTL DEF Spec

-------------------------------------------------------------------------------
(* Parents wait: once the handler of a SubWorkflow step has sent the child,   *)
(* nobody writes its history record but the child's End                       *)

Ended(e) == exec[e].status \in {"Finished", "Error"}

Over(k) == k \in DOMAIN hist /\ hist[k] = "Finished"

\* Receipt k of a SubWorkflow step, whose handler will not write to it again.
Retired(k) ==
  /\ k \in Key /\ k[1] \in Used
  /\ mail[k[1]].body.step \in Step /\ T[mail[k[1]].body.step] = "SubWorkflow"
  /\ k[2] <= mail[k[1]].receives
  /\ \A c \in Consumer : ~At(c, "idle") /\ Receipt(c) = k => At(c, "return")

\* Without users, only what an external service answers names a record.
Asked(d) ==
  d.wsxh # None =>
    /\ d.step \in Step /\ T[d.step] = "External"
    /\ d.wsxh[1] \in Used /\ T[mail[d.wsxh[1]].body.step] = "External"

Fine(d) == Asked(d) /\ (d.parent # None => Retired(d.parent.key))

\* The record that a handler works under.
Keyed(c) ==
  worker[c].pc \in InsideTry \union {"external"} =>
    worker[c].key = IF Body(c).wsxh = None THEN Receipt(c) ELSE Body(c).wsxh

Ending(c) ==
  /\ worker[c].pc \in {"resume", "resumed"} => Ended(Body(c).exec)
  /\ At(c, "resumed") => Over(Body(c).parent.key)

NoUsers == budget \in [throws: Nat, crashes: Nat, losses: Nat, users: {0}]

\* The End of the sub-workflow that sent message b.
SentByEnd(b) ==
  \E n \in Used : LET child == mail[n].body IN
    /\ T[child.step] = "End" /\ child.parent # None /\ b \in child.parent.next
    /\ child.exec \in Exec /\ Ended(child.exec) /\ Over(child.parent.key)

Waits(b) == b.step \in Step /\ AfterChild(b.step) /\ b.wsxh = None

WaitInv ==
  /\ NoUsers
  /\ \A c \in Consumer : Keyed(c) /\ Ending(c)
  /\ \E L : Gathers(L) /\ \A d \in L : Fine(d)
  /\ \A m \in Used : Waits(mail[m].body) => SentByEnd(mail[m].body)
  /\ \A b \in outside : ~Waits(b)

\* The receipts of a message are counted when a consumer receives it.
Counting ==
  \A m \in Used :
    /\ mail[m].receives \in Nat /\ mail'[m].receives \in Nat
    /\ mail'[m].receives >= mail[m].receives
    /\ mail[m].state # "queued" => mail'[m].receives = mail[m].receives

LEMMA CountsGrow ==
  ASSUME NEW D, Inv(D), [Next]_vars
  PROVE  Counting
<1>1. mail = [x \in Msg |-> mail[x]] /\ Used \subseteq Msg
      /\ \A x \in Msg : mail[x] = [f \in MailField |-> mail[x][f]]
  BY DEF Inv, MailInv, Used
<1>2. \A x \in Msg : mail[x].receives \in Nat
  <2>1. MaxReceive \in Nat /\ \A x \in Msg : mail[x].receives \in 0 .. MaxReceive
    BY WorkflowAssumption DEF WorkflowAssumption, Inv, MailInv
  <2> QED
    BY <2>1
<1>3. CASE \A m \in Used : mail'[m] = mail[m]
  <2>1. \A n \in Nat : n >= n
    OBVIOUS
  <2>2. \A m \in Used : mail[m].receives \in Nat /\ mail'[m].receives = mail[m].receives
    BY <1>1, <1>2, <1>3
  <2> QED
    BY <2>1, <2>2 DEF Counting
<1>4. ASSUME NEW m \in Msg, NEW s, mail' = [mail EXCEPT ![m].state = s]
      PROVE  Counting
  <2>1. \A x \in Msg : mail'[x].receives = mail[x].receives
    BY <1>1, <1>4 DEF MailField
  <2> QED
    BY <1>1, <1>2, <2>1 DEF Counting
<1>5. ASSUME NEW S, PutEvents(S) \/ mail' = Deliver(S)
      PROVE  Counting
  BY <1>3, <1>5, DeliverKeepsBodies DEF PutEvents, Inv
<1>6. ASSUME NEW c \in Consumer, Receive(c)
      PROVE  Counting
  <2>1. PICK m \in Msg : /\ mail[m].state = "queued"
                         /\ mail' = [mail EXCEPT ![m].state = "handled", ![m].receives = @ + 1]
    BY <1>6 DEF Receive
  <2>2. \A x \in Msg \ {m} : mail'[x] = mail[x]
    BY <1>1, <2>1
  <2>3. mail'[m].receives = mail[m].receives + 1
    BY <1>1, <2>1 DEF MailField
  <2> QED
    BY <1>1, <1>2, <2>1, <2>2, <2>3 DEF Counting
<1>7. ASSUME NEW c \in Consumer,
             Return(c) \/ Throw(c) \/ MustThrow(c) \/ Crash(c) \/ TriggerFails(c)
      PROVE  Counting
  <2>1. worker[c].msg \in Msg
    BY <1>1, <1>7, Handling DEF Return, Throw, MustThrow, Crash, TriggerFails, At
  <2>2. \E s : mail' = [mail EXCEPT ![worker[c].msg].state = s]
    BY <1>7 DEF Return, Throw, MustThrow, Crash, Rethrow, TriggerFails
  <2> QED
    BY <1>4, <2>1, <2>2
<1>8. ASSUME NEW m \in Msg, Redrive(m)
      PROVE  Counting
  BY <1>4, <1>8 DEF Redrive
<1>9. CASE \E c \in Consumer : Handle(c) \/ Fault(c)
  BY <1>3, <1>5, <1>7, <1>9, ZenonT(60)
     DEF Handle, Fault, EndExecution, FinishParent, LogTrigger, ReadExecution, ClaimStep,
         ReopenStep, AskExternal, ForkBranches, ArriveBranch, Perform, MarkError, StopExecution,
         CreateChild, AskApproval, Schedule, JoinBranches, CloseStep, ConditionFails,
         ResumeParent, LoopBack, SendChild, EmitNext, ContinueAfterError, EmitJoined
<1>10. CASE (\E b \in outside : Answer(b)) \/ User
  <2>1. UNCHANGED mail \/ \E S : mail' = Deliver(S)
    BY <1>10 DEF Answer, User, Rerun, Decide, SetStatus, Initiate
  <2> QED
    BY <1>3, <1>5, <2>1
<1> QED
  BY <1>3, <1>6, <1>8, <1>9, <1>10 DEF Next, AllSettled, vars

\* Where a handler that is at work came from.
LEMMA HandlerFollows ==
  ASSUME NEW D, Inv(D), [Next]_vars, NEW c \in Consumer, worker'[c].pc # "idle"
  PROVE  \/ worker'[c] = worker[c]
         \/ At(c, "idle") /\ Receive(c)
         \/ ~At(c, "idle") /\ worker'[c].msg = worker[c].msg /\ MovesTo(c, worker'[c])
<1>1. CASE UNCHANGED worker
  BY <1>1
<1>2. ASSUME NEW x \in Consumer, Receive(x) \/ Handle(x) \/ Fault(x), worker'[c] # worker[c]
      PROVE  \/ At(c, "idle") /\ Receive(c)
             \/ ~At(c, "idle") /\ worker'[c].msg = worker[c].msg /\ MovesTo(c, worker'[c])
  <2>1. x = c /\ Moves(c, worker'[c])
    BY <1>2, HandlerMoves
  <2>2. Handle(c) \/ Fault(c) => ~At(c, "idle")
    BY DEF At, Handle, Fault, EndExecution, FinishParent, ResumeParent, LoopBack,
           LogTrigger, ReadExecution, ClaimStep, ReopenStep, AskExternal, ForkBranches,
           ArriveBranch, Perform, MarkError, StopExecution, ContinueAfterError, CreateChild,
           SendChild, AskApproval, Schedule, JoinBranches, EmitJoined, EmitNext, CloseStep,
           Return, MustThrow, Throw, Crash, ConditionFails, TriggerFails
  <2>3. Receive(c) => At(c, "idle")
    BY SMTT(60) DEF Receive
  <2> QED
    BY <1>2, <2>1, <2>2, <2>3 DEF Moves
<1> QED
  BY <1>1, <1>2
     DEF Next, Redrive, Answer, User, Rerun, Decide, SetStatus, AllSettled, vars

\* Only End takes a handler to its parent's record, and that record is written.
LEMMA ParentMoves ==
  ASSUME NEW D, Inv(D), [Next]_vars, NEW c \in Consumer
  PROVE  /\ At(c, "end") /\ worker'[c].pc = "resume" => EndExecution(c)
         /\ At(c, "resume") /\ worker'[c].pc = "resumed" => FinishParent(c)
<1> SUFFICES ASSUME \/ At(c, "end") /\ worker'[c].pc = "resume"
                    \/ At(c, "resume") /\ worker'[c].pc = "resumed"
             PROVE  \/ At(c, "end") /\ EndExecution(c)
                    \/ At(c, "resume") /\ FinishParent(c)
  BY DEF At
<1>1. worker = [x \in Consumer |-> worker[x]] /\ worker[c] = [f \in HandlerField |-> worker[c][f]]
  BY DEF Inv, WorkerInv, Fits
<1>2. worker'[c] # worker[c]
  BY DEF At
<1>3. worker' # [worker EXCEPT ![c] = Resting]
  BY <1>1 DEF Resting
<1>4. PICK x \in Consumer : Receive(x) \/ Handle(x) \/ Fault(x)
  BY <1>2 DEF Next, Redrive, Answer, User, Rerun, Decide, SetStatus, AllSettled, vars
<1>5. Receive(c) \/ Handle(c) \/ Fault(c)
  BY <1>2, <1>4, HandlerMoves
<1> QED
  BY <1>3, <1>5
     DEF At, Handle, Fault, Receive, EndExecution, FinishParent, ResumeParent, LoopBack,
         LogTrigger, ReadExecution, ClaimStep, ReopenStep, AskExternal, ForkBranches,
         ArriveBranch, Perform, MarkError, StopExecution, ContinueAfterError, CreateChild, SendChild,
         AskApproval, Schedule, JoinBranches, EmitJoined, EmitNext, CloseStep, Return,
         MustThrow, Throw, Crash, Rethrow, ConditionFails, TriggerFails

\* An execution that has ended stays ended, unless a user saves another status.
LEMMA EndedStays ==
  ASSUME NEW D, Inv(D), NoUsers, [Next]_vars, NEW e \in Exec, Ended(e)
  PROVE  Ended(e)'
<1>1. ExecOK
  BY DEF Inv
<1>2. \A c \in Consumer : ~At(c, "idle") => Body(c).exec \in Exec
  BY Handling DEF Sound, IsDetail
<1>3. CASE UNCHANGED exec
  BY <1>3 DEF Ended
<1>4. ASSUME NEW f \in Exec, NEW s \in {"Finished", "Error"}, exec' = [exec EXCEPT ![f].status = s]
      PROVE  Ended(e)'
  BY <1>1, <1>4 DEF ExecOK, Ended
<1>5. ASSUME NEW f \in Exec, NEW s,
             \/ exec' = [exec EXCEPT ![f].parallel = s]
             \/ exec' = [exec EXCEPT ![f].ste = s]
             \/ exec' = [exec EXCEPT ![f].logged = s]
      PROVE  Ended(e)'
  <2>1. CASE exec' = [exec EXCEPT ![f].parallel = s]
    BY <1>1, <2>1 DEF ExecOK, Ended
  <2>2. CASE exec' = [exec EXCEPT ![f].ste = s]
    BY <1>1, <2>2 DEF ExecOK, Ended
  <2>3. CASE exec' = [exec EXCEPT ![f].logged = s]
    BY <1>1, <2>3 DEF ExecOK, Ended
  <2> QED
    BY <1>5, <2>1, <2>2, <2>3
<1>6. ASSUME NEW c \in Consumer, EndExecution(c) \/ StopExecution(c)
      PROVE  Ended(e)'
  BY <1>2, <1>4, <1>6 DEF EndExecution, StopExecution, At
<1>7. ASSUME NEW c \in Consumer,
             \/ LogTrigger(c) \/ ForkBranches(c) \/ ArriveBranch(c) \/ JoinBranches(c)
             \/ Perform(c) \/ ConditionFails(c)
      PROVE  Ended(e)'
  <2>1. ~At(c, "idle")
    BY <1>7 DEF LogTrigger, ForkBranches, ArriveBranch, JoinBranches, Perform, ConditionFails, At
  <2>2. \E s : \/ exec' = [exec EXCEPT ![Body(c).exec].parallel = s]
               \/ exec' = [exec EXCEPT ![Body(c).exec].ste = s]
               \/ exec' = [exec EXCEPT ![Body(c).exec].logged = s]
               \/ exec' = exec
    BY <1>7 DEF LogTrigger, ForkBranches, ArriveBranch, JoinBranches, Perform, ConditionFails
  <2> QED
    BY <1>2, <1>3, <1>5, <2>1, <2>2
<1>8. ASSUME NEW c \in Consumer, CreateChild(c)
      PROVE  Ended(e)'
  <2>1. ASSUME NEW f \in Exec, exec[f].status = "none", exec' = [exec EXCEPT ![f] = NewExec]
        PROVE  Ended(e)'
    BY <1>1, <2>1 DEF ExecOK, Ended
  <2> QED
    BY <1>3, <1>8, <2>1 DEF CreateChild
<1>9. ~User
  <2>1. ~UserCall
    BY DEF UserCall, NoUsers
  <2> QED
    BY <2>1 DEF User, Rerun, Decide, SetStatus
<1> QED
  BY <1>3, <1>6, <1>7, <1>8, <1>9, ZenonT(60)
     DEF Next, Receive, Handle, Fault, Redrive, Answer, AllSettled, vars,
         FinishParent, ResumeParent, LoopBack, ReadExecution, ClaimStep, AskExternal,
         ReopenStep, MarkError, ContinueAfterError, SendChild, AskApproval, Schedule, EmitJoined,
         EmitNext, CloseStep, Return, MustThrow, Throw, Crash, Rethrow, TriggerFails

LEMMA RetiredKept ==
  ASSUME NEW D, Inv(D), [Next]_vars, NEW k, Retired(k)
  PROVE  Retired(k)'
<1>1. BodiesKept /\ Counting
  BY BodiesStay, CountsGrow
<1>2. PICK m \in Msg, r \in 1 .. MaxReceive : k = <<m, r>>
  BY DEF Retired, Key
<1>3. m \in Used /\ k[1] = m /\ k[2] = r /\ r \in Nat
  <2>1. MaxReceive \in Nat
    BY WorkflowAssumption DEF WorkflowAssumption
  <2> QED
    BY <1>2, <2>1 DEF Retired
<1>4. m \in Used' /\ mail'[m].body = mail[m].body
  BY <1>1, <1>3 DEF BodiesKept, Used
<1>5. r <= mail[m].receives
  BY <1>3 DEF Retired
<1>6. mail[m].receives \in Nat /\ mail'[m].receives \in Nat
      /\ mail'[m].receives >= mail[m].receives
  BY <1>1, <1>3 DEF Counting
<1>7. r <= mail'[m].receives
  BY ONLY <1>3, <1>5, <1>6
<1>8. ASSUME NEW c \in Consumer, worker'[c].pc # "idle", Receipt(c)' = k
      PROVE  worker'[c].pc = "return"
  <2>1. worker'[c].msg = m /\ mail'[m].receives = r
    BY <1>2, <1>8 DEF Receipt
  <2>2. mail[m].receives = r
    BY ONLY <1>3, <1>5, <1>6, <2>1
  <2>3. ~(At(c, "idle") /\ Receive(c))
    <3> SUFFICES ASSUME Receive(c) PROVE FALSE
      OBVIOUS
    <3>1. PICK x \in Msg :
            /\ mail' = [mail EXCEPT ![x].state = "handled", ![x].receives = @ + 1]
            /\ worker' = [worker EXCEPT ![c] =
                 [Resting EXCEPT !.pc = Dispatch(mail[x].body), !.msg = x]]
      BY DEF Receive
    <3>2. PICK p : p = Dispatch(mail[x].body)
      OBVIOUS
    <3>3. worker = [y \in Consumer |-> worker[y]]
      BY DEF Inv, WorkerInv
    <3>4. worker'[c].msg = x
      BY <3>1, <3>2, <3>3 DEF Resting
    <3>5. mail'[m].receives = mail[m].receives + 1
      BY <2>1, <3>1, <3>4 DEF Inv, MailInv, MailField
    <3>6. r = r + 1
      BY <2>1, <2>2, <3>5
    <3> QED
      BY <1>3, <3>6
  <2>4. worker[c].msg = m /\ ~At(c, "idle") => At(c, "return")
    <3>1. worker[c].msg = m => Receipt(c) = k
      BY <1>2, <2>2 DEF Receipt
    <3> QED
      BY <3>1 DEF Retired
  <2>5. CASE worker'[c] = worker[c]
    BY <1>8, <2>1, <2>4, <2>5 DEF At
  <2>6. CASE ~At(c, "idle") /\ worker'[c].msg = worker[c].msg /\ MovesTo(c, worker'[c])
    <3>1. At(c, "return")
      BY <2>1, <2>4, <2>6
    <3> QED
      BY <2>6, <3>1 DEF MovesTo, Hop, At
  <2> QED
    BY <1>8, <2>3, <2>5, <2>6, HandlerFollows
<1> QED
  BY <1>3, <1>4, <1>7, <1>8 DEF Retired, At

LEMMA OverKept ==
  ASSUME NEW D, Inv(D), [Next]_vars, \A c \in Consumer : Keyed(c),
         \A c \in Consumer : ~At(c, "idle") => Asked(Body(c)),
         NEW k, Retired(k), Over(k)
  PROVE  Over(k)'
<1>1. CASE UNCHANGED hist
  BY <1>1 DEF Over
<1>2. ASSUME NEW x, NEW s, hist' = Record(x, s), x # k \/ s = "Finished"
      PROVE  Over(k)'
  BY <1>2 DEF Over, Record
<1>3. ASSUME NEW c \in Consumer, ~At(c, "idle"), ~At(c, "return")
      PROVE  /\ Receipt(c) # k
             /\ Body(c).wsxh # None => Body(c).wsxh # k
  BY <1>3 DEF Retired, Asked
<1>4. ASSUME NEW c \in Consumer, worker[c].pc \in InsideTry
      PROVE  worker[c].key # k
  <2>1. ~At(c, "idle") /\ ~At(c, "return")
    BY <1>4 DEF InsideTry, At
  <2>2. worker[c].key = IF Body(c).wsxh = None THEN Receipt(c) ELSE Body(c).wsxh
    BY <1>4 DEF Keyed
  <2> QED
    BY <1>3, <2>1, <2>2
<1>5. ASSUME NEW c \in Consumer, ReadExecution(c) \/ ClaimStep(c) \/ TriggerFails(c)
      PROVE  Over(k)'
  <2>1. ~At(c, "idle") /\ ~At(c, "return")
    BY <1>5 DEF ReadExecution, ClaimStep, TriggerFails, At
  <2>2. hist' = hist \/ \E s : hist' = Record(Receipt(c), s)
    BY <1>5 DEF ReadExecution, ClaimStep, TriggerFails
  <2> QED
    BY <1>1, <1>2, <1>3, <2>1, <2>2
<1>6. ASSUME NEW c \in Consumer, ReopenStep(c)
      PROVE  Over(k)'
  <2>1. ~At(c, "idle") /\ ~At(c, "return") /\ At(c, "rerun")
    BY <1>6 DEF ReopenStep, At
  <2>2. Body(c).rerun /\ Sound(Body(c))
    BY <2>1, Handling DEF Fits, At, Body
  <2>3. Body(c).wsxh # None
    BY <2>2, NoneAssumption DEF Sound, UsedKey, NoneAssumption
  <2>4. hist' = Record(Body(c).wsxh, "Started")
    BY <1>6 DEF ReopenStep
  <2> QED
    BY <1>2, <1>3, <2>1, <2>3, <2>4
<1>7. ASSUME NEW c \in Consumer, MarkError(c) \/ Throw(c) \/ MustThrow(c)
      PROVE  Over(k)'
  <2>1. MarkError(c) => worker[c].pc \in InsideTry
    BY DEF MarkError, At, InsideTry
  <2>2. hist' = hist \/ (worker[c].pc \in InsideTry /\ \E s : hist' = Record(worker[c].key, s))
    BY <1>7, <2>1 DEF MarkError, Throw, MustThrow, Rethrow
  <2> QED
    BY <1>1, <1>2, <1>4, <2>2
<1>8. ASSUME NEW c \in Consumer, FinishParent(c) \/ CloseStep(c)
      PROVE  Over(k)'
  <2>1. \E x : hist' = Record(x, "Finished")
    BY <1>8 DEF FinishParent, CloseStep
  <2> QED
    BY <1>2, <2>1
<1>9. CASE User
  BY <1>1, <1>9 DEF User, Rerun, Decide, SetStatus
<1> QED
  BY <1>1, <1>5, <1>6, <1>7, <1>8, <1>9, ZenonT(60)
     DEF Next, Receive, Handle, Fault, Redrive, Answer, AllSettled, vars,
         EndExecution, ResumeParent, LoopBack, LogTrigger, AskExternal, ForkBranches,
         ArriveBranch, Perform, ConditionFails, StopExecution, ContinueAfterError, CreateChild,
         SendChild, AskApproval, Schedule, JoinBranches, EmitJoined, EmitNext, Return, Crash

LEMMA KeyedNext ==
  ASSUME NEW D, Inv(D), [Next]_vars, NEW c \in Consumer, Keyed(c)
  PROVE  Keyed(c)'
<1> DEFINE Inside == InsideTry \union {"external"}
<1> SUFFICES ASSUME worker'[c].pc \in Inside
             PROVE  worker'[c].key = IF Body(c)'.wsxh = None THEN Receipt(c)' ELSE Body(c)'.wsxh
  BY DEF Keyed
<1>1. BodiesKept /\ Counting
  BY BodiesStay, CountsGrow
<1>2. worker'[c].pc # "idle"
  BY DEF InsideTry
<1>3. ASSUME ~At(c, "idle"), worker'[c].msg = worker[c].msg
      PROVE  Body(c)' = Body(c) /\ Receipt(c)' = Receipt(c)
  <2>1. worker[c].msg \in Used /\ mail[worker[c].msg].state = "handled"
    BY <1>3, Handling DEF Fits, At
  <2>2. mail'[worker[c].msg].receives = mail[worker[c].msg].receives
    BY <1>1, <2>1 DEF Counting
  <2>3. mail'[worker[c].msg].body = mail[worker[c].msg].body
    BY <1>1, <2>1 DEF BodiesKept
  <2> QED
    BY <1>3, <2>2, <2>3 DEF Body, Receipt
<1>4. ASSUME worker[c].pc \in Inside, worker'[c].key = worker[c].key,
             worker'[c].msg = worker[c].msg
      PROVE  worker'[c].key = IF Body(c)'.wsxh = None THEN Receipt(c)' ELSE Body(c)'.wsxh
  <2>1. ~At(c, "idle")
    BY <1>4 DEF InsideTry, At
  <2> QED
    BY <1>3, <1>4, <2>1 DEF Keyed
<1>5. CASE worker'[c] = worker[c]
  BY <1>4, <1>5
<1>6. CASE Receive(c)
  <2>1. PICK x \in Msg :
          worker' = [worker EXCEPT ![c] =
                       [Resting EXCEPT !.pc = Dispatch(mail[x].body), !.msg = x]]
    BY <1>6 DEF Receive
  <2>2. PICK p : p = Dispatch(mail[x].body)
    OBVIOUS
  <2>3. worker = [y \in Consumer |-> worker[y]]
    BY DEF Inv, WorkerInv
  <2>4. worker'[c].pc = p
    BY <2>1, <2>2, <2>3 DEF Resting
  <2> QED
    BY <2>2, <2>4 DEF Dispatch, InsideTry
<1>7. CASE ~At(c, "idle") /\ worker'[c].msg = worker[c].msg /\ MovesTo(c, worker'[c])
  <2>1. CASE Hop(worker[c].pc, worker'[c].pc) /\ worker'[c].key = worker[c].key
    <3>1. worker[c].pc \in Inside
      BY <2>1 DEF Hop, InsideTry
    <3> QED
      BY <1>4, <1>7, <2>1, <3>1
  <2>2. CASE worker[c].pc \in {"claim", "rerun"} /\ worker'[c].key = OpenKey(c)
    <3>1. At(c, "rerun") => Body(c).wsxh # None
      <4>1. At(c, "rerun") => Body(c).rerun /\ Sound(Body(c))
        BY <1>7, Handling DEF Fits, At, Body
      <4> QED
        BY <4>1, NoneAssumption, SMTT(60) DEF Sound, UsedKey, NoneAssumption
    <3>2. OpenKey(c) = IF Body(c).wsxh = None THEN Receipt(c) ELSE Body(c).wsxh
      BY <2>2, <3>1 DEF OpenKey, At
    <3> QED
      BY <1>3, <1>7, <2>2, <3>2
  <2>3. CASE At(c, "perform") /\ worker'[c].key = worker[c].key
    <3>1. worker[c].pc \in Inside
      BY <2>3 DEF At, InsideTry
    <3> QED
      BY <1>4, <1>7, <2>3, <3>1
  <2> QED
    BY <1>7, <2>1, <2>2, <2>3 DEF MovesTo
<1> QED
  BY <1>2, <1>5, <1>6, <1>7, HandlerFollows

LEMMA EndingNext ==
  ASSUME NEW D, Inv(D), NoUsers, [Next]_vars, \A x \in Consumer : Keyed(x),
         \A x \in Consumer : ~At(x, "idle") => Fine(Body(x)),
         NEW c \in Consumer, Ending(c)
  PROVE  Ending(c)'
<1> SUFFICES ASSUME worker'[c].pc \in {"resume", "resumed"}
             PROVE  /\ exec'[Body(c)'.exec].status \in {"Finished", "Error"}
                    /\ worker'[c].pc = "resumed" =>
                         Body(c)'.parent.key \in DOMAIN hist' /\ hist'[Body(c)'.parent.key] = "Finished"
  BY DEF Ending, At, Ended, Over
<1> PICK e, k : e = Body(c).exec /\ k = Body(c).parent.key
  OBVIOUS
<1>1. /\ ~At(c, "idle") /\ worker'[c].msg = worker[c].msg
      /\ \/ worker'[c].pc = worker[c].pc
         \/ At(c, "end") /\ worker'[c].pc = "resume"
         \/ At(c, "resume") /\ worker'[c].pc = "resumed"
  <2>1. worker'[c].pc # "idle" /\ (worker'[c] = worker[c] => ~At(c, "idle"))
    BY DEF At
  <2>2. ~Receive(c)
    <3> SUFFICES ASSUME Receive(c) PROVE FALSE
      OBVIOUS
    <3>1. PICK x \in Msg :
            worker' = [worker EXCEPT ![c] =
                         [Resting EXCEPT !.pc = Dispatch(mail[x].body), !.msg = x]]
      BY DEF Receive
    <3>2. PICK p : p = Dispatch(mail[x].body)
      OBVIOUS
    <3>3. worker = [y \in Consumer |-> worker[y]]
      BY DEF Inv, WorkerInv
    <3>4. worker'[c].pc = p
      BY <3>1, <3>2, <3>3 DEF Resting
    <3> QED
      BY <3>2, <3>4 DEF Dispatch
  <2>3. MovesTo(c, worker'[c]) => \/ At(c, "end") /\ worker'[c].pc = "resume"
                                  \/ At(c, "resume") /\ worker'[c].pc = "resumed"
    <3>1. worker'[c].pc \notin Chosen /\ "emit" \in Chosen
      BY DEF Chosen
    <3>2. worker'[c].pc # Begin(Body(c))
      BY DEF Begin
    <3>3. \A ok \in BOOLEAN : Route(Body(c), ok) \in Chosen
      BY DEF Route, Chosen
    <3> QED
      BY <3>1, <3>2, <3>3 DEF MovesTo, Hop, At
  <2> QED
    BY <2>1, <2>2, <2>3, HandlerFollows
<1>2. Body(c)' = Body(c)
  BY <1>1, BodiesStay, Handling DEF Body, BodiesKept
<1>3. e \in Exec /\ Fits(worker[c]) /\ Fine(Body(c))
  BY <1>1, Handling DEF Sound, IsDetail
<1>4. CASE worker'[c].pc = worker[c].pc
  <2>1. Ended(e)'
    BY <1>3, <1>4, EndedStays DEF Ending
  <2>2. ASSUME worker[c].pc = "resumed" PROVE Over(k)'
    <3>1. Over(k)
      BY <2>2, SMTT(60) DEF Ending, At
    <3>2. Retired(k)
      BY <1>3, <2>2 DEF Fine, Fits, Body
    <3> QED
      BY <3>1, <3>2, OverKept DEF Fine
  <2> QED
    BY <1>2, <1>4, <2>1, <2>2 DEF Ended, Over
<1>5. CASE At(c, "end") /\ worker'[c].pc = "resume"
  <2>1. exec' = [exec EXCEPT ![e].status = "Finished"]
    BY <1>5, ParentMoves DEF EndExecution
  <2>2. exec'[e].status = "Finished"
    BY <1>3, <2>1 DEF Inv, ExecOK
  <2> QED
    BY <1>2, <1>5, <2>2
<1>6. CASE At(c, "resume") /\ worker'[c].pc = "resumed"
  <2>1. hist' = Record(k, "Finished")
    BY <1>6, ParentMoves DEF FinishParent
  <2>2. k \in DOMAIN hist' /\ hist'[k] = "Finished"
    BY <2>1 DEF Record
  <2>3. Ended(e)'
    BY <1>3, <1>6, EndedStays DEF Ending, At
  <2> QED
    BY <1>2, <2>2, <2>3 DEF Ended
<1> QED
  BY <1>1, <1>4, <1>5, <1>6

LEMMA FineKept ==
  ASSUME NEW D, Inv(D), [Next]_vars, NEW d, Fine(d), NEW x, x.parent = d.parent,
         x.wsxh = None \/ (x.wsxh = d.wsxh /\ x.step = d.step)
  PROVE  Fine(x)'
<1>1. BodiesKept
  BY BodiesStay
<1>2. Asked(x)'
  BY <1>1 DEF Fine, Asked, BodiesKept, Used
<1>3. ASSUME x.parent # None PROVE Retired(x.parent.key)'
  <2>1. PICK k : k = x.parent.key
    OBVIOUS
  <2>2. Retired(k)
    BY <1>3, <2>1 DEF Fine
  <2> QED
    BY <2>1, <2>2, RetiredKept
<1> QED
  BY <1>2, <1>3 DEF Fine

LEMMA NewFine ==
  ASSUME NEW D, Inv(D), [Next]_vars, NoUsers, \A c \in Consumer : Stands(c) /\ Keyed(c),
         NEW L, Gathers(L), \A d \in L : Fine(d), NEW d, IsNew(d)
  PROVE  Fine(d)'
<1>1. \A c \in Consumer : ~At(c, "idle") =>
        /\ Fine(Body(c)) /\ Sound(Body(c)) /\ Fits(worker[c])
        /\ worker[c].msg \in Used /\ StandsAt(worker[c].pc, worker[c].next, Body(c))
  BY Handling DEF Gathers, Body, Stands
<1>2. BodiesKept /\ Counting
  BY BodiesStay, CountsGrow
<1>3. ~CalledFor(d)
  BY DEF CalledFor, NoUsers
<1>4. ASSUME NEW c \in Consumer, ~At(c, "idle"), SameRun(c, d), d.wsxh = None
      PROVE  Fine(d)'
  BY <1>1, <1>4, FineKept DEF SameRun
<1>5. ASSUME NEW c \in Consumer, At(c, "loop"), TurnsBack(c, d)
      PROVE  Fine(d)'
  <2>1. ~At(c, "idle") /\ worker[c].pc = "loop"
    BY <1>5, SMTT(60) DEF At
  <2>2. T[Body(c).step] = "End Loop"
    BY <1>1, <2>1 DEF Fits, Body, LoopsAgain
  <2>3. Body(c).wsxh = None
    BY <1>1, <2>1, <2>2 DEF Fine, Asked
  <2> QED
    BY <1>4, <1>5, <2>1, <2>3 DEF TurnsBack
<1>6. ASSUME NEW c \in Consumer, At(c, "sendChild"), Spawns(c, d), Leaves(c)
      PROVE  Fine(d)'
  <2>1. ~At(c, "idle") /\ worker[c].pc = "sendChild"
    BY <1>6 DEF At
  <2>2. PICK b, k, m : b = Body(c) /\ k = worker[c].key /\ m = worker[c].msg
    OBVIOUS
  <2>3. b.step \in Step /\ T[b.step] = "SubWorkflow" /\ m \in Used /\ b = mail[m].body
    BY <1>1, <2>1, <2>2 DEF Fits, Body
  <2>4. b.wsxh = None
    BY <1>1, <2>1, <2>2, <2>3 DEF Fine, Asked
  <2>5. k = Receipt(c) /\ k \in Key
    BY <1>1, <2>1, <2>2, <2>4 DEF Keyed, Fits, UsedKey, InsideTry
  <2>6. PICK r : k = <<m, r>> /\ r = mail[m].receives
    BY <2>2, <2>5 DEF Receipt
  <2>7. m \in Used' /\ mail'[m].body = b
    BY <1>2, <2>3 DEF BodiesKept, Used
  <2>8. r <= mail'[m].receives
    BY <1>2, <2>3, <2>6 DEF Counting
  <2>9. ASSUME NEW x \in Consumer, worker'[x].pc # "idle", Receipt(x)' = k
        PROVE  worker'[x].pc = "return"
    <3>1. worker'[x].msg = m /\ worker'[c].msg = m /\ worker'[c].pc = "return"
      BY <1>6, <2>2, <2>6, <2>9 DEF Receipt, Leaves
    <3>2. Exclusive'
      BY NextInv DEF IInv, Inv, WorkerInv
    <3> QED
      BY <2>9, <3>1, <3>2 DEF Exclusive, At
  <2>10. Retired(k)'
    BY <2>3, <2>5, <2>6, <2>7, <2>8, <2>9 DEF Retired, At
  <2>11. d.wsxh = None /\ (d.parent # None => d.parent.key = k)
    BY <1>6, <2>2 DEF Spawns
  <2> QED
    BY <2>10, <2>11 DEF Fine, Asked
<1>7. ASSUME NEW c \in Consumer, At(c, "external"), HandsOver(c, d)
      PROVE  Fine(d)'
  <2>1. ~At(c, "idle") /\ worker[c].pc = "external"
    BY <1>7, SMTT(60) DEF At
  <2>2. PICK b, k, m : b = Body(c) /\ k = worker[c].key /\ m = worker[c].msg
    OBVIOUS
  <2>3. b.step \in Step /\ T[b.step] = "External" /\ m \in Used /\ b = mail[m].body
    BY <1>1, <2>1, <2>2 DEF Fits, Body, StandsAt
  <2>4. Fine(b) /\ d.parent = b.parent /\ d.step = b.step /\ d.wsxh = k
    BY <1>1, <1>7, <2>1, <2>2 DEF HandsOver, SameRun
  <2>5. k[1] \in Used /\ T[mail[k[1]].body.step] = "External"
    <3>1. CASE b.wsxh = None
      <4>1. k = Receipt(c)
        BY <2>1, <2>2, <3>1 DEF Keyed
      <4>2. k[1] = m
        BY <2>2, <4>1 DEF Receipt
      <4> QED
        BY <2>3, <4>2
    <3>2. CASE b.wsxh # None
      <4>1. k = b.wsxh
        BY <2>1, <2>2, <3>2, SMTT(60) DEF Keyed
      <4> QED
        BY <2>4, <3>2, <4>1 DEF Fine, Asked
    <3> QED
      BY <3>1, <3>2
  <2>6. Fine(d)
    BY <2>3, <2>4, <2>5 DEF Fine, Asked
  <2> QED
    BY <2>6, FineKept
<1>8. ASSUME NEW c \in Consumer, worker[c].pc \in Emitting \union {"delay", "sendChild"}, GoesOn(c, d)
      PROVE  Fine(d)'
  BY <1>4, <1>8 DEF GoesOn, Emitting, At
<1> QED
  BY <1>3, <1>5, <1>6, <1>7, <1>8 DEF IsNew, SentBy

LEMMA SentByEndKept ==
  ASSUME NEW D, Inv(D), NoUsers, [Next]_vars, \A c \in Consumer : Keyed(c),
         NEW L, Gathers(L), \A d \in L : Fine(d), NEW b, SentByEnd(b)
  PROVE  SentByEnd(b)'
<1>1. PICK n \in Used : LET child == mail[n].body IN
        /\ T[child.step] = "End" /\ child.parent # None /\ b \in child.parent.next
        /\ child.exec \in Exec /\ Ended(child.exec) /\ Over(child.parent.key)
  BY DEF SentByEnd
<1>2. PICK child, e, k : child = mail[n].body /\ e = child.exec /\ k = child.parent.key
  OBVIOUS
<1>3. n \in Used' /\ mail'[n].body = child
  BY <1>2, BodiesStay DEF BodiesKept, Used
<1>4. Ended(e)'
  BY <1>1, <1>2, EndedStays
<1>5. Fine(child) /\ \A c \in Consumer : ~At(c, "idle") => Asked(Body(c))
  BY <1>2, Handling DEF Gathers, Fine, Body
<1>6. Over(k)'
  BY <1>1, <1>2, <1>5, OverKept DEF Fine
<1>7. T[child.step] = "End" /\ child.parent # None /\ b \in child.parent.next /\ e \in Exec
  BY <1>1, <1>2
<1> QED
  BY <1>2, <1>3, <1>4, <1>6, <1>7 DEF SentByEnd, Ended, Over

\* What a handler emits, and what it schedules, is not a step after a child.
LEMMA EmittedWaitsNot ==
  ASSUME NEW D, Inv(D), LoopInv, NoUsers, NEW d,
         SentBy(d) \/ \E c \in Consumer : At(c, "delay") /\ GoesOn(c, d)
  PROVE  ~Waits(d)
<1> SUFFICES ASSUME Waits(d) PROVE FALSE
  OBVIOUS
<1>1. d.step \in Step /\ AfterChild(d.step) /\ d.step # NoStep
  BY WorkflowAssumption DEF Waits, WorkflowAssumption
<1>2. \A c \in Consumer : ~At(c, "idle") =>
        Turned(Body(c)) /\ Fits(worker[c]) /\ StandsAt(worker[c].pc, worker[c].next, Body(c))
  BY Handling DEF LoopInv, Gathers, Body, Stands
<1>3. ~CalledFor(d)
  BY DEF CalledFor, NoUsers
<1>4. ASSUME NEW c \in Consumer, At(c, "loop"), TurnsBack(c, d)
      PROVE  FALSE
  <2>1. ~At(c, "idle") /\ worker[c].pc = "loop"
    BY <1>4, SMTT(60) DEF At
  <2>2. Body(c).loop # None
    BY <1>2, <2>1 DEF Fits, Body, LoopsAgain
  <2>3. PICK s \in Step : T[s] = "Start Loop" /\ d.step \in ToSet(NAID[s])
    BY <1>2, <1>4, <2>1, <2>2 DEF Turned, TurnsBack
  <2> QED
    BY <1>1, <2>3 DEF AfterChild, Leads
<1>5. ASSUME NEW c \in Consumer, At(c, "sendChild"), Spawns(c, d)
      PROVE  FALSE
  <2>1. ~At(c, "idle") /\ worker[c].pc = "sendChild"
    BY <1>5 DEF At
  <2>2. Body(c).step \in Step /\ T[Body(c).step] = "SubWorkflow"
    BY <1>2, <2>1 DEF Fits, Body
  <2>3. d.step \in Starts
    BY <1>5, <2>2 DEF Spawns, Starts
  <2> QED
    BY <1>1, <2>3 DEF AfterChild
<1>6. ASSUME NEW c \in Consumer, worker[c].pc \in Emitting \union {"delay"}, GoesOn(c, d)
      PROVE  FALSE
  <2>1. worker[c].pc \in Chosen /\ ~At(c, "idle")
    BY <1>6 DEF Emitting, Chosen, At
  <2>2. LeadsOn(worker[c].next, Body(c)) /\ Body(c).step \in Step
    BY <1>2, <2>1, AtChosen DEF StandsAt
  <2>3. T[Body(c).step] # "SubWorkflow"
    BY <1>2, <1>6, <2>1 DEF StandsAt, Emitting
  <2>4. d.step \in Leads(Body(c).step)
    BY <1>1, <1>6, <2>2 DEF GoesOn, LeadsOn
  <2> QED
    BY <1>1, <2>2, <2>3, <2>4 DEF AfterChild
<1> QED
  BY <1>3, <1>4, <1>5, <1>6 DEF SentBy, At

LEMMA NoUsersNext ==
  ASSUME NoUsers, [Next]_vars
  PROVE  NoUsers'
<1>1. budget.throws \in Nat /\ budget.crashes \in Nat /\ budget.losses \in Nat
  BY DEF NoUsers
<1>2. ~UserCall
  BY DEF UserCall, NoUsers
<1>3. CASE UNCHANGED budget
  BY <1>3 DEF NoUsers
<1>4. CASE budget.throws > 0 /\ budget' = [budget EXCEPT !.throws = @ - 1]
  <2>1. PICK n \in Nat : n = budget.throws - 1
    BY <1>1, <1>4
  <2>2. budget' = [budget EXCEPT !.throws = n]
    BY <1>4, <2>1
  <2> QED
    BY <2>2 DEF NoUsers
<1>5. CASE budget.crashes > 0 /\ budget' = [budget EXCEPT !.crashes = @ - 1]
  <2>1. PICK n \in Nat : n = budget.crashes - 1
    BY <1>1, <1>5
  <2>2. budget' = [budget EXCEPT !.crashes = n]
    BY <1>5, <2>1
  <2> QED
    BY <2>2 DEF NoUsers
<1>6. CASE budget.losses > 0 /\ budget' = [budget EXCEPT !.losses = @ - 1]
  <2>1. PICK n \in Nat : n = budget.losses - 1
    BY <1>1, <1>6
  <2>2. budget' = [budget EXCEPT !.losses = n]
    BY <1>6, <2>1
  <2> QED
    BY <2>2 DEF NoUsers
<1>7. ASSUME NEW S, PutEvents(S)
      PROVE  NoUsers'
  BY <1>3, <1>6, <1>7 DEF PutEvents
<1>8. ASSUME NEW c \in Consumer,
             \/ ResumeParent(c) \/ LoopBack(c) \/ ContinueAfterError(c) \/ SendChild(c)
             \/ EmitJoined(c) \/ EmitNext(c)
      PROVE  NoUsers'
  <2>1. \E S : PutEvents(S)
    BY <1>8 DEF ResumeParent, LoopBack, ContinueAfterError, SendChild, EmitJoined, EmitNext
  <2> QED
    BY <1>7, <2>1
<1>9. ASSUME NEW c \in Consumer, AskExternal(c) \/ Schedule(c) \/ Fault(c)
      PROVE  NoUsers'
  BY <1>3, <1>4, <1>5, <1>6, <1>9, SMTT(60) DEF AskExternal, Schedule, Fault, Throw, Crash
<1>10. ASSUME NEW c \in Consumer, Receive(c) \/ Handle(c)
       PROVE  NoUsers'
  BY <1>3, <1>8, <1>9, <1>10
     DEF Handle, Receive, EndExecution, FinishParent, LogTrigger, ReadExecution, ClaimStep,
         ReopenStep, ForkBranches, ArriveBranch, Perform, MarkError, StopExecution, CreateChild,
         AskApproval, JoinBranches, CloseStep, Return, MustThrow, ConditionFails,
         TriggerFails
<1> QED
  BY <1>2, <1>3, <1>9, <1>10
     DEF Next, Redrive, Answer, User, Rerun, Decide, SetStatus, AllSettled, vars

LEMMA WaitNext == IInv /\ LoopInv /\ WaitInv /\ [Next]_vars => WaitInv'
<1> SUFFICES ASSUME IInv, LoopInv, WaitInv, [Next]_vars PROVE WaitInv'
  OBVIOUS
<1>1. PICK D : Inv(D)
  BY DEF IInv
<1>2. PICK L : Gathers(L) /\ \A d \in L : Fine(d)
  BY DEF WaitInv
<1>3. /\ NoUsers /\ \A c \in Consumer : Stands(c) /\ Keyed(c) /\ Ending(c)
      /\ \A c \in Consumer : ~At(c, "idle") => Fine(Body(c))
  BY <1>1, <1>2, Handling DEF WaitInv, LoopInv, Gathers, Body
<1>4. NoUsers' /\ \A c \in Consumer : Keyed(c)' /\ Ending(c)'
  BY <1>1, <1>3, NoUsersNext, KeyedNext, EndingNext
<1>5. PICK M : Gathers(M)' /\ \A d \in M : d \in L \/ IsNew(d)
  BY <1>1, <1>2, GatherStep
<1>6. \A d \in M : Fine(d)'
  BY <1>1, <1>2, <1>3, <1>5, FineKept, NewFine
<1>7. ASSUME NEW m \in Used', NEW b, b = mail'[m].body, Waits(b)
      PROVE  SentByEnd(b)'
  <2>1. CASE m \in Used
    <3>1. mail[m].body = b
      BY <1>1, <1>7, <2>1, BodiesStay DEF BodiesKept
    <3>2. SentByEnd(b)
      BY <1>7, <2>1, <3>1 DEF WaitInv
    <3> QED
      BY <1>1, <1>2, <1>3, <3>2, SentByEndKept
  <2>2. CASE m \notin Used
    <3>1. Arrives(b)
      BY <1>7, <2>2 DEF Arrives, Used
    <3>2. ~SentBy(b) /\ b \notin outside
      BY <1>1, <1>3, <1>7, EmittedWaitsNot DEF WaitInv
    <3>3. PICK c \in Consumer : At(c, "resumed") /\ Body(c).parent # None /\ b \in Body(c).parent.next
      BY <1>1, <3>1, <3>2, StepArrives
    <3>4. ~At(c, "idle") /\ worker[c].pc = "resumed"
      BY <3>3, SMTT(60) DEF At
    <3>5. /\ worker[c].msg \in Used /\ Body(c) = mail[worker[c].msg].body
          /\ Body(c).exec \in Exec
      BY <1>1, <3>4, Handling DEF Body, Sound, IsDetail
    <3>6. T[Body(c).step] = "End" /\ Ended(Body(c).exec) /\ Over(Body(c).parent.key)
      BY <1>3, <3>3, <3>4 DEF Stands, StandsAt, Ending
    <3>7. SentByEnd(b)
      BY <3>3, <3>5, <3>6 DEF SentByEnd
    <3> QED
      BY <1>1, <1>2, <1>3, <3>7, SentByEndKept
  <2> QED
    BY <2>1, <2>2
<1>8. ASSUME NEW b \in outside'
      PROVE  ~Waits(b)
  <2>1. CASE b \in outside
    BY <2>1 DEF WaitInv
  <2>2. ASSUME NEW c \in Consumer, At(c, "external"), HandsOver(c, b)
        PROVE  ~Waits(b)
    <3>1. b.wsxh = worker[c].key /\ worker[c].pc = "external" /\ ~At(c, "idle")
      BY <2>2 DEF HandsOver, At
    <3>2. worker[c].key \in Key
      BY <1>1, <3>1, Handling DEF Fits, UsedKey
    <3> QED
      BY <3>1, <3>2, NoneAssumption DEF Waits, NoneAssumption
  <2>3. CASE \E c \in Consumer : At(c, "delay") /\ GoesOn(c, b)
    BY <1>1, <1>3, <2>3, EmittedWaitsNot
  <2> QED
    BY <1>1, <2>1, <2>2, <2>3, StepHandsOver
<1>9. \A m \in Used' : Waits(mail'[m].body) => SentByEnd(mail[m].body)'
  <2> TAKE m \in Used'
  <2>1. PICK b : b = mail'[m].body
    OBVIOUS
  <2>2. Waits(b) => SentByEnd(b)'
    BY <1>7, <2>1
  <2> QED
    BY <2>1, <2>2 DEF SentByEnd, Ended, Over
<1>10. (\A m \in Used : Waits(mail[m].body) => SentByEnd(mail[m].body))'
  BY <1>9 DEF Waits
<1>11. (\A b \in outside : ~Waits(b))'
  BY <1>8 DEF Waits
<1> QED
  BY <1>4, <1>5, <1>6, <1>10, <1>11 DEF WaitInv

LEMMA WaitInit ==
  ASSUME Budget.users = 0, Init
  PROVE  WaitInv
<1>1. PICK D : Inv(D)
  BY InitInv DEF IInv
<1>2. \A c \in Consumer : At(c, "idle")
  BY <1>1, FirstGathered
<1>3. PICK L : Gathers(L) /\ \A d \in L : /\ d.step \in ToSet(First) /\ d.parent = None
                                         /\ d.wsxh = None
  BY <1>1, FirstGathered
<1>4. NoUsers
  BY WorkflowAssumption DEF WorkflowAssumption, Init, NoUsers
<1>5. \A c \in Consumer : Keyed(c) /\ Ending(c)
  BY <1>2 DEF Keyed, Ending, At, InsideTry
<1>6. \A d \in L : Fine(d) /\ ~Waits(d)
  BY <1>3 DEF Fine, Asked, Waits, AfterChild, Starts
<1>7. \A m \in Used : ~Waits(mail[m].body)
  BY <1>3, <1>6 DEF Gathers
<1> QED
  BY <1>3, <1>4, <1>5, <1>6, <1>7 DEF WaitInv, Init

LEMMA WaitDone == WaitInv => ParentWaits
BY DEF WaitInv, ParentWaits, Waits, SentByEnd, Ended, Over

\* While no user interferes, in any workflow with any number of consumers and
\* whatever throws, crashes and losses there are: the steps after a SubWorkflow
\* step are sent by the End of its child only, when the child has ended and the
\* step's record is Finished (runSubWorkflow and runEndStep's parentWSXH).
THEOREM ParentsWait ==
  ASSUME Budget.users = 0
  PROVE  Spec => []ParentWaits
<1>1. Init => IInv /\ LoopInv /\ WaitInv
  BY InitInv, LoopInit, WaitInit
<1>2. IInv /\ LoopInv /\ WaitInv /\ [Next]_vars => (IInv /\ LoopInv /\ WaitInv)'
  BY NextInv, LoopNext, WaitNext
<1>3. WaitInv => ParentWaits
  BY WaitDone
<1> QED
  BY <1>1, <1>2, <1>3, PTL DEF Spec
-------------------------------------------------------------------------------
(* Loops are completed: without users, a message of a step that a loop repeats *)
(* carries that loop                                                           *)

InTurn(d) ==
  \A p \in Step : <<p, d.step>> \in Repeats =>
    d.loop # None /\ d.loop.first \in ToSet(NAID[p]) /\ d.loop.max = NLoop[p]

TurnInv ==
  /\ NoUsers
  /\ \A c \in Consumer : Stands(c)
  /\ \E L : Gathers(L) /\ \A d \in L : Turned(d) /\ InTurn(d)

\* What a loop repeats is a step between its Start Loop and the other loops, and
\* what leads to it is the Start Loop or repeated with it.
LEMMA Repeated ==
  ASSUME NEW p, NEW s, <<p, s>> \in Repeats
  PROVE  /\ p \in Step /\ T[p] = "Start Loop"
         /\ s \in Step /\ T[s] # "Start Loop" /\ s \notin Starts
         /\ \A q \in Step : s \in Leads(q) => q = p \/ <<p, q>> \in Repeats
<1>1. /\ p \in Step /\ T[p] = "Start Loop" /\ s \in Step
      /\ \E R \in SUBSET {r \in Step \ Starts : T[r] # "Start Loop"} :
           /\ ToSet(NAID[p]) \union {s} \subseteq R
           /\ \A q \in Step \ (R \union {p}) : Leads(q) \intersect R = {}
  BY DEF Repeats
<1>2. PICK R \in SUBSET {r \in Step \ Starts : T[r] # "Start Loop"} :
         /\ ToSet(NAID[p]) \union {s} \subseteq R
         /\ \A q \in Step \ (R \union {p}) : Leads(q) \intersect R = {}
  BY <1>1
<1>3. ASSUME NEW q \in Step, s \in Leads(q), q # p
      PROVE  <<p, q>> \in Repeats
  <2>1. q \in R
    BY <1>2, <1>3
  <2>2. ToSet(NAID[p]) \union {q} \subseteq R
    BY <1>2, <2>1
  <2> QED
    BY <1>1, <1>2, <2>2 DEF Repeats
<1> QED
  BY <1>1, <1>2, <1>3

\* Whoever sends a message of a step that p repeats: the loop of p is in it.
LEMMA NewInTurn ==
  ASSUME NEW D, Inv(D), NoUsers, \A c \in Consumer : Stands(c),
         NEW L, Gathers(L), \A d \in L : Turned(d) /\ InTurn(d), NEW d, IsNew(d)
  PROVE  InTurn(d)
<1> SUFFICES ASSUME NEW p \in Step, <<p, d.step>> \in Repeats
             PROVE  /\ d.loop # None /\ d.loop.first \in ToSet(NAID[p])
                    /\ d.loop.max = NLoop[p]
  BY DEF InTurn
<1>1. \A c \in Consumer : ~At(c, "idle") =>
        Turned(Body(c)) /\ InTurn(Body(c)) /\ Sound(Body(c)) /\ Fits(worker[c])
        /\ StandsAt(worker[c].pc, worker[c].next, Body(c))
  BY Handling DEF Gathers, Body, Stands
<1>2. d.step \in Step /\ d.step # NoStep /\ d.step \notin Starts
  BY Repeated, WorkflowAssumption DEF WorkflowAssumption
<1>3. ASSUME NEW c \in Consumer, ~At(c, "idle"), d.loop = Body(c).loop, <<p, Body(c).step>> \in Repeats
      PROVE  /\ d.loop # None /\ d.loop.first \in ToSet(NAID[p])
             /\ d.loop.max = NLoop[p]
  BY <1>1, <1>3 DEF InTurn
<1>4. ASSUME NEW c \in Consumer, At(c, "loop"), TurnsBack(c, d)
      PROVE  /\ d.loop # None /\ d.loop.first \in ToSet(NAID[p])
             /\ d.loop.max = NLoop[p]
  <2>1. PICK l : l = Body(c).loop
    BY SMTT(60)
  <2>2. l # None /\ l \in Loop /\ Turned(Body(c))
    BY <1>1, <1>4, <2>1 DEF At, Fits, Body, LoopsAgain, Sound, IsDetail
  <2>3. d.loop = NextTurn(l) /\ d.step = l.first
    BY <1>4, <2>1 DEF TurnsBack
  <2>4. d.loop.first = l.first /\ d.loop.max = l.max
    BY <2>2, <2>3 DEF Loop, NextTurn
  <2>5. PICK q \in Step : T[q] = "Start Loop" /\ l.first \in ToSet(NAID[q]) /\ l.max = NLoop[q]
    BY <2>1, <2>2 DEF Turned
  <2>6. d.step \in Leads(q)
    BY <2>3, <2>5 DEF Leads
  <2>7. q = p
    <3>1. <<p, q>> \notin Repeats
      BY <2>5, Repeated
    <3> QED
      BY <2>6, <3>1, Repeated
  <2>8. l.current < l.max
    BY <1>1, <1>4, <2>1 DEF At, Fits, Body, LoopsAgain
  <2>9. NextTurn(l) \in Loop
    BY <2>2, <2>8 DEF Loop, NextTurn
  <2>10. d.loop # None
    BY <2>3, <2>9, NoneAssumption DEF NoneAssumption
  <2> QED
    BY <2>4, <2>5, <2>7, <2>10
<1>5. ASSUME NEW c \in Consumer, worker[c].pc \in Emitting \union {"delay", "sendChild"},
             GoesOn(c, d)
      PROVE  /\ d.loop # None /\ d.loop.first \in ToSet(NAID[p])
             /\ d.loop.max = NLoop[p]
  <2>1. PICK b : b = Body(c)
    OBVIOUS
  <2>2. worker[c].pc \in Chosen /\ ~At(c, "idle")
    BY <1>5 DEF Emitting, Chosen, At
  <2>3. LeadsOn(worker[c].next, b) /\ b.step \in Step
    BY <1>1, <2>1, <2>2, AtChosen DEF StandsAt
  <2>4. PICK s \in ToSet(worker[c].next) : d.step = s /\ d.loop = TurnOf(c, s)
    BY <1>5 DEF GoesOn
  <2>5. s \in Leads(b.step)
    BY <1>2, <2>3, <2>4 DEF LeadsOn
  <2>6. b.step = p \/ <<p, b.step>> \in Repeats
    BY <2>3, <2>4, <2>5, Repeated
  <2>7. CASE b.step = p
    <3>1. Here(c) = "Start Loop"
      BY <2>1, <2>7, Repeated DEF Here
    <3>2. d.loop = [max |-> NLoop[p], current |-> 1, first |-> s]
      BY <2>1, <2>4, <2>7, <3>1 DEF TurnOf
    <3>3. s \in ToSet(NAID[p])
      BY <2>3, <2>4, <2>7, Repeated DEF LeadsOn
    <3>4. NLoop[p] \in Nat \ {0} /\ s \in Step
      BY <2>4, Repeated, WorkflowAssumption DEF WorkflowAssumption
    <3>5. d.loop \in Loop
      BY <3>2, <3>4, FirstTurn
    <3>6. d.loop # None
      BY <3>5, NoneAssumption DEF NoneAssumption
    <3> QED
      BY <3>2, <3>3, <3>6
  <2>8. CASE <<p, b.step>> \in Repeats
    <3>1. Here(c) # "Start Loop"
      BY <2>1, <2>8, Repeated DEF Here
    <3>2. d.loop = Body(c).loop
      BY <2>4, <3>1 DEF TurnOf
    <3> QED
      BY <1>3, <2>1, <2>2, <2>8, <3>2
  <2> QED
    BY <2>6, <2>7, <2>8
<1>6. ASSUME NEW c \in Consumer, At(c, "sendChild"), Spawns(c, d)
      PROVE  FALSE
  <2>1. T[Body(c).step] = "SubWorkflow" /\ Body(c).step \in Step
    BY <1>1, <1>6, AtChosen DEF At, StandsAt, Chosen
  <2>2. d.step \in Starts
    BY <1>6, <2>1 DEF Spawns, Starts
  <2> QED
    BY <1>2, <2>2
<1>7. ~CalledFor(d)
  BY DEF CalledFor, NoUsers
<1>8. ASSUME NEW c \in Consumer, At(c, "external"), HandsOver(c, d)
      PROVE  /\ d.loop # None /\ d.loop.first \in ToSet(NAID[p])
             /\ d.loop.max = NLoop[p]
  BY <1>3, <1>8 DEF HandsOver, At
<1>9. CASE Arrives(d) /\ SentBy(d)
  BY <1>4, <1>5, <1>6, <1>7, <1>9 DEF SentBy
<1> QED
  BY <1>5, <1>8, <1>9 DEF IsNew

LEMMA TurnNext == IInv /\ TurnInv /\ [Next]_vars => TurnInv'
<1> SUFFICES ASSUME IInv, TurnInv, [Next]_vars PROVE TurnInv'
  OBVIOUS
<1>1. PICK D : Inv(D)
  BY DEF IInv
<1>2. PICK L : Gathers(L) /\ \A d \in L : Turned(d) /\ InTurn(d)
  BY DEF TurnInv
<1>3. BodiesKept
  BY <1>1, BodiesStay
<1>4. NoUsers /\ \A c \in Consumer : Stands(c)
  BY DEF TurnInv
<1>5. PICK M : Gathers(M)' /\ \A d \in M : d \in L \/ IsNew(d)
  BY <1>1, <1>2, GatherStep
<1>6. \A d \in M : Turned(d)' /\ InTurn(d)
  <2> TAKE d \in M
  <2>1. CASE d \in L
    BY <1>2, <1>3, <2>1, TurnedKept
  <2>2. CASE IsNew(d)
    BY <1>1, <1>2, <1>3, <1>4, <2>2, NewTurned, NewInTurn
  <2> QED
    BY <1>5, <2>1, <2>2
<1>7. \A d \in M : InTurn(d)'
  BY <1>6, SMTT(60) DEF InTurn
<1>8. NoUsers' /\ \A c \in Consumer : Stands(c)'
  BY <1>1, <1>4, NoUsersNext, StandsNext
<1> QED
  BY <1>5, <1>6, <1>7, <1>8 DEF TurnInv

LEMMA TurnInit ==
  ASSUME Budget.users = 0, Init
  PROVE  TurnInv
<1>1. PICK D : Inv(D)
  BY InitInv DEF IInv
<1>2. NoUsers
  BY WorkflowAssumption DEF WorkflowAssumption, Init, NoUsers
<1>3. \A d : d.step \in ToSet(First) => InTurn(d)
  BY Repeated DEF InTurn, Starts
<1> QED
  BY <1>1, <1>2, <1>3, FirstGathered DEF TurnInv, Stands, Turned

LEMMA TurnDone == IInv /\ TurnInv => LoopCompletes
<1> SUFFICES ASSUME IInv, TurnInv, NEW c \in Consumer, At(c, "emit"), Here(c) = "End Loop",
                    NEW p \in Step, <<p, Body(c).step>> \in Repeats
             PROVE  LET l == Body(c).loop
                    IN /\ l # None
                       /\ l.first \in ToSet(NAID[p]) /\ l.max = NLoop[p]
                       /\ Cardinality(SentFor(l.first, Body(c).exec)) >= NLoop[p]
  BY DEF LoopCompletes
<1>1. PICK D : Inv(D)
  BY DEF IInv
<1>2. PICK L : Gathers(L) /\ \A d \in L : Turned(d) /\ InTurn(d)
  BY DEF TurnInv
<1>3. ~At(c, "idle") /\ worker[c].pc \in Going
  BY DEF At, Going, Chosen
<1>4. Turned(Body(c)) /\ InTurn(Body(c)) /\ Sound(Body(c))
  BY <1>1, <1>2, <1>3, Handling DEF Gathers, Body
<1>5. PICK l : l = Body(c).loop
  OBVIOUS
<1>6. l # None /\ l.first \in ToSet(NAID[p]) /\ l.max = NLoop[p]
  BY <1>4, <1>5 DEF InTurn
<1>7. l \in Loop
  BY <1>4, <1>5, <1>6 DEF Sound, IsDetail
<1>8. ~(l.current < l.max)
  BY <1>3, <1>5, <1>6 DEF TurnInv, Stands, StandsAt, LoopsAgain, Here
<1>9. PICK k : k = Cardinality(SentFor(l.first, Body(c).exec))
  OBVIOUS
<1>10. k >= l.current
  BY <1>4, <1>5, <1>6, <1>9 DEF Turned
<1>11. k \in Nat
  <2>1. IsFiniteSet(Msg)
    BY WorkflowAssumption DEF WorkflowAssumption
  <2>2. SentFor(l.first, Body(c).exec) \subseteq Msg
    BY DEF SentFor, Used
  <2>3. PICK A : A = SentFor(l.first, Body(c).exec)
    OBVIOUS
  <2>4. IsFiniteSet(A)
    BY <2>1, <2>2, <2>3, FS_Subset
  <2> QED
    BY <1>9, <2>3, <2>4, FS_CardinalityType
<1>12. l.current \in Nat /\ l.max \in Nat
  BY <1>7 DEF Loop
<1>13. k >= l.max
  BY ONLY <1>8, <1>10, <1>11, <1>12
<1> QED
  BY <1>5, <1>6, <1>9, <1>13

\* Without user calls, in every workflow, with any number of consumers, throws,
\* deaths and lost events: an End Loop in the body of a loop leaves it only
\* after its first activity was sent as often as its Start Loop says (currentLoop
\* and numberOfLoop of handleMessage's loopConfig).
THEOREM LoopsComplete ==
  ASSUME Budget.users = 0
  PROVE  Spec => []LoopCompletes
<1>1. Init => IInv /\ TurnInv
  BY InitInv, TurnInit
<1>2. IInv /\ TurnInv /\ [Next]_vars => (IInv /\ TurnInv)'
  BY NextInv, TurnNext
<1>3. IInv /\ TurnInv => LoopCompletes
  BY TurnDone
<1> QED
  BY <1>1, <1>2, <1>3, PTL DEF Spec
===============================================================================
