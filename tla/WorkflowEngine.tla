---------------------------- MODULE WorkflowEngine ----------------------------
(***************************************************************************)
(* The step engine of the workflow API: Workflow.handleMessage run by the   *)
(* SQS consumers, over the execution record, the step execution history     *)
(* (WSXH) and the queue.  One message asks for one step; handling it reads  *)
(* the execution, runs the step's activity, saves the state and emits the   *)
(* messages of the next steps.  Every await that reads or writes shared     *)
(* state is a step of its own, so handlers of several consumers interleave, *)
(* and a handler may throw or its process may die between two of them.      *)
(***************************************************************************)
EXTENDS Naturals, Sequences, FiniteSets, SequencesExt, ParallelState

CONSTANTS
  Step,         \* the stored workflow steps
  T,            \* the activity type of each step (ACT.T)
  NAID,         \* the sequence of next activities of each step
  NLoop,        \* ACT.MD.NLoop of each Start Loop step
  ErrorAction,  \* ACT.MD.ErrorAction of each Web Service step
  DefaultNext,  \* ACT.MD.DefaultNext: the step an error goes to, or NoStep
  SubFirst,     \* the steps after the trigger of each SubWorkflow's workflow
  OnDecision,   \* ApproveStep and RejectStep of each Manual Approval step
  First,        \* the steps after the trigger of the workflow that is run
  Fragile,      \* the steps that their settings, or the data they meet, may fail
  Consumer,     \* consumer processes (one per running task)
  Exec,         \* numbers of executions, 1 .. n
  Msg,          \* message ids, 1 .. n: the bound on messages ever sent
  MaxReceive,   \* maxReceiveCount of the queue's redrive policy
  Budget,       \* how many throws, crashes, lost events and user calls occur
  NoStep,       \* "undefined" where a step is expected
  None          \* an absent field

\* A workflow as the designer saves it, a queue that accepts a message at least
\* once, an execution to run, room for its first messages, and a budget.
ASSUME WorkflowAssumption ==
  /\ NAID \in [Step -> Seq(Step)]
  /\ NoStep \notin Step
  /\ Fragile \subseteq Step
  /\ \A s \in Step : T[s] = "Start Loop" => NLoop[s] \in Nat \ {0}
  /\ \A s \in Step : T[s] = "SubWorkflow" => SubFirst[s] \in Seq(Step)
  /\ \A s \in Step : T[s] = "Manual Approval" =>
       OnDecision[s] \in [{"approve", "reject"} -> Step \union {NoStep}]
  /\ First \in Seq(Step)
  /\ MaxReceive \in Nat \ {0}
  /\ 1 \in Exec /\ Exec \subseteq Nat
  /\ IsFiniteSet(Msg) /\ Msg = 1 .. Cardinality(Msg)
  /\ Len(First) <= Cardinality(Msg)
  /\ Budget \in [throws: Nat, crashes: Nat, losses: Nat, users: Nat]

\* How many Parallel Starts are open after step s, when d are open before it.
DepthAfter(s, d) ==
  CASE T[s] = "Parallel Start" -> d + 1
    [] T[s] = "Parallel End"   -> d - 1
    [] OTHER                   -> d

\* The next steps a step that succeeds goes on with.
WaysOn(s) ==
  {n \in ToSet(NAID[s]) :
     T[s] = "Web Service" /\ ErrorAction[s] = "EXIT-PATH" => n # DefaultNext[s]}

\* A workflow whose Parallel Starts and Ends pair off: every way to a step
\* opens the same number of branches (depth), only a Parallel Start sends more
\* than one message, a loop turns in the branches it began in (loops: the first
\* activities of the loops a step may be in), and an End is outside all of them.
WellNested(depth, loops) ==
  /\ depth \in [Step -> Nat] /\ loops \in [Step -> SUBSET Step]
  /\ \A s \in ToSet(First) : depth[s] = 0
  /\ \A s \in Step :
       /\ T[s] # "SubWorkflow"
       /\ T[s] = "Parallel End" => depth[s] > 0
       /\ T[s] = "End" => depth[s] = 0
       /\ T[s] = "End Loop" => \A f \in loops[s] : depth[f] = depth[s] /\ f \in loops[f]
       /\ T[s] \notin {"Parallel Start", "Condition"} =>
            \A n, k \in WaysOn(s) : n = k
       /\ \A n \in ToSet(NAID[s]) :
            /\ depth[n] = DepthAfter(s, depth[s])
            /\ (IF T[s] = "Start Loop" THEN {n} ELSE loops[s]) \subseteq loops[n]

VARIABLES
  mail,     \* the queue: state, receive count and body of every message
  exec,     \* the execution records
  hist,     \* the step execution history records created so far: key -> status
  worker,   \* what each consumer is doing
  outside,  \* bodies that external services and timers will send back
  budget,   \* what is left of Budget
  joins     \* history: the <<execution, index>> of every join emitted so far

vars == <<mail, exec, hist, worker, outside, budget, joins>>

Key == Msg \X (1 .. MaxReceive)

\* What a message carries of the loop it is in (loopConfig).
Loop ==
  {l \in [max: Nat, current: Nat \ {0}, first: Step \union {NoStep}] : l.current <= l.max}

\* An absent field names no history record and holds no loop.
ASSUME NoneAssumption == None \notin Key /\ None \notin Loop

-------------------------------------------------------------------------------
(* Messages *)

\* A message that names a step of an execution and nothing else, as
\* initiatAWorkflowStep, trigger and runSubWorkflow build them.
Detail(s, e) ==
  [step |-> s, exec |-> e, idx |-> DefaultIndex, idxs |-> << >>,
   loop |-> None, parent |-> None, wsxh |-> None, rerun |-> FALSE,
   decision |-> "none", ext |-> FALSE, http |-> FALSE, by |-> None]

Used == {m \in Msg : mail[m].state # "unsent"}

\* The queue after the bodies S arrived, each as a new message.
Deliver(S) ==
  LET q == SetToSeq(S)
      n == Cardinality(Used)
  IN [m \in Msg |-> IF m > n /\ m <= n + Len(q)
                    THEN [state |-> "queued", receives |-> 0, body |-> q[m - n]]
                    ELSE mail[m]]

\* putEventsEB swallows its errors: the events arrive, or they are lost and
\* the caller does not learn it.
PutEvents(S) ==
  \/ /\ Cardinality(Used) + Cardinality(S) <= Cardinality(Msg)
     /\ mail' = Deliver(S)
     /\ UNCHANGED budget
  \/ /\ S # {}
     /\ budget.losses > 0
     /\ budget' = [budget EXCEPT !.losses = @ - 1]
     /\ UNCHANGED mail

\* The messages of a workflow's first steps; only the first carries httpTrigger.
FirstDetails(steps, e, parent) ==
  {[Detail(steps[i], e) EXCEPT !.http = (i = 1), !.parent = parent] :
     i \in DOMAIN steps}

NewExec == [status |-> "Running", parallel |-> << >>, ste |-> {}, logged |-> FALSE]

Unsent == [state |-> "unsent", receives |-> 0, body |-> None]

Resting ==
  [pc |-> "idle", msg |-> None, key |-> None, parallel |-> << >>, ste |-> {},
   idx |-> DefaultIndex, idxs |-> << >>, next |-> << >>, child |-> None]

\* An HTTP call has created execution 1 and sent the first steps (trigger).
Init ==
  /\ exec = [e \in Exec |-> IF e = 1 THEN NewExec
                                     ELSE [NewExec EXCEPT !.status = "none"]]
  /\ LET q == SetToSeq(FirstDetails(First, 1, None))
     IN mail = [m \in Msg |->
                  IF m <= Len(q)
                  THEN [state |-> "queued", receives |-> 0, body |-> q[m]]
                  ELSE Unsent]
  /\ hist = << >>
  /\ worker = [c \in Consumer |-> Resting]
  /\ outside = {}
  /\ budget = Budget
  /\ joins = << >>

-------------------------------------------------------------------------------
(* What a consumer is doing *)

At(c, p) == worker[c].pc = p

\* The receipt a consumer works on.
Receipt(c) == <<worker[c].msg, mail[worker[c].msg].receives>>

Body(c) == mail[worker[c].msg].body

Here(c) == T[Body(c).step]

\* createWorkflowStepExecutionHistory and saveWorkflowStepExecutionHistory: the
\* history with record k in the given status.
Record(k, status) ==
  [x \in {k} \union DOMAIN hist |-> IF x = k THEN status ELSE hist[x]]

Goto(c, p) == worker' = [worker EXCEPT ![c].pc = p]

\* Mutants of LoopsAgain: one turn too many, one turn too few.
LoopsOnceMore(b) ==
  T[b.step] = "End Loop" /\ b.loop # None /\ b.loop.current <= b.loop.max
LoopsOnceLess(b) ==
  T[b.step] = "End Loop" /\ b.loop # None /\ b.loop.current + 1 < b.loop.max

LoopsAgain(b) ==
  /\ T[b.step] = "End Loop"
  /\ b.loop # None
  /\ b.loop.current < b.loop.max

NextTurn(l) == [l EXCEPT !.current = @ + 1]

\* The order in which handleMessage tests a message before it reads anything.
Dispatch(b) ==
  IF b.step = NoStep THEN "undefined"
  ELSE IF T[b.step] = "End" THEN "end"
  ELSE IF LoopsAgain(b) THEN "loop"
  ELSE IF b.http /\ ~b.ext THEN "http"
  ELSE IF b.rerun THEN "rerun"
  ELSE "read"

\* The next await once the execution is known to run.
Begin(b) ==
  CASE T[b.step] = "External" /\ ~b.ext                 -> "external"
    [] T[b.step] \in {"Parallel Start", "Parallel End"} -> "parallel"
    [] OTHER                                            -> "perform"

\* Mutant of Route: a SubWorkflow step goes on without waiting for the child.
RouteWithoutChild(b, ok) ==
  IF ~ok THEN "error"
  ELSE CASE T[b.step] = "Manual Approval" /\ b.decision = "none" -> "ask"
         [] T[b.step] = "Delay" -> "delay"
         [] T[b.step] = "Parallel End" -> "join"
         [] OTHER -> "emit"

\* Where the handler goes after the activity ran and the state was saved.
Route(b, ok) ==
  IF ~ok THEN "error"
  ELSE CASE T[b.step] = "SubWorkflow" -> "child"
         [] T[b.step] = "Manual Approval" /\ b.decision = "none" -> "ask"
         [] T[b.step] = "Delay" -> "delay"
         [] T[b.step] = "Parallel End" -> "join"
         [] OTHER -> "emit"

\* The sequences of next steps the activity may choose.
NextChoices(b) ==
  CASE T[b.step] = "Condition" -> {<<s>> : s \in ToSet(NAID[b.step])}
    [] T[b.step] = "Manual Approval" /\ b.decision # "none"
                               -> {<<OnDecision[b.step][b.decision]>>}
    [] OTHER                   -> {NAID[b.step]}

\* pushEntries: the message of next step s.
Entry(c, s) ==
  LET b == Body(c)
      w == worker[c]
  IN [Detail(s, b.exec) EXCEPT
        !.idx = w.idx,
        !.idxs = w.idxs,
        !.parent = b.parent,
        !.loop = IF Here(c) = "Start Loop"
                 THEN [max |-> NLoop[b.step], current |-> 1, first |-> s]
                 ELSE b.loop]

Entries(c) == {Entry(c, s) : s \in ToSet(worker[c].next)}

\* Activities whose result is stored in the execution state (STE).
Produces(s) == T[s] \in {"Action", "Web Service", "External"}

-------------------------------------------------------------------------------
(* Receiving, and the paths that return early *)

\* The consumer receives a visible message; the queue counts the receipt.
Receive(c) ==
  /\ At(c, "idle")
  /\ \E m \in Msg :
       /\ mail[m].state = "queued"
       /\ mail[m].receives < MaxReceive
       /\ mail' = [mail EXCEPT ![m].state = "handled", ![m].receives = @ + 1]
       /\ worker' = [worker EXCEPT ![c] =
            [Resting EXCEPT !.pc = Dispatch(mail[m].body), !.msg = m]]
  /\ UNCHANGED <<exec, hist, outside, budget, joins>>

\* Mutant of Redrive: the first failure is the last.
RedriveAtOnce(m) ==
  /\ mail[m].state = "queued"
  /\ mail[m].receives > 0
  /\ mail' = [mail EXCEPT ![m].state = "dead"]
  /\ UNCHANGED <<exec, hist, worker, outside, budget, joins>>

\* The queue's redrive policy moves an exhausted message to the error queue.
Redrive(m) ==
  /\ mail[m].state = "queued"
  /\ mail[m].receives = MaxReceive
  /\ mail' = [mail EXCEPT ![m].state = "dead"]
  /\ UNCHANGED <<exec, hist, worker, outside, budget, joins>>

\* End: the execution is Finished, whatever its status was.
EndExecution(c) ==
  /\ At(c, "end")
  /\ exec' = [exec EXCEPT ![Body(c).exec].status = "Finished"]
  /\ Goto(c, IF Body(c).parent = None THEN "return" ELSE "resume")
  /\ UNCHANGED <<mail, hist, outside, budget, joins>>

\* End of a sub-workflow: the parent's step is Finished ...
FinishParent(c) ==
  /\ At(c, "resume")
  /\ hist' = Record(Body(c).parent.key, "Finished")
  /\ Goto(c, "resumed")
  /\ UNCHANGED <<mail, exec, outside, budget, joins>>

\* ... and its next steps, kept in the message since runSubWorkflow, are emitted.
ResumeParent(c) ==
  /\ At(c, "resumed")
  /\ PutEvents(Body(c).parent.next)
  /\ Goto(c, "return")
  /\ UNCHANGED <<exec, hist, outside, joins>>

\* End Loop before the last turn: the first activity is sent again with the
\* whole detail of this message.
LoopBack(c) ==
  /\ At(c, "loop")
  /\ LET b == Body(c)
     IN PutEvents({[b EXCEPT !.step = b.loop.first, !.loop = NextTurn(b.loop)]})
  /\ Goto(c, "return")
  /\ UNCHANGED <<exec, hist, outside, joins>>

-------------------------------------------------------------------------------
(* Opening the step: the execution record and the history record *)

\* UpdateHttpStepStatus creates the trigger's history record under a fixed
\* key: it succeeds once per execution (MustThrow covers the second time).
LogTrigger(c) ==
  /\ At(c, "http")
  /\ ~exec[Body(c).exec].logged
  /\ exec' = [exec EXCEPT ![Body(c).exec].logged = TRUE]
  /\ Goto(c, "read")
  /\ UNCHANGED <<mail, hist, outside, budget, joins>>

\* Mutant of ReadExecution: the message of a paused execution leaves no trace.
ReadSilently(c) ==
  /\ At(c, "read")
  /\ Goto(c, IF exec[Body(c).exec].status = "Pause" THEN "return" ELSE "claim")
  /\ UNCHANGED <<mail, exec, hist, outside, budget, joins>>

\* getCurrentWorkflowExecution reads the record.  A paused execution gets a
\* history record in state Pause and the message is consumed.
ReadExecution(c) ==
  /\ At(c, "read")
  /\ LET paused == exec[Body(c).exec].status = "Pause"
     IN /\ Goto(c, IF paused THEN "return" ELSE "claim")
        /\ hist' = IF paused THEN Record(Receipt(c), "Pause") ELSE hist
  /\ UNCHANGED <<mail, exec, outside, budget, joins>>

\* Mutant of Open: the state is not read with the record.
OpenStateless(c, key) ==
  LET b == Body(c)
  IN worker' = [worker EXCEPT ![c] =
       [@ EXCEPT !.pc = Begin(b), !.key = key, !.parallel = exec[b.exec].parallel,
                 !.idx = b.idx, !.idxs = b.idxs]]

\* The handler's copy of the record, and the history record it works under.
Open(c, key) ==
  LET b == Body(c)
      e == exec[b.exec]
  IN worker' = [worker EXCEPT ![c] =
       [@ EXCEPT !.pc = Begin(b), !.key = key, !.parallel = e.parallel,
                 !.ste = e.ste, !.idx = b.idx, !.idxs = b.idxs]]

\* The body the HTTP trigger responds with is parsed for the state, after the
\* record was created and outside the inner try: if it is not JSON, the record
\* stays Started.
TriggerFails(c) ==
  /\ At(c, "claim")
  /\ Body(c).http
  /\ Body(c).step \in Fragile
  /\ hist' = IF Body(c).wsxh = None THEN Record(Receipt(c), "Started") ELSE hist
  /\ mail' = [mail EXCEPT ![worker[c].msg].state = "queued"]
  /\ worker' = [worker EXCEPT ![c] = Resting]
  /\ UNCHANGED <<exec, outside, budget, joins>>

\* WSXH_IDS is saved, which returns the whole record as it is now; the history
\* record is created, or the one the message names is taken over.
ClaimStep(c) ==
  /\ At(c, "claim")
  /\ LET b == Body(c)
         key == IF b.wsxh = None THEN Receipt(c) ELSE b.wsxh
     IN /\ Open(c, key)
        /\ hist' = IF b.wsxh = None THEN Record(key, "Started") ELSE hist
  /\ UNCHANGED <<mail, exec, outside, budget, joins>>

\* rerunWorkflowStepExecutionHistory: no look at the execution's status.
ReopenStep(c) ==
  /\ At(c, "rerun")
  /\ Open(c, Body(c).wsxh)
  /\ hist' = Record(Body(c).wsxh, "Started")
  /\ UNCHANGED <<mail, exec, outside, budget, joins>>

\* runExternalService: the service gets the whole detail and answers later.
AskExternal(c) ==
  /\ At(c, "external")
  /\ \/ /\ outside' = outside \union
               {[Body(c) EXCEPT !.wsxh = worker[c].key, !.ext = TRUE, !.by = Receipt(c)]}
        /\ UNCHANGED budget
     \/ /\ budget.losses > 0
        /\ budget' = [budget EXCEPT !.losses = @ - 1]
        /\ UNCHANGED outside
  /\ Goto(c, "return")
  /\ UNCHANGED <<mail, exec, hist, joins>>

-------------------------------------------------------------------------------
(* Running the step *)

\* updateParallelStatus on Parallel Start: the entry is pushed to the copy the
\* handler read, and the whole list is saved.
ForkBranches(c) ==
  /\ At(c, "parallel")
  /\ Here(c) = "Parallel Start"
  /\ LET P == Fork(worker[c].parallel, Len(NAID[Body(c).step]))
     IN /\ exec' = [exec EXCEPT ![Body(c).exec].parallel = P]
        /\ worker' = [worker EXCEPT ![c] =
             [@ EXCEPT !.pc = "perform", !.parallel = P, !.idx = Len(P),
                       !.idxs = Append(worker[c].idxs, Len(P))]]
  /\ UNCHANGED <<mail, hist, outside, budget, joins>>

\* updateParallelStatus on Parallel End: the branch is counted in the copy the
\* handler read, and the whole list is saved.
ArriveBranch(c) ==
  /\ At(c, "parallel")
  /\ Here(c) = "Parallel End"
  /\ worker[c].parallel # << >>
  /\ LET P == Arrive(worker[c].parallel, worker[c].idx)
     IN /\ exec' = [exec EXCEPT ![Body(c).exec].parallel = P]
        /\ worker' = [worker EXCEPT ![c].pc = "perform", ![c].parallel = P]
  /\ UNCHANGED <<mail, hist, outside, budget, joins>>

\* The activity runs; the state read at the start and its result are saved as
\* the new state; the next steps are looked up.
Perform(c) ==
  /\ At(c, "perform")
  /\ LET b == Body(c)
         w == worker[c]
         ste == IF Produces(b.step) THEN w.ste \union {b.step} ELSE w.ste
     IN \E ok \in (IF Here(c) = "Web Service" THEN BOOLEAN ELSE {TRUE}),
           next \in NextChoices(b) :
          /\ exec' = [exec EXCEPT ![b.exec].ste = ste]
          /\ worker' = [worker EXCEPT ![c] =
               [@ EXCEPT !.pc = Route(b, ok), !.next = next]]
  /\ UNCHANGED <<mail, hist, outside, budget, joins>>

\* A condition none of whose choices holds, without a default, returns no next
\* id; one that cannot be evaluated returns its error as the next id.  Either
\* way no step is found, and the message sent for it names none.
ConditionFails(c) ==
  /\ At(c, "perform")
  /\ Here(c) = "Condition"
  /\ Body(c).step \in Fragile
  /\ exec' = [exec EXCEPT ![Body(c).exec].ste = worker[c].ste]
  /\ worker' = [worker EXCEPT ![c].pc = "emit", ![c].next = <<NoStep>>]
  /\ UNCHANGED <<mail, hist, outside, budget, joins>>

-------------------------------------------------------------------------------
(* After the activity: what is emitted, and the status of the history record *)

\* A Web Service error marks the step before ErrorAction is looked at.
MarkError(c) ==
  /\ At(c, "error")
  /\ hist' = Record(worker[c].key, "Error")
  /\ Goto(c, "onError")
  /\ UNCHANGED <<mail, exec, outside, budget, joins>>

StopExecution(c) ==
  /\ At(c, "onError")
  /\ ErrorAction[Body(c).step] = "STOP"
  /\ exec' = [exec EXCEPT ![Body(c).exec].status = "Error"]
  /\ Goto(c, "return")
  /\ UNCHANGED <<mail, hist, outside, budget, joins>>

\* IGNORE goes on with every next step, the others with DefaultNext only.
ContinueAfterError(c) ==
  /\ At(c, "onError")
  /\ LET s == Body(c).step
     IN /\ ErrorAction[s] # "STOP"
        /\ PutEvents({d \in Entries(c) :
                        ErrorAction[s] # "IGNORE" => d.step = DefaultNext[s]})
  /\ Goto(c, "return")
  /\ UNCHANGED <<exec, hist, outside, joins>>

\* runSubWorkflow: a new execution of the other workflow ...
CreateChild(c) ==
  /\ At(c, "child")
  /\ IF SubFirst[Body(c).step] = << >>
     THEN Goto(c, "return") /\ UNCHANGED exec
     ELSE \E e \in Exec :
            /\ exec[e].status = "none"
            /\ \A f \in 1 .. (e - 1) : exec[f].status # "none"
            /\ exec' = [exec EXCEPT ![e] = NewExec]
            /\ worker' = [worker EXCEPT ![c].pc = "sendChild", ![c].child = e]
  /\ UNCHANGED <<mail, hist, outside, budget, joins>>

\* ... and its first messages, which carry the parent's next messages.
SendChild(c) ==
  /\ At(c, "sendChild")
  /\ PutEvents(FirstDetails(SubFirst[Body(c).step], worker[c].child,
                 [key |-> worker[c].key, next |-> Entries(c)]))
  /\ Goto(c, "return")
  /\ UNCHANGED <<exec, hist, outside, joins>>

\* The approval e-mail is sent; the step stays Started.  Without an address
\* the activity returns nothing: the step is closed and nothing follows it.
AskApproval(c) ==
  /\ At(c, "ask")
  /\ \/ Goto(c, "return")
     \/ Body(c).step \in Fragile /\ Goto(c, "close")
  /\ UNCHANGED <<mail, exec, hist, outside, budget, joins>>

\* The rule of a Delay is named by the second it fires at, and every entry is
\* put as its target '1': the last entry stays, and it replaces the one of
\* another Delay that fires at the same second.  A date that is none, or has
\* gone, makes no rule that fires: the step is closed all the same.
Schedule(c) ==
  /\ At(c, "delay")
  /\ LET last == {[Entry(c, s) EXCEPT !.by = Receipt(c)] :
                    s \in IF worker[c].next = << >> THEN {} ELSE {Last(worker[c].next)}}
         timed == {b \in outside : ~b.ext}
     IN \/ /\ \E same \in {{}} \union {{b} : b \in timed} :
                outside' = IF last = {} THEN outside ELSE (outside \ same) \union last
           /\ UNCHANGED budget
        \/ /\ budget.losses > 0
           /\ budget' = [budget EXCEPT !.losses = @ - 1]
           /\ UNCHANGED outside
        \/ /\ Body(c).step \in Fragile
           /\ UNCHANGED <<outside, budget>>
  /\ Goto(c, "close")
  /\ UNCHANGED <<mail, exec, hist, joins>>

\* Mutant of JoinBranches: Parallel End waits for the other branches.
JoinWaits(c) ==
  /\ At(c, "join")
  /\ worker[c].idx \in DOMAIN worker[c].parallel
  /\ JoinReady(worker[c].parallel, worker[c].idx)
  /\ exec' = [exec EXCEPT ![Body(c).exec].parallel =
                Complete(worker[c].parallel, worker[c].idx)]
  /\ worker' = [worker EXCEPT ![c].pc = "joined"]
  /\ UNCHANGED <<mail, hist, outside, budget, joins>>

\* updateParallelFinished closes the join in the handler's copy and saves it.
JoinBranches(c) ==
  /\ At(c, "join")
  /\ LET w == worker[c]
         P == Complete(w.parallel, w.idx)
     IN /\ w.idx \in DOMAIN w.parallel
        /\ IF JoinReady(w.parallel, w.idx)
           THEN /\ exec' = [exec EXCEPT ![Body(c).exec].parallel = P]
                /\ worker' = [worker EXCEPT ![c].pc = "joined"]
           ELSE Goto(c, "close") /\ UNCHANGED exec
  /\ UNCHANGED <<mail, hist, outside, budget, joins>>

\* The messages after the join belong to the enclosing scopes.
EmitJoined(c) ==
  /\ At(c, "joined")
  /\ LET w == worker[c]
         outer == Enclosing(w.idxs, w.idx)
     IN /\ PutEvents({[d EXCEPT !.idxs = outer, !.idx = Innermost(outer)] :
                        d \in Entries(c)})
        /\ joins' = Append(joins, <<Body(c).exec, w.idx>>)
  /\ Goto(c, "close")
  /\ UNCHANGED <<exec, hist, outside>>

\* A Web Service on EXIT-PATH does not take its error path when it succeeds.
EmitNext(c) ==
  /\ At(c, "emit")
  /\ LET s == Body(c).step
     IN PutEvents({d \in Entries(c) :
          (T[s] = "Web Service" /\ ErrorAction[s] = "EXIT-PATH")
            => d.step # DefaultNext[s]})
  /\ Goto(c, "close")
  /\ UNCHANGED <<exec, hist, outside, joins>>

CloseStep(c) ==
  /\ At(c, "close")
  /\ hist' = Record(worker[c].key, "Finished")
  /\ Goto(c, "return")
  /\ UNCHANGED <<mail, exec, outside, budget, joins>>

\* handleMessage returned: the consumer deletes the message.
Return(c) ==
  /\ At(c, "return")
  /\ mail' = [mail EXCEPT ![worker[c].msg].state = "done"]
  /\ worker' = [worker EXCEPT ![c] = Resting]
  /\ UNCHANGED <<exec, hist, outside, budget, joins>>

-------------------------------------------------------------------------------
(* Failures *)

InsideTry ==
  {"parallel", "perform", "error", "onError", "child", "sendChild", "ask",
   "delay", "join", "joined", "emit", "close"}

\* The inner catch marks the step, the outer one asks for a retry and rethrows,
\* so the message is not deleted and becomes visible again.
Rethrow(c) ==
  /\ mail' = [mail EXCEPT ![worker[c].msg].state = "queued"]
  /\ hist' = IF worker[c].pc \in InsideTry
             THEN Record(worker[c].key, "Error") ELSE hist
  /\ worker' = [worker EXCEPT ![c] = Resting]
  /\ UNCHANGED <<exec, outside, joins>>

\* An await rejects: a database call, the activity, the e-mail.
Throw(c) ==
  /\ worker[c].pc \notin {"idle", "return"}
  /\ ~At(c, "undefined")
  /\ budget.throws > 0
  /\ budget' = [budget EXCEPT !.throws = @ - 1]
  /\ Rethrow(c)

\* The code itself throws: no step in the message, a trigger record that
\* exists already, a Parallel End without an entry to count in; the answer of
\* an activity that is no JSON, an External step without code, a SubWorkflow or
\* an approval whose workflow was deleted.
MustThrow(c) ==
  /\ \/ At(c, "undefined")
     \/ At(c, "http") /\ exec[Body(c).exec].logged
     \/ At(c, "perform") /\ Body(c).step \in Fragile /\ Here(c) \in {"Web Service", "Action"}
     \/ worker[c].pc \in {"external", "child", "ask"} /\ Body(c).step \in Fragile
     \/ /\ At(c, "parallel")
        /\ Here(c) = "Parallel End"
        /\ worker[c].parallel = << >>
     \/ At(c, "join") /\ worker[c].idx \notin DOMAIN worker[c].parallel
  /\ Rethrow(c)
  /\ UNCHANGED budget

\* The process dies; the message becomes visible when its timeout elapses.
Crash(c) ==
  /\ ~At(c, "idle")
  /\ budget.crashes > 0
  /\ budget' = [budget EXCEPT !.crashes = @ - 1]
  /\ mail' = [mail EXCEPT ![worker[c].msg].state = "queued"]
  /\ worker' = [worker EXCEPT ![c] = Resting]
  /\ UNCHANGED <<exec, hist, outside, joins>>

-------------------------------------------------------------------------------
(* The world around the engine *)

\* An external service answers, or the rule of a Delay fires.
Answer(b) ==
  /\ b \in outside
  /\ Cardinality(Used) < Cardinality(Msg)
  /\ mail' = Deliver({b})
  /\ outside' = outside \ {b}
  /\ UNCHANGED <<exec, hist, worker, budget, joins>>

\* A user call: the bound on them is Budget.users.
UserCall ==
  /\ budget.users > 0
  /\ budget' = [budget EXCEPT !.users = @ - 1]

\* initiatAWorkflowStep: the message knows the execution, the step and the
\* history record, and nothing of scopes, loops or parents.
Initiate(k, rerun, decision) ==
  LET b == mail[k[1]].body
  IN /\ Cardinality(Used) < Cardinality(Msg)
     /\ mail' = Deliver({[Detail(b.step, b.exec) EXCEPT
                            !.wsxh = k, !.rerun = rerun, !.decision = decision]})

\* The approver follows the e-mail or the list of pending approvals; the call
\* does not look at the record's status.  Neither knows a paused step.
Decide(k, decision) ==
  /\ UserCall
  /\ hist[k] # "Pause"
  /\ T[mail[k[1]].body.step] = "Manual Approval"
  /\ Initiate(k, FALSE, decision)
  /\ UNCHANGED <<exec, hist, worker, outside, joins>>

\* A step that was paused or failed is run again.
Rerun(k) ==
  /\ UserCall
  /\ hist[k] \in {"Pause", "Error"}
  /\ Initiate(k, TRUE, IF T[mail[k[1]].body.step] = "Manual Approval"
                       THEN "reject" ELSE "none")
  /\ UNCHANGED <<exec, hist, worker, outside, joins>>

\* SaveWorkflowExecution, the mutation a user pauses and resumes with: it saves
\* what it is given, whatever the record says (to save what is there already
\* changes nothing).
SetStatus(e, status) ==
  /\ UserCall
  /\ exec[e].status \notin {"none", status}
  /\ exec' = [exec EXCEPT ![e].status = status]
  /\ UNCHANGED <<mail, hist, worker, outside, joins>>

\* Nothing is queued or being handled.
Quiescent ==
  /\ \A c \in Consumer : At(c, "idle")
  /\ \A m \in Msg : mail[m].state \in {"unsent", "done", "dead"}

AllSettled == Quiescent /\ outside = {} /\ UNCHANGED vars

-------------------------------------------------------------------------------

Handle(c) ==
  \/ EndExecution(c) \/ FinishParent(c) \/ ResumeParent(c) \/ LoopBack(c)
  \/ LogTrigger(c) \/ ReadExecution(c) \/ TriggerFails(c) \/ ClaimStep(c)
  \/ ReopenStep(c) \/ AskExternal(c) \/ ForkBranches(c) \/ ArriveBranch(c)
  \/ Perform(c) \/ ConditionFails(c)
  \/ MarkError(c) \/ StopExecution(c) \/ ContinueAfterError(c)
  \/ CreateChild(c) \/ SendChild(c) \/ AskApproval(c) \/ Schedule(c)
  \/ JoinBranches(c) \/ EmitJoined(c) \/ EmitNext(c) \/ CloseStep(c)
  \/ Return(c) \/ MustThrow(c)

Fault(c) == Throw(c) \/ Crash(c)

User ==
  \/ \E k \in DOMAIN hist : Rerun(k) \/ \E d \in {"approve", "reject"} : Decide(k, d)
  \/ \E e \in Exec, status \in {"Running", "Pause"} : SetStatus(e, status)

Next ==
  \/ \E c \in Consumer : Receive(c) \/ Handle(c) \/ Fault(c)
  \/ \E m \in Msg : Redrive(m)
  \/ \E b \in outside : Answer(b)
  \/ User
  \/ AllSettled

Spec == Init /\ [][Next]_vars

\* A running consumer keeps polling and its handler keeps going, the queue
\* redrives, services answer and rules fire.  Users and faults are free.
Fairness ==
  /\ \A c \in Consumer : WF_vars(Receive(c)) /\ WF_vars(Handle(c))
  /\ \A m \in Msg : WF_vars(Redrive(m))
  /\ WF_vars(\E b \in outside : Answer(b))

FairSpec == Spec /\ Fairness

-------------------------------------------------------------------------------
(* Properties *)

DetailField ==
  {"step", "exec", "idx", "idxs", "loop", "parent", "wsxh", "rerun", "decision",
   "ext", "http", "by"}

IsDetail(b) ==
  /\ b = [f \in DetailField |-> b[f]]
  /\ b.step \in Step \union {NoStep}
  /\ b.exec \in Exec
  /\ b.loop # None => b.loop \in Loop
  /\ b.parent # None => b.parent.key \in Key
  /\ b.wsxh # None => b.wsxh \in Key
  /\ b.rerun => b.wsxh \in Key
  /\ b.decision \in {"none", "approve", "reject"}

MailOK ==
  \A m \in Msg :
    /\ mail[m].state \in {"unsent", "queued", "handled", "done", "dead"}
    /\ mail[m].receives \in 0 .. MaxReceive
    /\ mail[m].state = "unsent" \/ IsDetail(mail[m].body)

ExecOK ==
  exec \in [Exec -> [status: {"none", "Running", "Pause", "Finished", "Error"},
                     parallel: Seq(ParallelEntry), ste: SUBSET Step,
                     logged: BOOLEAN]]

HistOK ==
  /\ DOMAIN hist \subseteq Key
  /\ \A k \in DOMAIN hist : hist[k] \in {"Started", "Finished", "Error", "Pause"}

\* Handlers hold different messages; one that may be marked Error has a record.
WorkerOK ==
  \A c \in Consumer :
    /\ worker[c].parallel \in Seq(ParallelEntry)
    /\ worker[c].ste \subseteq Step
    /\ worker[c].pc \in InsideTry \union {"external"} => worker[c].key \in Key
    /\ ~At(c, "idle") =>
         /\ worker[c].msg \in Msg
         /\ mail[worker[c].msg].state = "handled"
         /\ \A d \in Consumer \ {c} : At(d, "idle") \/ worker[d].msg # worker[c].msg

\* Type invariant: the shape of the queue, of the execution and history
\* records and of the handlers' local copies (handleMessage and its records).
TypeOK ==
  MailOK /\ ExecOK /\ HistOK /\ WorkerOK /\ \A b \in outside : IsDetail(b)

Alive(m) == mail[m].state \in {"queued", "handled"}

\* A message works in scope i of execution e itself, or for a parent that does.
InScope(b, e, i) ==
  \/ b.exec = e /\ i \in ToSet(b.idxs)
  \/ b.parent # None /\ \E d \in b.parent.next : d.exec = e /\ i \in ToSet(d.idxs)

\* The handler of m has done what counts for scope i: it has emitted the next
\* steps, or it is the Parallel End of scope i and its branch is counted.
Spent(m, i) ==
  \E c \in Consumer :
    /\ worker[c].msg = m
    /\ \/ worker[c].pc \in {"close", "return"}
       \/ /\ worker[c].idx = i
          /\ Here(c) = "Parallel End"
          /\ worker[c].pc \in {"perform", "join", "joined"}

\* A join that is closed (isParallelActive false) has no branch left at work.
JoinClosesBranches ==
  \A e \in Exec : \A i \in DOMAIN exec[e].parallel :
    ~exec[e].parallel[i].active =>
      /\ \A m \in Msg : Alive(m) /\ InScope(mail[m].body, e, i) => Spent(m, i)
      /\ \A b \in outside : ~InScope(b, e, i)

\* The step after a Parallel End is emitted at most once for each entry of
\* PARALLEL, whatever is retried.
JoinOnce == IsInjective(joins)

\* When End has marked an execution Finished, no other message of it is left:
\* no branch goes on working for a finished execution.
FinishedIsLast ==
  \A e \in Exec : exec[e].status = "Finished" =>
    \A m \in Msg : Alive(m) /\ mail[m].body.exec = e => T[mail[m].body.step] = "End"

\* The messages that asked for step s of execution e.
SentFor(s, e) == {m \in Used : mail[m].body.step = s /\ mail[m].body.exec = e}

\* The steps that may follow step s.
Leads(s) ==
  ToSet(NAID[s]) \union
  (IF T[s] = "Manual Approval" THEN {OnDecision[s][d] : d \in {"approve", "reject"}} ELSE {})

\* The first steps of the workflow that is run and of its sub-workflows.
Starts ==
  ToSet(First) \union
  UNION {ToSet(SubFirst[s]) : s \in {p \in Step : T[p] = "SubWorkflow"}}

\* Start Loop step w[1] repeats step w[2]: it is in a set R with the first
\* activities of the loop, where no other loop begins and into which no way leads
\* but through w[1].
Repeats ==
  {w \in {p \in Step : T[p] = "Start Loop"} \X Step :
     \E R \in SUBSET {r \in Step \ Starts : T[r] # "Start Loop"} :
       /\ ToSet(NAID[w[1]]) \union {w[2]} \subseteq R
       /\ \A q \in Step \ (R \union {w[1]}) : Leads(q) \intersect R = {}}

\* An End Loop leaves the loop it is in only after the first activity of that
\* loop was sent as often as its Start Loop says, whatever was retried or lost
\* (currentLoop and numberOfLoop of handleMessage's loopConfig).
LoopCompletes ==
  \A c \in Consumer : At(c, "emit") /\ Here(c) = "End Loop" =>
    \A p \in Step : <<p, Body(c).step>> \in Repeats =>
      LET l == Body(c).loop
      IN /\ l # None
         /\ l.first \in ToSet(NAID[p]) /\ l.max = NLoop[p]
         /\ Cardinality(SentFor(l.first, Body(c).exec)) >= NLoop[p]

\* Step p is on every way to step s: some set of steps that a workflow cannot
\* leave but through p has no s.
OnEveryWay(p, s) ==
  \E R \in SUBSET (Step \ {p, s}) :
    /\ Starts \subseteq R \union {p}
    /\ \A r \in R : Leads(r) \subseteq R \union {p, NoStep}

\* A step's activity reads a state that holds the result of every step that is
\* on every way to it: no save of STE has dropped one (the copy that
\* handleMessage reads before it runs the activity and saves after).
EarlierResults ==
  \A c \in Consumer : At(c, "perform") =>
    {p \in Step \ {Body(c).step} : Produces(p) /\ OnEveryWay(p, Body(c).step)}
      \subseteq worker[c].ste

\* Only a SubWorkflow step leads to step s.
AfterChild(s) == s \notin Starts /\ \A p \in Step : s \in Leads(p) => T[p] = "SubWorkflow"

\* The steps after a SubWorkflow step are sent only by the End of an execution
\* of the sub-workflow, which has ended by then (another of its branches may
\* have stopped it since), as has the parent's step.
ParentWaits ==
  \A m \in Used : LET b == mail[m].body IN
    b.step \in Step /\ AfterChild(b.step) /\ b.wsxh = None =>
      \E n \in Used : LET child == mail[n].body IN
        /\ T[child.step] = "End" /\ child.parent # None /\ b \in child.parent.next
        /\ exec[child.exec].status \in {"Finished", "Error"}
        /\ hist[child.parent.key] = "Finished"

\* Every message is eventually handled or dead-lettered, and stays so.
Drains == <>[](Quiescent /\ outside = {})

\* The main execution reaches its End.
EventuallyFinished == <>[](exec[1].status = "Finished")

\* A step that its own settings or data may make throw.
MayThrow(s) == s \in Fragile /\ T[s] \notin {"Condition", "Delay"}

\* One transient failure costs no message: only one that names no step, the
\* first step of an HTTP call whose trigger is logged already, or a step whose
\* own content throws is dead-lettered.
OneFaultSurvived ==
  \A m \in Msg : mail[m].state = "dead" =>
    LET b == mail[m].body IN b.step = NoStep \/ b.http \/ MayThrow(b.step)

\* The call that runs a paused or failed step again, or decides an approval,
\* would be accepted for record k.
Actionable(k) ==
  \/ hist[k] \in {"Pause", "Error"}
  \/ hist[k] = "Started" /\ T[mail[k[1]].body.step] = "Manual Approval"

\* An End step of execution e was handled.
Reached(e) ==
  \E m \in Msg : /\ mail[m].state = "done"
                 /\ mail[m].body.exec = e
                 /\ mail[m].body.step \in Step /\ T[mail[m].body.step] = "End"

\* An execution that has come to rest before its end can always be moved by a
\* user, whatever its status: one of its steps is paused, failed or waits for
\* an approval.
NeverStranded ==
  Quiescent /\ outside = {} =>
    \A e \in Exec : exec[e].status # "none" /\ ~Reached(e) =>
      \E k \in DOMAIN hist : mail[k[1]].body.exec = e /\ Actionable(k)
==============================================================================
