-------------------------------- MODULE Billing --------------------------------
(***************************************************************************)
(* Triggers and their payment.  An HTTP call or a scheduled rule starts an   *)
(* execution of a workflow; reportUsageRecord first bills it to the            *)
(* organization's Stripe subscription or, without one and after the free       *)
(* executions, closes the organization: the triggers and rules of its          *)
(* workflows and its API key.  createSubscription opens it again.  Users open,  *)
(* close, delete and deploy single workflows.  None of these is a transaction:  *)
(* every await is a step here, and the calls of one organization interleave.   *)
(***************************************************************************)
EXTENDS Naturals, Sequences, FiniteSets, SequencesExt

CONSTANTS
  Http,       \* the callers of HTTP triggers
  Consumer,   \* the handlers of the workflow queue that get timed messages
  Admin,      \* the users that subscribe and cancel
  Editor,     \* the users that open, close, deploy and delete workflows
  FirstPage,  \* the workflows of the organization's first batch, in key order
  OtherPage,  \* the workflows of its other batches
  Versions,   \* workflow -> the versions to deploy, each the sequence of the
              \* rules of its timed trigger, one for each next step
  Instances,  \* the instances explored: [calls, called, executions, limit, faults],
              \* called are the workflows triggered and edited
  MaxSub      \* the bound on the subscriptions created

FreeExecutions == 4
NoSub == 0
NoRule == "none"

Workflow == Range(FirstPage) \union OtherPage
RulesOf(w) == UNION {Range(Versions[w][i]) : i \in 1..Len(Versions[w])}
Rule == UNION {RulesOf(w) : w \in Workflow}
Caller == Http \union Consumer \union Admin \union Editor

\* Every caller plays one part; a rule is named after the step it starts, so
\* no two workflows share one. A version whose trigger has no next step makes
\* no rule and is not listed.
ASSUME BillingAssumption ==
  /\ IsFiniteSet(Caller)
  /\ Http \cap Consumer = {} /\ Http \cap Admin = {} /\ Http \cap Editor = {}
  /\ Consumer \cap Admin = {} /\ Consumer \cap Editor = {} /\ Admin \cap Editor = {}
  /\ FirstPage \in Seq(Range(FirstPage)) /\ IsInjective(FirstPage)
  /\ Range(FirstPage) \cap OtherPage = {}
  /\ \A w \in Workflow : Versions[w] \in Seq(Seq(Rule) \ {<< >>})
  /\ \A v, w \in Workflow : v # w => RulesOf(v) \cap RulesOf(w) = {}
  /\ NoRule \notin Rule
  /\ MaxSub \in Nat
  /\ \A d \in Instances : /\ d.calls \in [Caller -> Nat] /\ d.faults \in Nat
                          /\ d.called \subseteq Workflow
                          /\ d.executions \in Nat /\ d.limit \subseteq Nat

VARIABLES
  instance,    \* the instance
  calls,       \* the calls each caller may still make
  faults,      \* the awaits that may still reject
  call,        \* what each caller is doing
  live,        \* Stripe: the subscriptions that are paid for
  created,     \* Stripe: how many were created
  usage,       \* Stripe: the usage records of each subscription
  user,        \* the subscription and the customer of each user
  org,         \* the subscription of the organization
  key,         \* the API key is enabled
  trigger,     \* TriggerStatus of each workflow
  ruleName,    \* TimeTriggerRuleName of each workflow
  unsaved,     \* the rule names whose save is on its way, by workflow
  active,      \* the workflows that are not deleted
  deployed,    \* how many versions of each workflow are deployed
  rules,       \* EventBridge: each rule is absent, enabled or disabled
  targets,     \* EventBridge: the rules that have the queue for a target
  executions,  \* the HTTP and timed executions of the organization
  billed,      \* history: the executions that carry a record of a subscription
  wasted,      \* history: its records that no execution carries
  late,        \* history: runs of a caller that closed the organization first
  opened,      \* history: how often the triggers were opened
  excused,     \* history: the organization may be closed although it paid
  crossed      \* history: two calls changed one trigger at the same time

stripe == <<live, created, usage>>
accounts == <<user, org>>
gates == <<key, trigger, ruleName, unsaved, active, deployed, rules, targets>>
history == <<billed, wasted, late, opened, excused, crossed>>
vars == <<instance, calls, faults, call, stripe, accounts, gates, executions, history>>

SubId == 1..MaxSub

Idle == [pc |-> "idle", kind |-> "none", w |-> "none", status |-> "none", sub |-> NoSub,
         rec |-> NoSub, todo |-> << >>, name |-> NoRule, closed |-> FALSE]

At(c, p) == call[c].pc = p
Goto(c, pc) == call' = [call EXCEPT ![c].pc = pc]
Finish(c) == call' = [call EXCEPT ![c] = Idle]

AtRest == (\A c \in Caller : At(c, "idle")) /\ (\A w \in Workflow : unsaved[w] = {})

Init ==
  /\ instance \in Instances
  /\ calls = instance.calls /\ faults = instance.faults
  /\ call = [c \in Caller |-> Idle]
  /\ live = {} /\ created = 0 /\ usage = [s \in SubId |-> 0]
  /\ user = [a \in Admin |-> [sub |-> NoSub, customer |-> FALSE]] /\ org = NoSub
  /\ key = TRUE /\ trigger = [w \in Workflow |-> "enabled"]
  /\ ruleName = [w \in Workflow |-> NoRule] /\ unsaved = [w \in Workflow |-> {}]
  /\ active = Workflow /\ deployed = [w \in Workflow |-> 0]
  /\ rules = [r \in Rule |-> "absent"] /\ targets = {}
  /\ executions = instance.executions
  /\ billed = [s \in SubId |-> 0] /\ wasted = billed
  /\ late = [c \in Http |-> 0] /\ opened = 0 /\ excused = FALSE /\ crossed = FALSE

\* What a loop still has to do is kept under its places in the page; the first
\* place is next.
Current(todo) == todo[Min(DOMAIN todo)]
Rest(todo) == Restrict(todo, DOMAIN todo \ {Min(DOMAIN todo)})
LastOne(todo) == DOMAIN todo = {Min(DOMAIN todo)}

Begin(c, r) ==
  /\ At(c, "idle") /\ calls[c] > 0
  /\ calls' = [calls EXCEPT ![c] = @ - 1]
  /\ call' = [call EXCEPT ![c] = r]

---------------------------------------------------------------------------
(* A trigger. *)

\* An HTTP call finds its workflow; the status it read is the one it tests.
Trigger(c) ==
  /\ c \in Http
  /\ \E w \in instance.called :
       Begin(c, [Idle EXCEPT !.pc = "org", !.kind = "http", !.w = w,
                             !.status = trigger[w]])
  /\ UNCHANGED <<instance, faults, stripe, accounts, gates, executions, history>>

\* An enabled rule sends the message of its step to the queue.
TimedTrigger(c) ==
  /\ c \in Consumer
  /\ \E w \in Workflow : \E r \in RulesOf(w) :
       /\ rules[r] = "enabled" /\ r \in targets
       /\ Begin(c, [Idle EXCEPT !.pc = "org", !.kind = "timed", !.w = w])
  /\ UNCHANGED <<instance, faults, stripe, accounts, gates, executions, history>>

\* reportUsageRecord is called with the subscription read here.
GetOrganization(c) ==
  /\ At(c, "org")
  /\ call' = [call EXCEPT ![c].sub = org,
                          ![c].pc = IF org # NoSub THEN "report" ELSE "list"]
  /\ UNCHANGED <<instance, calls, faults, stripe, accounts, gates, executions, history>>

CreateUsageRecord(c) ==
  LET s == call[c].sub IN
  /\ At(c, "report")
  /\ usage' = [usage EXCEPT ![s] = @ + 1]
  /\ call' = [call EXCEPT ![c].rec = s, ![c].pc = "total"]
  /\ UNCHANGED <<instance, calls, faults, live, created, accounts, gates, executions, history>>

CheckLimit(c) ==
  LET s == call[c].sub
      over == \E m \in instance.limit : usage[s] >= m IN
  /\ At(c, "total")
  /\ Goto(c, IF over THEN "list" ELSE "run")
  /\ excused' = (excused \/ over)
  /\ UNCHANGED <<instance, calls, faults, stripe, accounts, gates, executions,
                 billed, wasted, late, opened, crossed>>

Waste(r) == wasted' = [s \in DOMAIN wasted |-> wasted[s] + IF s = r.rec THEN 1 ELSE 0]

\* The call is refused after it was billed.
Refuse(c) ==
  /\ At(c, "run") /\ call[c].status = "disabled"
  /\ Waste(call[c])
  /\ Finish(c)
  /\ UNCHANGED <<instance, calls, faults, stripe, accounts, gates, executions,
                 billed, late, opened, excused, crossed>>

\* Mutant of Run: the execution is created without its usage record.
RunUnbilled(c) ==
  LET r == call[c] IN
  /\ At(c, "run") /\ r.status # "disabled"
  /\ executions' = executions + 1
  /\ late' = [h \in Http |-> late[h] +
                IF h = c /\ r.closed /\ r.w \in active \ OtherPage THEN 1 ELSE 0]
  /\ Finish(c)
  /\ UNCHANGED <<instance, calls, faults, stripe, accounts, gates,
                 billed, wasted, opened, excused, crossed>>

\* The execution is created with the usage record, if there is one.
Run(c) ==
  LET r == call[c] IN
  /\ At(c, "run") /\ r.status # "disabled"
  /\ executions' = executions + 1
  /\ billed' = [s \in DOMAIN billed |-> billed[s] + IF s = r.rec THEN 1 ELSE 0]
  /\ late' = [h \in Http |-> late[h] +
                IF h = c /\ r.closed /\ r.w \in active \ OtherPage THEN 1 ELSE 0]
  /\ Finish(c)
  /\ UNCHANGED <<instance, calls, faults, stripe, accounts, gates,
                 wasted, opened, excused, crossed>>

---------------------------------------------------------------------------
(* Opening and closing the workflows of the first page, one by one. *)

Closing(r) == r.kind \in {"http", "timed", "cancel", "close"}
StatusOf(r) == IF Closing(r) THEN "disabled" ELSE "enabled"

SetRule(name, status) ==
  IF name \in Rule /\ rules[name] # "absent"
  THEN rules' = [rules EXCEPT ![name] = status]
  ELSE UNCHANGED rules

\* Mutant of NextWorkflow: the workflow that is done stays in the list.
KeepLast(r) ==
  IF r.kind \in {"open", "close"} THEN Idle
  ELSE IF LastOne(r.todo) THEN [r EXCEPT !.pc = "key"]
  ELSE [r EXCEPT !.pc = "rule", !.todo = Rest(@)]

\* Where a call goes on when the first workflow of todo is done.
NextWorkflow(r) ==
  IF r.kind \in {"open", "close"} THEN Idle
  ELSE IF LastOne(r.todo) THEN [r EXCEPT !.pc = "key", !.todo = << >>]
  ELSE [r EXCEPT !.pc = "rule", !.todo = Rest(@)]

\* The places on the first page of the workflows that are not deleted.
ActivePage == {i \in DOMAIN FirstPage : FirstPage[i] \in active}

\* The workflows of the organization, with their rule names.
Listed == [i \in ActivePage |-> [w |-> FirstPage[i], name |-> ruleName[FirstPage[i]]]]

\* The executions whose triggering step is found in the history are counted.
FreeAreUsed == executions >= FreeExecutions

\* Mutant of List: the loop starts with the second workflow.
ListFromSecond(c) ==
  LET r == call[c] IN
  /\ At(c, "list")
  /\ call' = [call EXCEPT ![c] =
       IF Closing(r) /\ ~FreeAreUsed
       THEN [r EXCEPT !.pc = IF r.kind = "cancel" THEN "saveUser" ELSE "run"]
       ELSE IF Cardinality(ActivePage) < 2 THEN [r EXCEPT !.pc = "key", !.closed = TRUE]
       ELSE [r EXCEPT !.pc = "rule", !.todo = Rest(Listed), !.closed = TRUE]]
  /\ UNCHANGED <<instance, calls, faults, stripe, accounts, gates, executions, history>>

\* The executions are counted and the workflows listed; below the free
\* executions disableRuleAndApiKey does nothing.
List(c) ==
  LET r == call[c] IN
  /\ At(c, "list")
  /\ call' = [call EXCEPT ![c] =
       IF Closing(r) /\ ~FreeAreUsed
       THEN [r EXCEPT !.pc = IF r.kind = "cancel" THEN "saveUser" ELSE "run"]
       ELSE IF ActivePage = {} THEN [r EXCEPT !.pc = "key", !.closed = TRUE]
       ELSE [r EXCEPT !.pc = "rule", !.todo = Listed, !.closed = TRUE]]
  /\ UNCHANGED <<instance, calls, faults, stripe, accounts, gates, executions, history>>

\* The rule named in the list is switched.
SwitchListed(c) ==
  LET r == call[c] IN
  /\ At(c, "rule")
  /\ SetRule(Current(r.todo).name, StatusOf(r))
  /\ Goto(c, "get")
  /\ UNCHANGED <<instance, calls, faults, stripe, accounts, key, trigger, ruleName,
                 unsaved, active, deployed, targets, executions, history>>

\* The workflow another caller is in the middle of changing.
Changing(c, w) ==
  \/ At(c, "save") /\ Current(call[c].todo).w = w
  \/ At(c, "switch") /\ Current(call[c].todo).w = w
  \/ call[c].pc \in {"rules", "targets", "gone"} /\ call[c].w = w

Crosses(c, w) ==
  unsaved[w] # {} \/ \E d \in Caller \ {c} : Changing(d, w)

GetWorkflow(c) ==
  LET w == Current(call[c].todo).w IN
  /\ At(c, "get")
  /\ call' = [call EXCEPT ![c].pc = "save", ![c].name = ruleName[w]]
  /\ crossed' = (crossed \/ Crosses(c, w))
  /\ UNCHANGED <<instance, calls, faults, stripe, accounts, gates, executions,
                 billed, wasted, late, opened, excused>>

\* The organization is closed by a call that knows of no subscription, or by
\* its users, while it pays.
ClosesPaid(r) ==
  live # {} /\ Closing(r) /\ (r.sub = NoSub \/ r.kind = "cancel")

SaveTriggerStatus(c) ==
  LET r == call[c]
      w == Current(r.todo).w IN
  /\ At(c, "save")
  /\ trigger' = [trigger EXCEPT ![w] = StatusOf(r)]
  /\ opened' = IF Closing(r) THEN opened ELSE opened + 1
  /\ excused' = (excused \/ ClosesPaid(r))
  /\ Goto(c, "switch")
  /\ UNCHANGED <<instance, calls, faults, stripe, accounts, key, ruleName, unsaved,
                 active, deployed, rules, targets, executions, billed, wasted, late, crossed>>

\* Mutant of SwitchRule: the rule is left as it is.
LeaveRule(c) ==
  /\ At(c, "switch")
  /\ call' = [call EXCEPT ![c] = NextWorkflow(call[c])]
  /\ UNCHANGED <<instance, calls, faults, stripe, accounts, gates, executions, history>>

\* The rule the workflow named is switched.
SwitchRule(c) ==
  LET r == call[c] IN
  /\ At(c, "switch")
  /\ SetRule(r.name, StatusOf(r))
  /\ call' = [call EXCEPT ![c] = NextWorkflow(r)]
  /\ UNCHANGED <<instance, calls, faults, stripe, accounts, key, trigger, ruleName,
                 unsaved, active, deployed, targets, executions, history>>

\* The API key is switched, at last.
SwitchKey(c) ==
  LET r == call[c] IN
  /\ At(c, "key")
  /\ key' = ~Closing(r)
  /\ excused' = (excused \/ ClosesPaid(r))
  /\ Goto(c, IF r.kind \in {"http", "timed"} THEN "run" ELSE "saveUser")
  /\ UNCHANGED <<instance, calls, faults, stripe, accounts, trigger, ruleName, unsaved,
                 active, deployed, rules, targets, executions, billed, wasted, late, opened, crossed>>

\* A user opens or closes one workflow.
Toggle(c) ==
  /\ c \in Editor
  /\ \E w \in active \cap instance.called, kind \in {"open", "close"} :
       Begin(c, [Idle EXCEPT !.pc = "get", !.kind = kind,
                             !.todo = <<[w |-> w, name |-> NoRule]>>])
  /\ UNCHANGED <<instance, faults, stripe, accounts, gates, executions, history>>

---------------------------------------------------------------------------
(* Subscriptions. *)

Subscribe(a) ==
  /\ a \in Admin
  /\ Begin(a, [Idle EXCEPT !.pc = "subscribe", !.kind = "create"])
  /\ UNCHANGED <<instance, faults, stripe, accounts, gates, executions, history>>

\* The subscription is paid for from now on, whatever happens to the call.
CreateSubscription(a) ==
  /\ At(a, "subscribe") /\ created < MaxSub
  /\ created' = created + 1
  /\ live' = live \union {created'}
  /\ call' = [call EXCEPT ![a].sub = created', ![a].pc = "list"]
  /\ excused' = (excused \/ live # {})
  /\ UNCHANGED <<instance, calls, faults, usage, accounts, gates, executions,
                 billed, wasted, late, opened, crossed>>

\* A user without a customer gets a 404.
Cancel(a) ==
  /\ a \in Admin /\ user[a].customer
  /\ Begin(a, [Idle EXCEPT !.pc = "cancel", !.kind = "cancel", !.sub = user[a].sub])
  /\ UNCHANGED <<instance, faults, stripe, accounts, gates, executions, history>>

CancelSubscription(a) ==
  /\ At(a, "cancel") /\ call[a].sub \in live
  /\ live' = live \ {call[a].sub}
  /\ Goto(a, "list")
  /\ UNCHANGED <<instance, calls, faults, created, usage, accounts, gates, executions, history>>

SaveUser(a) ==
  LET r == call[a] IN
  /\ At(a, "saveUser")
  /\ user' = [user EXCEPT ![a] = [sub |-> IF r.kind = "create" THEN r.sub ELSE NoSub,
                                  customer |-> TRUE]]
  /\ Goto(a, "saveOrganization")
  /\ UNCHANGED <<instance, calls, faults, stripe, org, gates, executions, history>>

\* Mutant of SaveOrganization: the subscription is not recorded.
SaveNothing(a) ==
  /\ At(a, "saveOrganization")
  /\ Finish(a)
  /\ UNCHANGED <<instance, calls, faults, stripe, accounts, gates, executions, history>>

SaveOrganization(a) ==
  LET r == call[a] IN
  /\ At(a, "saveOrganization")
  /\ org' = IF r.kind = "create" THEN r.sub ELSE NoSub
  /\ excused' = (excused \/ ClosesPaid(r))
  /\ Finish(a)
  /\ UNCHANGED <<instance, calls, faults, stripe, user, gates, executions,
                 billed, wasted, late, opened, crossed>>

---------------------------------------------------------------------------
(* The rules of timed triggers. *)

NextRule(r) ==
  IF LastOne(r.todo) THEN Idle ELSE [r EXCEPT !.pc = "rules", !.todo = Rest(@)]

\* A version is created; executeWorkflowEB makes a rule for each next step.
Deploy(c) ==
  /\ c \in Editor
  /\ \E w \in active \cap instance.called :
       /\ deployed[w] < Len(Versions[w])
       /\ deployed' = [deployed EXCEPT ![w] = @ + 1]
       /\ LET names == Versions[w][deployed[w] + 1] IN
          Begin(c, [Idle EXCEPT !.pc = "rules", !.kind = "deploy", !.w = w,
                      !.todo = [i \in DOMAIN names |-> [w |-> w, name |-> names[i]]]])
  /\ UNCHANGED <<instance, faults, stripe, accounts, key, trigger, ruleName, unsaved,
                 active, rules, targets, executions, history>>

\* The rule is put; the save of its name is sent and not awaited.
PutRule(c) ==
  LET r == call[c]
      name == Current(r.todo).name IN
  /\ At(c, "rules")
  /\ rules' = [rules EXCEPT ![name] = "enabled"]
  /\ unsaved' = [unsaved EXCEPT ![r.w] = @ \union {name}]
  /\ crossed' = (crossed \/ trigger[r.w] = "disabled"
                   \/ \E d \in Caller \ {c} : Changing(d, r.w))
  /\ Goto(c, "targets")
  /\ UNCHANGED <<instance, calls, faults, stripe, accounts, key, trigger, ruleName,
                 active, deployed, targets, executions, billed, wasted, late, opened, excused>>

PutTargets(c) ==
  LET r == call[c] IN
  /\ At(c, "targets")
  /\ targets' = targets \union ({Current(r.todo).name} \cap {n \in Rule : rules[n] # "absent"})
  /\ call' = [call EXCEPT ![c] = NextRule(r)]
  /\ UNCHANGED <<instance, calls, faults, stripe, accounts, key, trigger, ruleName,
                 unsaved, active, deployed, rules, executions, history>>

\* The saves land in any order, the last one stays.
SaveRuleName(w) ==
  /\ \E n \in unsaved[w] :
       /\ ruleName' = [ruleName EXCEPT ![w] = n]
       /\ unsaved' = [unsaved EXCEPT ![w] = @ \ {n}]
  /\ UNCHANGED <<instance, calls, faults, call, stripe, accounts, key, trigger,
                 active, deployed, rules, targets, executions, history>>

\* A user deletes a workflow with the rule name the client last read.
Delete(c) ==
  /\ c \in Editor
  /\ \E w \in active \cap instance.called :
       Begin(c, [Idle EXCEPT !.pc = "gone", !.kind = "delete", !.w = w,
                             !.name = ruleName[w]])
  /\ UNCHANGED <<instance, faults, stripe, accounts, gates, executions, history>>

DeleteRule(c) ==
  LET n == call[c].name IN
  /\ At(c, "gone")
  /\ rules' = [r \in Rule |-> IF r = n THEN "absent" ELSE rules[r]]
  /\ targets' = targets \ {n}
  /\ crossed' = (crossed \/ Crosses(c, call[c].w))
  /\ Goto(c, "deleted")
  /\ UNCHANGED <<instance, calls, faults, stripe, accounts, key, trigger, ruleName, unsaved,
                 active, deployed, executions, billed, wasted, late, opened, excused>>

SaveDeleted(c) ==
  LET r == call[c] IN
  /\ At(c, "deleted")
  /\ active' = active \ {r.w}
  /\ ruleName' = [ruleName EXCEPT ![r.w] = IF r.name = NoRule THEN @ ELSE r.name]
  /\ Finish(c)
  /\ UNCHANGED <<instance, calls, faults, stripe, accounts, key, trigger, unsaved,
                 deployed, rules, targets, executions, history>>

---------------------------------------------------------------------------
(* Awaits that reject. *)

\* Stripe refuses usage of a dead subscription and its cancellation.
Reject(c) ==
  /\ At(c, "report") \/ At(c, "cancel")
  /\ call[c].sub \notin live
  /\ Finish(c)
  /\ UNCHANGED <<instance, calls, faults, stripe, accounts, gates, executions, history>>

\* The call throws: an HTTP call answers 500 (the error object has no usage
\* record), a subscription call 400, a timed message is handled again.
Throw(c) ==
  LET r == call[c] IN
  /\ faults > 0 /\ faults' = faults - 1
  /\ r.pc \in {"org", "report", "total", "list", "key", "run",
               "subscribe", "cancel", "saveUser", "saveOrganization"}
  /\ Waste(r)
  /\ \/ Finish(c)
     \/ /\ r.kind = "timed"
        /\ call' = [call EXCEPT ![c] =
                      [Idle EXCEPT !.pc = "org", !.kind = "timed", !.w = r.w]]
  /\ UNCHANGED <<instance, calls, stripe, accounts, gates, executions,
                 billed, late, opened, excused, crossed>>

\* The event bus helpers and the calls that switch a trigger swallow errors.
Swallow(c) ==
  LET r == call[c] IN
  /\ faults > 0 /\ faults' = faults - 1
  /\ \/ /\ r.pc = "rule"
        /\ Goto(c, "get") /\ UNCHANGED unsaved
     \/ /\ r.pc \in {"get", "save", "switch"}
        /\ call' = [call EXCEPT ![c] = NextWorkflow(r)] /\ UNCHANGED unsaved
     \/ /\ r.pc = "key"
        /\ Goto(c, IF r.kind \in {"http", "timed"} THEN "run" ELSE "saveUser")
        /\ UNCHANGED unsaved
     \/ /\ r.pc = "rules"
        /\ unsaved' = [unsaved EXCEPT ![r.w] = @ \union {Current(r.todo).name}]
        /\ Goto(c, "targets")
     \/ /\ r.pc = "targets"
        /\ call' = [call EXCEPT ![c] = NextRule(r)] /\ UNCHANGED unsaved
     \/ /\ r.pc = "gone"
        /\ Goto(c, "deleted") /\ UNCHANGED unsaved
  /\ UNCHANGED <<instance, calls, stripe, accounts, key, trigger, ruleName, active,
                 deployed, rules, targets, executions, history>>

Step(c) ==
  \/ Trigger(c) \/ TimedTrigger(c) \/ GetOrganization(c) \/ CreateUsageRecord(c)
  \/ CheckLimit(c) \/ Refuse(c) \/ Run(c)
  \/ List(c) \/ SwitchListed(c) \/ GetWorkflow(c) \/ SaveTriggerStatus(c)
  \/ SwitchRule(c) \/ SwitchKey(c) \/ Toggle(c)
  \/ Subscribe(c) \/ CreateSubscription(c) \/ Cancel(c) \/ CancelSubscription(c)
  \/ SaveUser(c) \/ SaveOrganization(c)
  \/ Deploy(c) \/ PutRule(c) \/ PutTargets(c)
  \/ Delete(c) \/ DeleteRule(c) \/ SaveDeleted(c)
  \/ Reject(c) \/ Throw(c) \/ Swallow(c)

Next == (\E c \in Caller : Step(c)) \/ (\E w \in Workflow : SaveRuleName(w))

Spec == Init /\ [][Next]_vars

---------------------------------------------------------------------------
Switching == {"rule", "get", "save", "switch", "rules", "targets"}

\* The state is well formed; a call has workflows to do exactly while it is
\* at one of the steps of createSubscription, disableRuleAndApiKey or
\* executeWorkflowEB that are done for each.
TypeOK ==
  /\ live \subseteq 1..created /\ created \in 0..MaxSub
  /\ usage \in [SubId -> Nat] /\ billed \in [SubId -> Nat] /\ wasted \in [SubId -> Nat]
  /\ org \in 0..created /\ \A a \in Admin : user[a].sub \in 0..created
  /\ key \in BOOLEAN /\ trigger \in [Workflow -> {"enabled", "disabled"}]
  /\ ruleName \in [Workflow -> Rule \union {NoRule}]
  /\ unsaved \in [Workflow -> SUBSET Rule] /\ active \subseteq Workflow
  /\ rules \in [Rule -> {"absent", "enabled", "disabled"}] /\ targets \subseteq Rule
  /\ \A c \in Caller : DOMAIN call[c].todo # {} <=> call[c].pc \in Switching

\* Every usage record Stripe charges for belongs to one execution, to a call
\* in flight, or to a call that was refused or failed after it was billed: an
\* execution of a subscribed organization never runs without its record and
\* no record is carried twice (reportUsageRecord, trigger, handleMessage).
UsageAccounted ==
  \A s \in SubId :
    usage[s] = billed[s] + wasted[s] + Cardinality({c \in Caller : call[c].rec = s})

\* While an organization pays, nobody is at work, nothing failed, and it was
\* not closed by its users, by its limit, or by a call that read the
\* organization before the subscription was saved, it is recorded and open:
\* createSubscription undoes whatever the free executions closed.
PaidIsOpen ==
  AtRest /\ faults = instance.faults /\ ~excused =>
    \A s \in live :
      /\ org = s /\ \E a \in Admin : user[a].sub = s
      /\ key /\ \A w \in active \ OtherPage : trigger[w] = "enabled"

\* A caller that has closed an organization runs a workflow of the first
\* page once, because it read the status before: more runs need somebody who
\* opens a trigger or an await that rejects.
OneFreeRunEach ==
  \A c \in Http : late[c] <= 1 + opened + (instance.faults - faults)

\* When nobody is at work, the rule a workflow names is switched like its
\* trigger, unless two calls changed the workflow at the same time, a version
\* was deployed over a closed trigger, or an await rejected.
StatusMatchesRule ==
  AtRest /\ ~crossed /\ faults = instance.faults =>
    \A w \in active :
      ruleName[w] # NoRule /\ rules[ruleName[w]] # "absent" =>
        rules[ruleName[w]] = trigger[w]
=============================================================================
