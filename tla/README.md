# Verification of the workflow API

TLA+ models of the workflow service in `src/` (a NestJS application: GraphQL and
REST calls, DynamoDB records, EventBridge and SQS), checked with TLC on small
instances and, for the results listed below, proved with TLAPS for every value of
the constants. File names are relative to the repository root `src/`, so the
engine is `src/src/workflow.ts`.

## 1. Inventory

| Component | State it keeps | Operations | What makes it correct | Where it is hard | Status |
|---|---|---|---|---|---|
| **Step engine** `workflow.ts` | execution record (`STATUS`, `PARALLEL`, `STE`, `WSXH_IDS`), history records (WSXH) | `handleMessage`: one message asks for one step; opens it, runs the activity, saves the state, emits the next messages, closes it | no step runs before what it depends on, none is lost, a join fires once and last, `Finished` is last | concurrent consumers, redelivery, a throw or a crash between any two awaits | modelled, except Timed trigger messages |
| **Parallel bookkeeping** `workflow.ts:783-862` | `PARALLEL` list, `parallelIndex`, `parallelIndexes` of a message | fork, arrive, join | a join counts every branch once | read-modify-write of the list, nesting | modelled |
| **Queue and bus** `sqs.tf`, `event-bridge.util.ts` | messages, receive counts | put events, receive, retry, redrive | at-least-once, every message ends | loss (errors are swallowed), any order, poison messages | modelled, except a visibility timeout in the middle of a handler |
| **Activities** `utils/activity`, `utils/external-activity` | rules of Delay steps | condition, web service, delay, approval, external, ... | | external answers, timers that collide | control modelled, values abstracted |
| **User calls** `workflow.service.ts:466-498`, `saveWorkflowExecution` | | approve, reject, rerun, pause, resume | a resting execution can be moved | at any moment, against stale records | modelled, except other mutations |
| **Execution numbering** `workflow-execution.service.ts:24-47` | `TotalEXC` of a version, execution keys | create, delete, list by page | one record per number, no gap, pages that cover all | three awaits, concurrent callers, lost updates | modelled, except the listing by month |
| **Triggers** `workflow.service.ts:364-464, 538-736` | rules, targets, `TriggerStatus`, `TimeTriggerRuleName` | HTTP trigger, timed trigger, enable, disable, deploy, delete | a disabled trigger does not run, rule and status agree | usage is reported before the status is tested; a save that is not awaited | modelled with Billing, except a workflow without next steps |
| **Billing** `billing.service.ts` | subscription of users and organization, Stripe's usage, API key | subscribe, cancel, report usage, close | every run is paid for or free, who pays is open | a chain of calls to three services, swallowed errors | modelled, except product and price listings |
| **Registry** `workflow.service.ts:66-362`, `workflow.repository.ts` | batches, workflows, versions, steps | create workflow and version, search by name | complete search, reachable and whole workflows | check-then-create, partial creation, concurrent half-range loops | modelled, except listings |
| **Accounts** `user.service.ts`, `api-gateway.util.ts` | users, organizations, gateways, keys, global variables | sign up, sign in, refresh, reset, roles, removal | an answered sign-up left a whole account, one user per e-mail | some twenty calls without a transaction, a lagging index, utilities that return nothing | modelled, except cookies and mail |
| **OAuth, client tokens** `oauth.service.ts`, `client-token.service.ts` | login in progress (in memory), tokens | login, callback, refresh | a token ends up with its client and works | a singleton shared by requests, several tasks, restarts, rotation | modelled, except the values of provider requests |
| **Catalogue, set-up** `main.ts`, `initialSetup/`, `integration-app.service.ts`, `client.service.ts` | numbered apps, clients, tokens, entity count | the scripts of every start, create app, create client | unique names and numbers, a complete catalogue before the consumer | tasks that start together, users meanwhile, death in the middle | modelled, except authorizers and resources |
| **Data activities** `matching-data.util.ts`, `database-builder.util.ts` | connections of database servers | two and three way match, query | result equals a reference definition, connections end | a position kept over a changed text, six drivers with six endings | modelled, except assign-data |
| **Adapters, web layer** (S3, KMS, Docuware, guards, schemas) | none of their own | | | | not modelled: I/O, wiring, declarations |

How they interact. A trigger (HTTP call, timer, parent workflow) creates an
execution and puts one event per first step on EventBridge, whose rule targets the
SQS queue. Consumers (one in each running task, two or more during a rolling
deployment) receive messages; `handleMessage` reads and writes the execution and the
history and puts the next events. External services and EventBridge rules (Delay)
send a message's detail back to the same queue later. Users act on the records
through GraphQL, concurrently with the consumers. A handler that throws leaves its
message in the queue; after `maxReceiveCount = 4` receipts SQS moves it to the error
queue. Before a trigger creates anything it is billed; billing closes and opens
triggers, rules and the organization's API key. Creating a version deploys the rules of its
timed trigger. A sign-up creates the organization, its gateway and its key. A task runs
the set-up scripts before it starts its consumer. `PROJECT.json` lists the hazards at their
lines.

## 2. Plan

Done, in this order:

1. `ParallelState`, `WorkflowEngine`, their runs, type correctness and `JoinOnce` for one
   consumer proved; `ExecutionNumbering` with its abstract `Allocator`, proved to implement
   it.
2. The services around the engine: `Bootstrap` with `SetupData`, `Billing` (triggers,
   timers, subscriptions), `WorkflowRegistry` with `WorkflowDesign`, `OAuthLogin`, `Accounts`,
   `DataActivities` with `MatchingData`, and the pages of `ExecutionNumbering`.
3. Proofs about them: numbers and names of the catalogue, e-mails of users,
   the pages, logins and refresh tokens, searches.
4. Proofs of what the set-up leaves behind, of every property of `Billing`, of `Accounts`,
   of `WorkflowRegistry` and of `DataActivities`, and of the engine's retries and stranding.
5. Proofs of what a workflow means for its author: joins close all their branches, `End` is
   last, loops run in full, results arrive, parents wait.

Left:

- `ParallelJoin`: the join alone, any number of consumers and branches, with redelivery in
  the middle of a handler (visibility timeout), implementing an abstract join.
- An abstract token game (a workflow net) that the single-consumer engine implements; the board of
  tokens in `ParallelScopeProofs` is its state.
- The composition of `Billing` with `ExecutionNumbering` (a trigger that is billed and then
  collides); each is modelled with the other reduced to one step.
- Listings that read several partitions, `assign-data.util.ts`, authorizers and resources.

## 3. Modules

| Module | Models | Notes |
|---|---|---|
| `ParallelState` | the pure part of `updateParallelStatus` and `updateParallelFinished` | index 1 is index 0 of the code |
| `WorkflowEngine` | `handleMessage` and all it calls, queue, faults, users | one action per await that touches shared state |
| `MCWorkflowEngine` | five small workflows, and `ResultsVisible`, which names the steps of one | the workflow of `one_consumer` is `WellNested` |
| `WorkflowEngineProofs` | proofs: types, retries, joined once, movable, and what messages say | |
| `ParallelScopeProofs` | proofs: the branches of nested scopes, counted | extends the other |
| `Allocator` | abstract: numbers granted to callers | |
| `ExecutionNumbering`, `MCExecutionNumbering` | `createWorkflowExecution`, `deleteWorkflowExecution`, `listWorkflowExecutionsOfAVersion` | implements `Allocator`; the pages are operators; proofs in `ServiceProofs` |
| `SetupData` | the 37 set-up scripts: app, client and token of each | data only |
| `Bootstrap`, `MCBootstrap`, `BootstrapProofs` | `bootstrap`, `createIntegrationApp`, `updateIntegrationApp`, `createClient`, the seeds of tokens | any number of tasks and users |
| `Billing`, `MCBilling`, `BillingProofs` | `trigger`, the timed trigger, `reportUsageRecord`, `disableRuleAndApiKey`, `createSubscription`, `cancelSubscription`, `setTriggerStatus`, `executeWorkflowEB`, `deleteWorkflow` | Stripe, EventBridge and API Gateway are part of the state |
| `WorkflowDesign` | how a drawing becomes steps | operators |
| `WorkflowRegistry`, `MCWorkflowRegistry`, `RegistryProofs` | `createWorkflow`, `createWorkflowVersion`, `getWorkflowByName`, `searchWorklowsWithFilter` | uses `WorkflowDesign` |
| `OAuthLogin`, `OAuthProofs` | `connectOAuth`, `callbackOAuth`, `getRefreshToken`, `createClientToken` | several tasks, each with its own singleton |
| `Accounts`, `MCAccounts`, `AccountsProofs` | `signUp`, `createApiGateway`, `signIn`, `refreshToken`, password and role mutations | |
| `MatchingData` | the Matching Data activity and its reference definition | operators |
| `DataActivities` | the drivers of `dbQueryBuilder`, and calls of `MatchingData` | |
| `MCIntegrations` | `OAuthLogin` and `DataActivities` for TLC | independent: the initial plan chooses the one that runs |
| `ServiceProofs` | proofs about `ExecutionNumbering` and `DataActivities` | the two share nothing else |

### State of `WorkflowEngine`

- `mail[m]`: message `m` of the queue: `state` (unsent, queued, handled = invisible,
  done = deleted, dead = error queue), `receives` (ApproximateReceiveCount), `body`
  (the detail). Messages are taken in any order. A body's `wsxh` is
  `WorkflowStepExecutionHistorySK`, `idx`/`idxs` are `parallelIndex(es)`, `loop` is
  `loopConfig`, `parent` is `parentWSXH` (the child carries the parent's next
  messages), `http` is `httpTrigger`, `ext` is `externalServiceDetails`. `by` is a
  history field: the receipt whose handler handed the body to a service or a timer.
- `exec[e]`: `status`, `parallel` (PARALLEL), `ste` (the steps whose result is in STE),
  `logged` (the trigger's history record, which has a fixed key, exists).
- `hist`: status of each history record. Its key is the receipt it was created in
  (a new uuid in the code); `WSXH_IDS` is left out.
- `worker[c]`: where the handler of consumer `c` is, and its local copies.
- `outside`: details that services and timers will send. `budget`: what is left of the
  bounded faults and user calls. `joins`: history, the joins emitted.

`Dispatch` is the order of the early tests in `handleMessage`; `Route` where it goes
after the activity; each action's comment names the function. `Throw` is any await
that rejects: the inner catch marks the step Error (`InsideTry`), the outer one asks for
a delay and rethrows. `MustThrow` is where the code itself throws. `Crash` ends the
handler anywhere. `PutEvents` may lose the events without the caller noticing, as
`putEventsEB` swallows errors; all entries of a call are lost or none. `Schedule`
includes that a Delay rule is named by the second it fires at and has one target.

Some steps fail by their content: what the designer entered, or the data they meet. `Fragile` is the set
of steps of which that may happen, at any receipt:

| Type | What fails | Code | In the model |
|---|---|---|---|
| first step | the body the HTTP trigger answers with is no JSON | `workflow.ts:288` | `TriggerFails`: the record stays Started, the message comes again |
| Web Service, Action | a call that was never made, a match or query that returns nothing: `JSON.parse(undefined)` | `workflow.ts:356-367` | `MustThrow`, past the error action |
| Condition | no choice holds and there is no default, or it cannot be evaluated | `condition.util.ts:28-32` | `ConditionFails`: the next message names no step |
| Manual Approval | no e-mail address, or its workflow is gone | `manual-approval.util.ts:28`, `workflow.ts:524-545` | `AskApproval` closes the step with nothing sent; or `MustThrow` |
| Delay | a date that is none, or has gone | `delay.util.ts:18` | `Schedule`: no rule fires |
| External, SubWorkflow | no code, the workflow is gone | `workflow.ts:303`, `:907` | `MustThrow` |

That an activity's type is not known is not among them: `createWorkflow` refuses such a drawing
(`workflow.service.ts:128-134`). A Web Service that is not fragile fails with an answer, and goes to its error action.

Abstractions: values of STE, e-mail, logging; reads of immutable records (steps,
workflows, versions); a condition picks any of its next steps; the two branches for
`ACT.END` are steps without successors; an event that is refused, or too large for EventBridge, is a lost
one. `SetStatus` saves Running or Pause over any status, as the mutation does; that a client could save
another word is left out.

### State of `ExecutionNumbering`

`TotalEXC`, `record` (number -> the call that created it), `call` (what each caller
holds between its awaits), `failures`, `dropped` (history: numbers whose call failed or
whose record was deleted). `SaveTotal` writes the number the caller computed, so a late
save lowers the counter; the create is conditional on the key (the model library's
default), so `Collide` throws. One version is modelled: keys of others do not meet.
`AscendingPage` and `DescendingPage` are the numbers the two loops of the listing ask for.

### State of `Bootstrap`

`org`, `counted`, `totalIntApp`, `apps`, `clients`, `tokens` are the tables; `call[c]` is what a
task or a user is doing and the values it read. A task goes through `setup`, a
sequence of `SetupData`, one await a step. `torn` remembers that a caller died between
`CreateApp` and `SaveCount`: nothing in the code repairs that, every later creation meets the
taken number. A rejected await ends the process and it starts again. `Trim` and `Prefix`
say which of the names in use carry blanks and which begin with which, instead of
characters.

### State of `Billing`

`live`, `usage` are Stripe's; `rules`, `targets` EventBridge's; `key` API Gateway's; `user`, `org`,
`trigger`, `ruleName`, `active`, `executions` are records. `call[c]` follows one call await by await
(`pc`, the subscription it read, the workflows still to switch). `unsaved` holds the saves of
`TimeTriggerRuleName` that are sent and not awaited. Histories: `billed` and `wasted` (which records of
usage an execution carries, which nobody carries), `late` (free runs after a closing),
`opened`, `excused` and `crossed` (below). One step stands for: the read of usage totals and
their comparison, the saves of a user's customer and subscription, the deletion of a rule
and its targets. Whether the executions counted are free is the number of executions; the
first page of workflows is the only one the code switches. Stripe may refuse usage
for a subscription that has ended or accept it. Creating the execution is one step (its
numbers are `ExecutionNumbering`'s).

### State of `WorkflowRegistry`

`batches` (TotalWLFBatches), `workflows` (batch and name -> the step triggers start at), `versions`,
`steps` (what each version's steps hold now). A search keeps the batches its two loops
have left (`left`, `right`), so the loops interleave with each other and with writers.
`known` is a history field: what was stored when the search began. A creation then walks through
`types`, `version`, `steps`, `links`, `approvals`, `conditions`, `versionFaid`, `workflowFaid`, one save a
step, and may end at any of them. `overtaken` remembers a number of batches saved over
another. `WorkflowDesign` gives the step of an activity, its links, and the pieces of the canvas
each step keeps, as the code computes them, and `Whole`: what a version has to be.

### State of `OAuthLogin`

`clientIssuer`, `codeVerifier`, `testClient` are the fields of the service, one of each per task;
`token` the stored token of a client (whose it is and its number); `live` the refresh
tokens that the providers accept. `flow[f]` is a login or a refresh. A grant (`Grant`) is "code" or "pkce", which go through a
browser, "credentials" or "password", which do not; a refresh asks for a new grant for "credentials"
only. A refresh of a client without a token overwrites the issuer all the same, and then throws.
`disturbed` is a
history field: another login or refresh wrote the fields, or the task restarted, or the
callback came to another task. `Restart` kills what the task handles, and the set-up writes the
seeds again.

### State of `Accounts`

`org`, `user`, `variables` are tables, `indexed` the part of `user` the e-mail index shows,
`aws[o]` what API Gateway and Lambda hold for an organization. `call[s]` is a sign-up; `Chain` is the order of
the calls of `createApiGateway` for a NODE_ENV, `Needs` what each one dereferences. A utility
can do its work and not answer, or not do it: the sign-up goes on with what it has
(`got`) until it reads a property of something it has not (`MissResult`). `overlapped` remembers
e-mails that were looked up while another sign-up with them was past its look-up or not yet
indexed. `RequestRemoval` is `saveOrganization` with a date of removal; the mutation also lets a client set
`TotalUSR`, `apiKey`, `usagePlanId` and `endpointId`, which is left out. Reads of the table itself are consistent, only the index lags.

### State of `DataActivities`

`open[d]`: the connections a server holds; `worker[w]` the activity of a handler. `Closes` is
the table of which driver closes on which path. `blamed` counts the calls that
may leave a connection. `RunMatching` evaluates `Matching`: `Replaced` is the search with a global
regular expression over a text that changes under it, then the comparison of rows,
where a row (`Row`) is its key and the value of its matching fields.

## 4. Runs

| Run | Instance | Shows |
|---|---|---|
| `one_consumer` | a fork nested in a branch of a fork, 1 consumer, no fault | in every delivery order no join, inner or outer, closes before its branches ended, the steps behind it see the results of all of them, nothing is left when Finished is set, and the end is reached (`FairSpec`) |
| `rolling` | fork of three, 2 consumers, no fault | a join never closes early or twice, although counts can be lost and the join can stall |
| `faults` | a step, then a fork of two branches, of two steps and of one; 1 crash anywhere, up to 4 receipts | no join is emitted twice; no retried handler drops a result on the way from STE; everything drains (`FairSpec`) |
| `features` | one workflow with every kind of step, 1 throw, 1 lost event or timer; the steps that may fail by their content (`Fragile`) are of six types | type correctness; a single fault dead-letters no message whose content is sound; loops run in full; a parent waits for its child |
| `users` | the same without the sub-workflow, 2 user calls at any moment; two Web Services may throw by their content | an execution at rest before its end can be moved by a user |
| `numbering` | 3 callers, 3 numbers, 1 failed await, deletions | numbers unique (refinement of `Allocator`), without gaps, and the counter catches up; pages of every total up to the bound |
| `bootstrap` | one task with the whole catalogue; two tasks and a user on two scripts; 1 call, 1 fault | numbers dense, names unique, clients of the right app, nothing missing when the consumer starts, and it is started (`FairSpec`) |
| `billing` | four instances: subscribing while called, a limit with a fault, timers deployed and switched, timers with a fault | every usage record is accounted for, who pays is open, a closing lets one run pass, rule and status agree |
| `registry` | three instances: two users making versions, a user with every drawing and a fault, three batches filled by two users | searches miss nothing, what is stored is reachable, triggers start at whole versions |
| `integrations` | a behaviour is of one part: 2 tasks, 3 flows, 4 clients (PKCE with rotation, code without state, credentials, password), 1 restart; 4 queries by 2 handlers on servers of 2 connections, 6 drivers; every input of 2 to 4 lists of up to 2 rows | logins are lost only when disturbed, tokens belong to their client, stored refresh tokens work; connections left open are accounted for; Matching Data agrees with its definition |
| `accounts` | 2 sign-ups, 2 e-mails, 2 organizations: with a fault in production, and without but with 2 later visits | an answered sign-up is whole, an e-mail has one user |
| `invitation` | 2 sign-ups, nothing fails and nothing is removed | expected to fail: an invited user signs up, as the mail of the invitation says, and is refused (section 6) |

Bounds. A join needs two branches to go wrong by order, three for "first" and
"all but one" to differ, and one nested fork for scopes. One crash at any
point covers every single retry; the step before the fork matters, since the first step
of an HTTP call cannot be retried. More faults multiply the orders beyond reach, and are
covered for `JoinOnce` and `EarlierResults` by the proofs. `MaxReceive = 4` is the deployed value;
`users` takes 2, because a step that throws by its content does so at every receipt and a second one shows what a
receipt leaves behind. `Messages` is
large enough in each run that no reachable emission is cut off for want of messages.
`NLoop = 3` is the smallest with a first, a middle and a last turn. Three callers
are needed for a stale save below a number two others have passed.
`features` and `users` have one consumer: they ask about control, not about races.

The other runs explore several instances from one initial predicate (`Instances`,
`Deployments`, `Settings`, `Plans`): each is small in what it does not ask about. Two tasks
are the overlap of a deployment and one user beside them meets both; two scripts suffice for
the count to be read, stale and saved, and one task with all 37 shows that the
catalogue itself fits together (names, prefixes). In `billing` three executions
have been run, so that the next one is the last free one; two workflows on the first page
and one beyond show a loop that stops early; two rules of one version show which name is
kept; two subscriptions are needed for one to replace another. In `registry` a batch is full
with one workflow, three batches make the halves unequal, and the drawings have one
approval, one condition with a cycle, an unknown type and an End nothing leads to. Three
flows let a login be disturbed by one while another holds the token. Two sign-ups
are enough for every overlap of a look-up and a row; one fault in a chain of eighteen
calls is one at each of them. Two connections per server show the difference
between one in use and one forgotten; two rows per list show agreement after disagreement and
a key held twice.

Excuses. Several properties hold *unless* something happened, which a history variable
records: `excused` (two subscriptions, a limit that was reached, a call that read the organization
before the subscription was saved), `crossed` (two calls changed one workflow at the same time),
`overtaken`, `disturbed`, `orphaned`, `overlapped`, `torn`, `blamed`. Each names a known race of the code;
the property says that it is the only way to the bad state, and section 6 says what the bad
state is.

Fairness. A consumer polls and its handler goes on (weak fairness of `Receive` and
`Handle`), SQS redrives, services answer and rules fire. Nothing is assumed of users
or faults. In `ExecutionNumbering` it is assumed that callers keep calling: `Recovers`
says what happens to those calls, and claims nothing when no call is made. In `Bootstrap` a
task that ended is started again (ECS keeps the desired count) and its awaits settle:
`ConsumerStarts`. The other new runs are about safety and state no fairness; users may stop at any
time, so a state without steps is no error (`CHECK_DEADLOCK FALSE`).

Each property has a mutant in `PROJECT.json`: a version of one mapped definition with a
plausible bug that makes the run fail. The mutants stand beside their originals.

## 5. Proofs

Assumptions: `WorkflowAssumption` (the workflow's tables are well typed, a loop has a turn, a fragile step is a step;
message ids are 1..n, enough for the first messages; at least one receipt; the budget is of numbers), `NoneAssumption` (an
absent field names no record and is no loop), `NumberingAssumption`, `BootstrapAssumption` (tasks and
users are finitely many), `SetupAssumption` (the set-up's names have no blanks to trim, and a client's name goes
with one app; both hold of `SetupData`),
`BillingAssumption` (finitely many callers, each with one part; a workflow is at one place of
the page; a rule, which is named after the step it starts, is of one workflow),
`AccountsAssumption`, `RegistryAssumption` and `OAuthAssumption` (the value for "none" is no client, flow or token),
`DataAssumption` (finitely many handlers; the inputs are lists of rows). Hypotheses of one theorem
(one consumer, no users, `WellNested`, ...) stand in its `ASSUME`, and are explained below.

- `TypeCorrect` (`WorkflowEngineProofs`): `Spec => []TypeOK` for every workflow, number
  of consumers, bound and budget. Besides the shapes it states that two handlers never
  hold one message and that a handler that may mark a record has one. A message carries the
  messages of its parent's next steps, which may carry others in turn. Instead of a
  recursion the invariant is `IInv == \E D : Inv(D)`: there is a set `D` of sound messages,
  closed under "is carried by", that holds every message sent and every one outside. A
  step that emits `S` keeps it with `D \union S`. One lemma per action (`...Keeps`), over
  general lemmas on a step of a handler (`HandlerStep`, `GotoStep`, `QuietGoto`) and on the
  queue (`DeliverGrows`).
- `OneConsumerJoinsOnce` (`WorkflowEngineProofs`): with one consumer, `Spec => []JoinOnce`,
  whatever throws, crashes, is lost or sent by users. `JoinInv`: the handler's copy of
  PARALLEL is the record's while it may still be saved (`FreshCopy`), a join about to be
  emitted is closed in the record and not yet emitted, and every emitted join is closed.
  An entry is never opened again because every save comes from a fresh copy. The
  hypothesis is needed: with redelivery, two consumers can reopen one.
- `OnlyDoomedMessagesDie`, `FaultsSurvived` (`WorkflowEngineProofs`): any consumers, executions,
  losses and user calls. `RetryInv`: the receipts of a message are failures that were already paid out
  of the budget, but for the last one (`PaidFor`), unless `handleMessage` throws on its content
  (`Doomed`: it names no step, it is the first step of an HTTP call, it is for a Parallel End,
  which may find no entry, or its step is one that `MayThrow`). The hypothesis `FewFailures`: fewer throws and crashes than
  `MaxReceive`. `FaultsSurvived` is the property of the run, for workflows without a Parallel End,
  as the run's is. Any step may be fragile here; a condition or a delay that fails throws nothing.
- `AlwaysMovable` (`WorkflowEngineProofs`): one consumer, no faults, any user calls. `StrandInv`: an
  execution of which no End was handled is `Carried`, by a message queued or held outside, by
  the handler until it has emitted, or by a record a user may act on; a handler gives up its share only
  when another is there. The record's status plays no part, since a user may write any over it. The hypothesis
  `OpenEnded` is what the drawing must give: every step but
  `End` leads somewhere, an approval both ways, `EXIT-PATH` to another step than the default, and no
  sub-workflow or join, because the parent of a child that never ends and a join whose branch is
  missing do strand. Only Web Services and Actions that are not the first step may be fragile: they
  throw inside the inner try, so their record is marked Error and can be run again. The others do strand: a
  condition without a choice sends a message that names no step, an approval without an address
  and a delay without a date are closed with nothing to follow, an External step without code and a
  first step whose answer is no JSON throw outside the try and leave their record Started. The constants of
  `users` meet both hypotheses.
- `JoinsCloseBranches`, `EndIsLast` (`ParallelScopeProofs`): one consumer, nothing throws or crashes, no step
  fails by its content (`Fragile = {}`), no user calls; any events may be lost. The messages at work are tokens on a `Board`, each with the
  scopes it is in (its `parallelIndexes`, less the one its handler has left). `ScopeInv` counts:
  the tokens inside a scope are at most its total less its finished, where a branch with a
  nested fork counts once however many tokens the fork has made of it. So a scope that is
  closed is `Clear`, and a join closes a scope only when its own branch is the last
  (`LastArrived`). Losing a token keeps "at most", which is why losses are harmless here. `NestInv`
  ties the board to the records: a message is in as many scopes as its step is deep (`NestedBody`),
  and the handler's copies are where its `pc` says (`Placed`, `Scoped`). The hypotheses:
  - `WellNested`: there are a depth of open branches and a set of loops for each step that every way to it
    agrees on, no two messages leave a step but a Parallel Start, and no sub-workflow. This is
    what the drawing has to give; TLC evaluates it for the workflow of `one_consumer`
    (`NestedIsWellNested`).
  - `Undisturbed`, one consumer: a Parallel End that is retried after its save counts its branch
    twice, two consumers count two branches once, and the message of an approval or a
    rerun has no scope (section 6). Each breaks the counting; the first closes joins early.
  - for `EndIsLast`, one first step: several are so many branches that no fork joins.
- `LoopsComplete` (`WorkflowEngineProofs`): any consumers, throws, crashes and losses; no user calls. A loop's turn is
  only in the messages, and a message may be carried inside another (a parent's next steps in a child) or
  outside. `LoopInv` has a set `L` that `Gathers` them all; for each that is in a turn `n`, the first
  activity was sent `n` times (`SentFor`), as another turn is sent by a handler of this one. `Stands`
  ties a handler's place to its message. `SentBy` and `IsNew` say once, for this and the next
  two theorems, what any step of the engine can add to `L`. Which loop an End Loop ends is a
  question of the drawing: `Repeats` pairs a Start Loop with the steps it repeats, those of a set that no way
  enters but through it and where no other loop begins. `TurnInv` says that every message for such a step carries a
  turn of that loop (`InTurn`): it comes from the Start Loop, which writes a new `loopConfig`, or from another
  step of the set, which hands its own on. Two things are outside, and the code does lose them: nested loops
  share one `loopConfig`, so after the inner one the outer End Loop sees the inner one's last turn and leaves;
  and the message of an approval or a rerun has none (`workflow.service.ts:485`), so its End Loop
  leaves at once.
- `ResultsReachSteps` (`WorkflowEngineProofs`): one consumer, any faults and user calls. `SteFresh`: the copy of STE that
  a handler works on is the record's until it saves. A step `p` is on every way to a step when some
  set `R` of steps, left only through `p`, lacks it (`Sealed`); while `p` has no result, every message
  of the execution asks for a step of `R` or for `p` (`Reaching`), carried and held ones included. One
  consumer is needed: with two, TLC finds a run of the same workflow where one branch saves over
  the other's result.
- `ParentsWait` (`WorkflowEngineProofs`): any consumers, throws, crashes and losses, no user calls. The record of a SubWorkflow
  step is `Retired` once its handler has sent the child: no handler writes it again but the child's `End`,
  which does so after it ended the execution (`Ending`), and what has ended stays so (a status that a user saves could take it back). Users are left out: a
  rerun of the SubWorkflow step writes the record again, after its first child's `End` has resumed the parent.

- `NumbersAreDense`, `NumbersAreUnique` (`ServiceProofs`): for any callers,
  numbers, failures and deletions. `Dense` is strengthened by `HeldDense`: below the
  number any call holds there is no gap either, which is what a late save needs.

- `PagesShowEachOnce` (`ServiceProofs`): for every total and page size, each number
  is on exactly one ascending and on exactly one descending page. `OneInterval` gives the page by
  the quotient of the number's position, and `Apart` shows that no other page has it.
- `AppNumbersAreDense`, `AppNamesAreUnique` (`BootstrapProofs`): for any tasks, users, catalogue,
  calls and faults. A number is created on a count that was read earlier, so the
  invariant relates what each caller read to the tables: it is never ahead of the count
  (`ReadBefore`), who is about to save is alone and one ahead (`SaverAlone`), and who is about to
  create still finds no app of that name up to its count (`StillUnnamed`).
- `SetUpBeforeConsuming`, `TypeCorrect` (`BootstrapProofs`): a task passes its jobs one by one, so
  `SetupInv` says that every job behind it is `Installed`, what is done of the job in hand
  (`TaskFine`), and what its local copies mean (`CallFine`): a client key it looks a token for is
  the key of a stored client. A step of another caller takes nothing of that away, because
  apps keep their trimmed name and clients their key (`Kept`, `KeptFine`).
- `OneCallerNoTwins` (`BootstrapProofs`): with one caller, who is about to create a client has
  found none of its names, and nobody else can have created it since (`Alone`).
- `ClientsKeepTheirApp` (`BootstrapProofs`): invariant by itself, over `IInv`. The hypothesis
  `OwnNames` is needed: `createClient` stores its app in the client it finds, so a user who
  registers a client under a name of the set-up takes it over. The run's constants meet it.
- The five properties of `Billing` (`BillingProofs`). Each action has a lemma (`...Move`) that says which
  call moves and what its fields are then; the invariants are proved over these.
  - `TypeCorrect`: `Typed`. A loop keeps the workflows it has left under their places in the page;
    `LeastPlace` (a non-empty set of numbers has a least one) shows that it always has a next one.
  - `RecordsAreAccounted`: inductive over `Typed`. `LoadMove` counts the calls that carry a record when
    one of them moves.
  - `OneRunAfterClosing`: `RunsLeft`. A caller that has run once more than it closed, beyond what was
    opened or failed, finds the page closed; before that, everything its loop has come past is
    closed (`AllClosed(Left(call[c]))`). An interleaved opening or fault raises `Allowed` by one, which is why the
    property counts them.
  - `RulesFollowTriggers`: `Matched`. A rule that a workflow names, or is about to name, is switched like
    the trigger unless the workflow is still ahead of some loop (`NamesMatch`), and who is between
    the read of a name and the switch of its rule is alone with that workflow (`SaverAlone`); `crossed` is exactly the
    step that would break it.
  - `PayingOrganizationIsOpen`: `Owned` and `Opening`. A live subscription belongs to the
    admin who created it until it is cancelled, and while its creation is on the way everything its loop
    has come past is open (`OpenedBy`), then the key, then the user's record.
- `EmailsAreUnique` (`AccountsProofs`): for any callers, e-mails, organizations, settings. Between
  its look-up and its row, a sign-up whose e-mail is not known to overlap is the only one with
  it (`PassedAlone`) and no user has it (`PassedFirst`).
- `AnswersAreWhole` (`AccountsProofs`): `WholeInv` says what a sign-up has made at each place. A
  utility that failed leaves a gap in `got` and the sign-up goes on, but a later call of
  `Chain` reads what is missing: the sixth, which puts the method, needs the resource
  (`ChainBegins`), so who records the gateway has it all, and no other sign-up takes it away
  (`WholeKept`).
- `SecondUsersNeedRemovals` (`AccountsProofs`): why an invited user is refused (section 6). `PaidFor`. The users of an organization and the
  sign-ups about to store one are at most the removals of its global variables, and one more while
  the variables exist: a sign-up has to create them first and is refused when they are there.
- `LoginsLostOnlyIfDisturbed`, `TokensOfTheirClients` (`OAuthProofs`): for any tasks, flows, clients
  and restarts. `LoginInv` says what the fields of a task hold for a login that nobody disturbed
  (`Kept`: its own issuer, verifier and client), what each flow is about to store (`Carries`), and
  that a token away from its owner has a disturbed login behind it (`Explained`). Logins on
  different clients of one task are told apart only by `disturbed`, so it is part of the
  invariant and never reset.
- `StoredTokensWork` (`OAuthProofs`): `RefreshInv` adds to `LoginInv` a map `H` from
  tokens to clients, their homes: as with the messages of the engine the invariant says that there
  is one (`\E H : Held(H)`). What a flow got and has not stored is nobody else's (`Unused`), so no
  other refresh can use it up; the exception are providers that give back the token they
  were asked with (`GivenBack`), which never kill it. A step that issues a token
  extends `H` at the new token.
- `SearchesMissNothing`, `WorkflowsAreReachable` (`RegistryProofs`): for any batches, callers, names
  and faults. A name stored when the search began lies in a batch one of the two loops still
  has to read (`NameAhead`, `MatchesAhead`), and `searched` is 1 exactly when one loop is done
  (`Halves`), so the loop that ends the search is the last. A call that saved no number over
  another holds at most the organization's number of batches (`Counted`).
- `TypeCorrect` (`RegistryProofs`): `Books`. Versions and steps are created together, and a key that a call
  or a version has stays in the table; `Phase` leaves no call in a loop with an empty list.
- `TriggersStartWhole` (`RegistryProofs`): `BuildInv`. Each version has one call that writes it
  (`Apart`); what that call has still to link, approve and decide is its list and the lists
  that follow (`WrittenBy`), and each save takes one activity off (`SaveWrites`) without disturbing the
  AIDs the others refer to (`WriteOne`). A workflow gets the version when all lists are empty, and
  from then on nobody writes its steps (`Referenced`), so a call that fails earlier leaves the old
  first step. The hypothesis `Drawable`: the drawings name their activities apart and name only
  activities they have, and the pieces `GetDesign` gives the activities make up the canvas. What
  `GetDesign` gives for a canvas of any length is a fold over lists and stays with TLC; every
  drawing of the run is `Sensible`.
- `LeaksAreOfFailedQueries` (`ServiceProofs`): `DataInv`. A server holds at least the connections in use
  (so a close never goes below zero) and at most those and the excused ones. That every driver
  either closes or is excused is the table `Closes`; PostgreSQL, which is never excused,
  connects only with a query it can send.
- `MatchesAgree` (`ServiceProofs`): for inputs of any lengths. `Found` is a fold: the `Summary` of what a
  set of places holds solves its equation, and a set on which another solution differs would have a
  smallest one (`FoundIsSummary`). `Replaced` is a recursive function: it exists
  (`SearchTurns`), and it passes over a mention exactly when some list and what follows it are
  shorter than the mention (`ReplacedIfRoomy`). Both are inductions over data, made without the
  library's induction theorems (they take a predicate as parameter): the set of
  counterexamples has a least member because the strict subsets of a finite set are well founded
  (`UpTo`, `GreatestPlace`).

Model-checked only: liveness (`EventuallyFinished`, `Drains`, `Recovers`, `ConsumerStarts`), which is out of
the prover's reach, as are ENABLED, inductions over data through the library's theorems, and RECURSIVE
operators, of which the proved modules have none; the joins of several consumers (`rolling` runs `JoinClosesBranches` in
the case its theorem leaves out), where counts are lost and the proof's counting fails; and `ResultsVisible`: that the step behind a join sees what every branch
saved. It names the steps of one workflow; a general statement would say which steps must have
run before a join, and its proof would follow results and tokens through all branches together. What
is proved is `EarlierResults`, about steps on every way, so on the way within each branch and up to the fork.

## 6. What the models show about the limits of the code

One of them the repository itself says otherwise, and `PROJECT.json` lists it as a finding:

- An invited user cannot sign up. The mail of an invitation says "You have been invited to a Workflow
  Organization" and "To accept invitation, click on the URL below and signup" (`user.service.ts:272-273`), and
  `signUp` has the role SUPPORT for who comes to an organization that exists (`:65`). But it creates the global
  variables of the organization in either case (`:95`); those of an organization with a user exist, the
  conditional create fails, and the user is not stored. The run `invitation` finds the sequence: one signs up,
  another is invited and signs up, nothing fails, nobody removed the variables. `SecondUsersNeedRemovals`
  proves that there is no way around it but such a removal.

The others follow from the code and are part of the models; no document of the repository says otherwise.

- Two consumers can lose a count of PARALLEL (the join then never fires), a result of STE
  or an entry of WSXH_IDS: all are read-modify-write of whole fields.
- A Parallel Start retried after it emitted opens a second entry and runs its branches
  again. A Parallel End retried after its count was saved counts twice.
- The message of an approval or a rerun carries no scope, loop or parent.
  A Manual Approval that is run again is taken for rejected.
- A lost PutEvents leaves an execution without a message or a record to act on.
- Steps that fail by their content: a Web Service that reached no endpoint, a match or a query that returned
  nothing throw at every receipt, whatever their error action, until the message is dead-lettered; a condition that chooses
  nothing is dead-lettered one message later; an approval without an address is closed as Finished and
  nothing follows (the table in section 3).
- A status is saved whatever the record says: a Pause that comes after `End` makes a finished execution paused.
- The first step of an HTTP call cannot be retried: the trigger's record exists.
- `End` overwrites Error and Pause. Several End steps in a child resume the parent
  several times. Nested loops share one `loopConfig`.
- A sub-workflow without first steps never resumes its parent.
- A caller of `createWorkflowExecution` that is delayed lowers TotalEXC; until it has caught
  up, calls fail and the newest executions are missing from the pages.

- Handlers of one execution that overlap save STE and WSXH_IDS over each other
  (`workflow.ts:694`, `:699`); a Delay rule that fires in the same second as another replaces it
  (`delay.util.ts:45`); a SubWorkflow step that fails late creates a second child (`workflow.ts:923`).
- Catalogue: a caller that dies between an app and its count blocks every later
  creation: each takes the same number and is refused. Two callers at once give a client two
  records; the look-up by prefix can take a client of a longer name.
- Billing: nothing is closed below four executions, whatever the comment at
  `billing.service.ts:162` counts; usage is reported for calls that are then refused; one rule name
  is kept per workflow, so the rules of other next steps and of older versions stay as they
  are; workflows beyond the first page are never switched; a deleted workflow
  is still triggered by its remaining rules.
- Registry: two users can store one name in two batches; a failed creation leaves a workflow
  that is found and starts nowhere; a version that keeps AIDs of an older one shares them
  with it, so a trigger may find the step of either.
- Accounts: a death
  between user and count leaves a key that the next sign-up finds taken; failed
  sign-ups leave organizations and objects in AWS; a method or integration that was not put is
  not noticed; a refresh of tokens does not ask whether the organization was removed, and the
  mail of a reset works more than once.
- OAuth: logins on one task at the same time, a callback on another task or a
  refresh in between lose each other's client or verifier; a restart writes the seed over a rotated
  token.
- Data: failed queries of MySQL, Oracle and SQL Server and every find of MongoDB keep their
  connection, and a step whose query answers an `{error}` goes on as if it had succeeded (one
  that answers nothing throws in `handleMessage`); in a three way match a
  key found in the middle list alone counts as found; after an empty list the
  next mention can be passed over, and the activity answers nothing.

Not modelled, beside the last row of the inventory: Timed trigger messages inside the engine (their
billing and creation are `Billing`'s), a visibility timeout during a handler, values of STE and of
requests, the HTTP trigger of a workflow without next steps, cookies, mails,
listing queries (by month, by organization), NODE_ENV `test`, the fields of authorizers and
resources. The last ones change one record each, or none.

## 7. Running

    tlc -workers 2 -config EngineOneConsumer.cfg MCWorkflowEngine
    tlc -workers 2 -config Numbering.cfg MCExecutionNumbering
    tlc -workers 2 -config Bootstrap.cfg MCBootstrap
    tlc -workers 2 -config Billing.cfg MCBilling
    tlc -workers 2 -config Registry.cfg MCWorkflowRegistry
    tlc -workers 2 -config Integrations.cfg MCIntegrations
    tlc -workers 2 -config Accounts.cfg MCAccounts
    tlc -workers 2 -config Invitation.cfg MCAccounts    (finds the violation)
    tlapm WorkflowEngineProofs.tla

Each run takes about a minute or less. `WorkflowEngineProofs`, `ParallelScopeProofs`, `BootstrapProofs` and
`BillingProofs` take up to a quarter of an hour the first time, the other proofs much less.
