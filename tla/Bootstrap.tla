------------------------------- MODULE Bootstrap -------------------------------
(***************************************************************************)
(* What bootstrap of main.ts does to the shared tables: each task of a       *)
(* deployment creates the test organization and the entity count, installs   *)
(* the catalogue app by app, and only then starts the queue consumer.  An app *)
(* is keyed by the entity count, a client by its names and a random part, a   *)
(* token by its client.  A task whose await rejects dies and is started again; *)
(* two tasks overlap during a deployment, and users call CreateIntegrationApp *)
(* and CreateClient meanwhile, since the port is opened first.                *)
(***************************************************************************)
EXTENDS Naturals, Sequences, FiniteSets, SetupData

CONSTANTS
  Task,         \* the service's tasks (processes)
  User,         \* the users calling the two mutations
  Deployments,  \* the instances explored: [tasks, users, setup]
  AppCalls,     \* the apps users create
  ClientCalls,  \* the clients users create
  Trim,         \* the names that carry blanks -> the trimmed name
  Prefix,       \* the pairs <<a, b>> of client names where b begins with a
  MaxCalls,     \* the bound on the users' calls
  MaxFaults     \* the bound on rejected awaits and stopped tasks

Jobs(d) == {d.setup[i] : i \in 1..Len(d.setup)}

ASSUME BootstrapAssumption ==
  /\ Task \cap User = {} /\ IsFiniteSet(Task) /\ IsFiniteSet(User)
  /\ MaxCalls \in Nat /\ MaxFaults \in Nat
  /\ \A d \in Deployments : /\ d.tasks \subseteq Task
                            /\ d.users \subseteq User
                            /\ d.setup \in Seq(Jobs(d))
                            /\ Len(d.setup) > 0
  /\ \A x \in DOMAIN Trim : Trim[x] \notin DOMAIN Trim

\* The set-up functions of main.ts: no app's name carries blanks, a token is
\* stored for the client just registered, and a name of a client belongs to
\* one app.
ASSUME SetupAssumption ==
  \A d \in Deployments : \A job \in Jobs(d) :
    /\ job.app.name \notin DOMAIN Trim
    /\ job.token \in BOOLEAN /\ (job.token => job.client # NoClient)
    /\ \A other \in Jobs(d) :
         job.client # NoClient /\ other.client.name = job.client.name =>
           other.app.name = job.app.name

VARIABLES
  deployment,   \* the instance
  org,          \* the test organization exists
  counted,      \* the entity count record exists
  totalIntApp,  \* its number of integration apps, 0 while there is none
  apps,         \* the integration apps, by number
  clients,      \* the clients
  tokens,       \* the keys of the clients that have a token
  call,         \* what each task and each user is doing
  torn,         \* history: a caller died between the creation and the count
  calls, faults \* what the users and the environment may still do

records == <<apps, counted, totalIntApp>>
tables == <<org, counted, totalIntApp, apps, clients, tokens>>
vars == <<deployment, tables, call, torn, calls, faults>>

Caller == deployment.tasks \union deployment.users

At(c, p) == call[c].pc = p

\* A name as the look-up compares it.
Trimmed(name) == IF name \in DOMAIN Trim THEN Trim[name] ELSE name

Idle == [pc |-> "idle", i |-> 0, job |-> OnlyApp(App("none", "none", "none")),
         n |-> 0, key |-> <<"none", "none", 0>>]

Key(r) == <<r.integration, r.sk, r.copy>>

Init ==
  /\ deployment \in Deployments
  /\ org = FALSE /\ counted = FALSE /\ totalIntApp = 0
  /\ apps = << >> /\ clients = {} /\ tokens = {}
  /\ call = [c \in Caller |-> Idle]
  /\ torn = FALSE /\ calls = MaxCalls /\ faults = MaxFaults

Goto(c, pc) == call' = [call EXCEPT ![c].pc = pc]

\* The state of a caller once an app is set up: a user's call is answered, a
\* task turns to the next app, and to the consumer after the last.
Settled(c) ==
  LET i == call[c].i + 1 IN
  IF c \in deployment.users THEN Idle
  ELSE IF i > Len(deployment.setup) THEN [Idle EXCEPT !.pc = "running"]
  ELSE [Idle EXCEPT !.pc = "read", !.i = i, !.job = deployment.setup[i]]

\* The set-up function goes on with the client of the app n, if it has one.
AfterApp(c, n) ==
  IF call[c].job.client = NoClient THEN Settled(c)
  ELSE [call[c] EXCEPT !.pc = "findClient", !.n = n]

\* The port is open, the organization is looked up.
Start(t) ==
  /\ At(t, "idle")
  /\ Goto(t, "org")
  /\ UNCHANGED <<deployment, tables, torn, calls, faults>>

\* Mutant of GetOrganization: the organization is created at every boot.
AssumeNoOrganization(t) ==
  /\ At(t, "org")
  /\ Goto(t, "createOrg")
  /\ UNCHANGED <<deployment, tables, torn, calls, faults>>

GetOrganization(t) ==
  /\ At(t, "org")
  /\ Goto(t, IF org THEN "count" ELSE "createOrg")
  /\ UNCHANGED <<deployment, tables, torn, calls, faults>>

CreateOrganization(t) ==
  /\ At(t, "createOrg")
  /\ ~org
  /\ org' = TRUE
  /\ Goto(t, "count")
  /\ UNCHANGED <<deployment, records, clients, tokens, torn, calls, faults>>

FindEntityCount(t) ==
  /\ At(t, "count")
  /\ call' = [call EXCEPT ![t] =
                IF counted THEN Settled(t) ELSE [@ EXCEPT !.pc = "createCount"]]
  /\ UNCHANGED <<deployment, tables, torn, calls, faults>>

CreateEntityCount(t) ==
  /\ At(t, "createCount")
  /\ ~counted
  /\ counted' = TRUE /\ totalIntApp' = 0
  /\ call' = [call EXCEPT ![t] = Settled(t)]
  /\ UNCHANGED <<deployment, org, apps, clients, tokens, torn, calls, faults>>

UserCall(pc, job, n) ==
  [pc |-> pc, i |-> 0, job |-> job, n |-> n, key |-> Idle.key]

\* CreateIntegrationApp and CreateClient are called by a user.
CallApp(u) ==
  /\ At(u, "idle") /\ calls > 0
  /\ calls' = calls - 1
  /\ \E j \in AppCalls :
       call' = [call EXCEPT ![u] = UserCall("read", OnlyApp(j), 0)]
  /\ UNCHANGED <<deployment, tables, torn, faults>>

CallClient(u) ==
  /\ At(u, "idle") /\ calls > 0
  /\ calls' = calls - 1
  /\ \E k \in ClientCalls, n \in DOMAIN apps :
       call' = [call EXCEPT ![u] =
                  UserCall("findClient", WithClient(apps[n], k), n)]
  /\ UNCHANGED <<deployment, tables, torn, faults>>

ReadCount(c) ==
  /\ At(c, "read")
  /\ call' = [call EXCEPT ![c].pc = "find", ![c].n = totalIntApp]
  /\ UNCHANGED <<deployment, tables, torn, calls, faults>>

\* The numbers of the first m apps whose stored name is the trimmed input.
Named(name, m) ==
  {k \in DOMAIN apps : k <= m /\ apps[k].name = Trimmed(name)}

\* Mutant of FindApp: the last app of the count is not read.
FindAppBelow(c) ==
  /\ At(c, "find")
  /\ Goto(c, IF Named(call[c].job.app.name, call[c].n - 1) = {}
             THEN "create" ELSE "update")
  /\ UNCHANGED <<deployment, tables, torn, calls, faults>>

\* The loop over the numbers counted: an app keeps its number, and nobody
\* can add one below the count, so the loop is one step.
FindApp(c) ==
  /\ At(c, "find")
  /\ Goto(c, IF Named(call[c].job.app.name, call[c].n) = {}
             THEN "create" ELSE "update")
  /\ UNCHANGED <<deployment, tables, torn, calls, faults>>

\* updateIntegrationApp looks again and stores the input, untrimmed name
\* included.
UpdateApp(c) ==
  /\ At(c, "update")
  /\ \E k \in Named(call[c].job.app.name, call[c].n) :
       /\ apps' = [apps EXCEPT ![k] = call[c].job.app]
       /\ call' = [call EXCEPT ![c] = AfterApp(c, k)]
  /\ UNCHANGED <<deployment, org, counted, totalIntApp, clients, tokens, torn,
                 calls, faults>>

\* A user renamed the app since: undefined is returned, and a set-up function
\* that needs the number of the app throws.
UpdateNothing(c) ==
  /\ At(c, "update")
  /\ Named(call[c].job.app.name, call[c].n) = {}
  /\ call' = [call EXCEPT ![c] =
                IF call[c].job.client = NoClient THEN Settled(c) ELSE Idle]
  /\ UNCHANGED <<deployment, tables, torn, calls, faults>>

\* Mutant of CreateApp: the record is put whether or not the number is taken.
PutApp(c) ==
  /\ At(c, "create")
  /\ apps' = [k \in DOMAIN apps \union {call[c].n + 1} |->
                IF k = call[c].n + 1 THEN call[c].job.app ELSE apps[k]]
  /\ Goto(c, "saveCount")
  /\ UNCHANGED <<deployment, org, counted, totalIntApp, clients, tokens, torn,
                 calls, faults>>

\* The create is conditional on the key.
CreateApp(c) ==
  /\ At(c, "create")
  /\ call[c].n + 1 \notin DOMAIN apps
  /\ apps' = [k \in DOMAIN apps \union {call[c].n + 1} |->
                IF k = call[c].n + 1 THEN call[c].job.app ELSE apps[k]]
  /\ Goto(c, "saveCount")
  /\ UNCHANGED <<deployment, org, counted, totalIntApp, clients, tokens, torn,
                 calls, faults>>

\* Mutant of SaveCount: the number of apps is saved as it was read.
SaveOldCount(c) ==
  /\ At(c, "saveCount")
  /\ counted' = TRUE /\ totalIntApp' = call[c].n
  /\ call' = [call EXCEPT ![c] = AfterApp(c, call[c].n + 1)]
  /\ UNCHANGED <<deployment, org, apps, clients, tokens, torn, calls, faults>>

\* The update creates the count record where there is none.
SaveCount(c) ==
  /\ At(c, "saveCount")
  /\ counted' = TRUE /\ totalIntApp' = call[c].n + 1
  /\ call' = [call EXCEPT ![c] = AfterApp(c, call[c].n + 1)]
  /\ UNCHANGED <<deployment, org, apps, clients, tokens, torn, calls, faults>>

Begins(long, short) == long = short \/ <<short, long>> \in Prefix

\* The clients whose key begins with the names: nothing ends the name there.
Matching(k) ==
  {r \in clients : r.integration = k.integration /\ Begins(r.sk, k.name)}

\* Mutant of FindClient: the clients are looked up under the app's name.
FindClientOfApp(c) ==
  LET k == [call[c].job.client EXCEPT !.integration = call[c].job.app.name] IN
  /\ At(c, "findClient")
  /\ \/ \E r \in Matching(k) :
          call' = [call EXCEPT ![c].pc = "saveClient", ![c].key = Key(r)]
     \/ Matching(k) = {} /\ Goto(c, "createClient")
  /\ UNCHANGED <<deployment, tables, torn, calls, faults>>

\* The first one is taken; the random part of the keys decides which it is.
FindClient(c) ==
  LET k == call[c].job.client IN
  /\ At(c, "findClient")
  /\ \/ \E r \in Matching(k) :
          call' = [call EXCEPT ![c].pc = "saveClient", ![c].key = Key(r)]
     \/ Matching(k) = {} /\ Goto(c, "createClient")
  /\ UNCHANGED <<deployment, tables, torn, calls, faults>>

\* The set-up function goes on with the token of the client.
AfterClient(c, key) ==
  IF ~call[c].job.token THEN Settled(c)
  ELSE [call[c] EXCEPT !.pc = "findToken", !.key = key]

\* Mutant of SaveClient: the input is returned, whose key was deleted.
SaveAndReturnInput(c) ==
  LET k == call[c].job.client IN
  /\ At(c, "saveClient")
  /\ clients' = {IF Key(r) = call[c].key
                 THEN [r EXCEPT !.name = k.name, !.type = k.type,
                                !.intAppId = call[c].n]
                 ELSE r : r \in clients}
  /\ call' = [call EXCEPT ![c] = AfterClient(c, Idle.key)]
  /\ UNCHANGED <<deployment, org, records, tokens, torn, calls, faults>>

\* The attributes of the call go to the record found, whatever its name.
SaveClient(c) ==
  LET k == call[c].job.client IN
  /\ At(c, "saveClient")
  /\ clients' = {IF Key(r) = call[c].key
                 THEN [r EXCEPT !.name = k.name, !.type = k.type,
                                !.intAppId = call[c].n]
                 ELSE r : r \in clients}
  /\ call' = [call EXCEPT ![c] = AfterClient(c, call[c].key)]
  /\ UNCHANGED <<deployment, org, records, tokens, torn, calls, faults>>

\* The random part of the new key is the number of its copy here.
CreateClient(c) ==
  LET k == call[c].job.client
      twins == {r \in clients : r.integration = k.integration /\ r.sk = k.name}
      new == [integration |-> k.integration, sk |-> k.name,
              copy |-> Cardinality(twins) + 1, name |-> k.name,
              type |-> k.type, intAppId |-> call[c].n]
  IN
  /\ At(c, "createClient")
  /\ clients' = clients \union {new}
  /\ call' = [call EXCEPT ![c] = AfterClient(c, Key(new))]
  /\ UNCHANGED <<deployment, org, records, tokens, torn, calls, faults>>

FindToken(t) ==
  /\ At(t, "findToken")
  /\ Goto(t, IF call[t].key \in tokens THEN "updateToken" ELSE "createToken")
  /\ UNCHANGED <<deployment, tables, torn, calls, faults>>

\* The seed is written over what the running service has refreshed since.
UpdateToken(t) ==
  /\ At(t, "updateToken")
  /\ call' = [call EXCEPT ![t] = Settled(t)]
  /\ UNCHANGED <<deployment, tables, torn, calls, faults>>

CreateToken(t) ==
  /\ At(t, "createToken")
  /\ call[t].key \notin tokens
  /\ tokens' = tokens \union {call[t].key}
  /\ call' = [call EXCEPT ![t] = Settled(t)]
  /\ UNCHANGED <<deployment, org, records, clients, torn, calls, faults>>

\* A conditional create whose key exists.
Taken(c) ==
  \/ At(c, "createOrg") /\ org
  \/ At(c, "createCount") /\ counted
  \/ At(c, "create") /\ call[c].n + 1 \in DOMAIN apps
  \/ At(c, "createToken") /\ call[c].key \in tokens

\* Mutant of Collide: the rejection is swallowed and the set-up goes on.
Ignore(c) ==
  /\ Taken(c)
  /\ call' = [call EXCEPT ![c] = Settled(c)]
  /\ UNCHANGED <<deployment, tables, torn, calls, faults>>

\* It rejects: nothing catches it in bootstrap, the process ends; a user gets
\* the error.
Collide(c) ==
  /\ Taken(c)
  /\ call' = [call EXCEPT ![c] = Idle]
  /\ UNCHANGED <<deployment, tables, torn, calls, faults>>

\* Another await rejects, or the task is stopped, the consumer included.
Fail(c) ==
  /\ ~At(c, "idle") /\ faults > 0
  /\ faults' = faults - 1
  /\ torn' = (torn \/ At(c, "saveCount"))
  /\ call' = [call EXCEPT ![c] = Idle]
  /\ UNCHANGED <<deployment, tables, calls>>

Installing(c) ==
  \/ ReadCount(c) \/ FindApp(c) \/ UpdateApp(c) \/ UpdateNothing(c)
  \/ CreateApp(c) \/ SaveCount(c) \/ FindClient(c) \/ SaveClient(c)
  \/ CreateClient(c) \/ Collide(c)

Booting(t) ==
  \/ Start(t) \/ GetOrganization(t) \/ CreateOrganization(t)
  \/ FindEntityCount(t) \/ CreateEntityCount(t)
  \/ FindToken(t) \/ UpdateToken(t) \/ CreateToken(t)
  \/ Installing(t)

Next ==
  \/ \E t \in deployment.tasks : Booting(t) \/ Fail(t)
  \/ \E u \in deployment.users :
       CallApp(u) \/ CallClient(u) \/ Installing(u) \/ Fail(u)

Spec == Init /\ [][Next]_vars

\* Tasks that ended are started again and every await settles.
FairSpec ==
  /\ Spec
  /\ \A t \in Task : WF_vars(t \in deployment.tasks /\ Booting(t))
  /\ \A u \in User : WF_vars(u \in deployment.users /\ Installing(u))

-----------------------------------------------------------------------------
\* The records and calls have their shapes; a token is only looked for
\* under the key of a client that exists.
TypeOK ==
  /\ deployment \in Deployments
  /\ totalIntApp \in Nat /\ (counted \/ totalIntApp = 0)
  /\ \A k \in DOMAIN apps : k \in Nat \ {0}
  /\ tokens \subseteq {Key(r) : r \in clients}
  /\ \A c \in Caller :
       /\ call[c].i \in 0..Len(deployment.setup) /\ call[c].n \in Nat
       /\ call[c].pc \in {"findToken", "updateToken", "createToken"} =>
            call[c].job.token /\ \E r \in clients : Key(r) = call[c].key
  /\ torn \in BOOLEAN /\ calls \in 0..MaxCalls /\ faults \in 0..MaxFaults

\* The numbers of the apps are 1, 2, ... without a gap, and the count is their
\* number, except that one app is not counted yet while its creator is about
\* to save the count, and for ever when the creator died there.
NumbersDense ==
  /\ DOMAIN apps \in {1..totalIntApp, 1..(totalIntApp + 1)}
  /\ (torn \/ \E c \in Caller : At(c, "saveCount")) <=>
       totalIntApp + 1 \in DOMAIN apps

\* However the calls of two tasks and of users interleave, the look-up by name
\* never meets two apps with the same name: createIntegrationApp tests the
\* name and creates later, but only the key derived from the count it read.
NamesOnce ==
  \A j, k \in DOMAIN apps :
    apps[j].name = apps[k].name /\ apps[j].name \notin DOMAIN Trim => j = k

\* A client set up for an app refers to that app's number.
ClientOfItsApp ==
  \A r \in clients, job \in Jobs(deployment) :
    r.name = job.client.name =>
      /\ r.intAppId \in DOMAIN apps
      /\ Trimmed(apps[r.intAppId].name) = job.app.name

\* When a task starts the consumer, every app, client and token of the set-up
\* is there, whichever task or user created it and whoever died meanwhile.
StartedComplete ==
  (\E t \in deployment.tasks : At(t, "running")) =>
    \A job \in Jobs(deployment) :
      /\ \E k \in DOMAIN apps : Trimmed(apps[k].name) = job.app.name
      /\ job.client # NoClient => Matching(job.client) # {}
      /\ job.token => \E r \in Matching(job.client) : Key(r) \in tokens

\* The random part of a client's key lets two records have the same names, but
\* it takes two callers at once: restarts of a single task never do that.
AloneNoTwins ==
  Cardinality(Caller) = 1 =>
    \A q, r \in clients :
      q.integration = r.integration /\ q.sk = r.sk => q = r

\* Collisions, deaths and users cannot keep the consumer from being started,
\* with one exception: an app that was created and not counted.
ConsumerStarts == []<>(torn \/ \E t \in deployment.tasks : At(t, "running"))
=============================================================================
