----------------------------- MODULE BillingProofs -----------------------------
(***************************************************************************)
(* Proofs about the payment of triggers, for any callers, workflows,       *)
(* rules, versions, instances and faults: usage records are accounted      *)
(* for, an organization that pays is open, a caller that closed it runs    *)
(* once more, and rules are switched like triggers.                        *)
(***************************************************************************)
EXTENDS Billing, FiniteSetTheorems, WellFoundedInduction, TLAPS

Fields == {"pc", "kind", "w", "status", "sub", "rec", "todo", "name", "closed"}

NamesOf(w) == RulesOf(w) \union {NoRule}

\* What a loop has to do: workflows under places, each with a name of its own.
TodoOK(todo) ==
  /\ DOMAIN todo \subseteq Nat
  /\ \A i \in DOMAIN todo : todo[i].w \in Workflow /\ todo[i].name \in NamesOf(todo[i].w)

Names(todo) == {todo[i].w : i \in DOMAIN todo}

Loop == {"rule", "get", "save", "switch"}

Ending == {"list", "key"} \union Loop

Billable == {"org", "report", "total", "run"} \union Ending

Ordering == {"saveUser", "saveOrganization"} \union Ending

\* Who makes which call, and where the call can be.
KindOK(c, r) ==
  \/ r.kind = "none" /\ r.pc = "idle"
  \/ r.kind = "http" /\ c \in Http /\ r.pc \in Billable
  \/ r.kind = "timed" /\ c \in Consumer /\ r.pc \in Billable
  \/ r.kind = "create" /\ c \in Admin /\ r.pc \in {"subscribe"} \union Ordering
  \/ r.kind = "cancel" /\ c \in Admin /\ r.pc \in {"cancel"} \union Ordering
  \/ r.kind \in {"open", "close"} /\ c \in Editor /\ r.pc \in Loop \ {"rule"}
  \/ r.kind = "deploy" /\ c \in Editor /\ r.pc \in {"rules", "targets"}
  \/ r.kind = "delete" /\ c \in Editor /\ r.pc \in {"gone", "deleted"}

CallOK(c, r) ==
  /\ Fields \subseteq DOMAIN r
  /\ KindOK(c, r)
  /\ TodoOK(r.todo) /\ (DOMAIN r.todo # {} <=> r.pc \in Switching)
  /\ r.sub \in 0..created /\ r.rec \in 0..created
  /\ r.rec # NoSub => r.kind \in {"http", "timed"} /\ r.pc \in Billable \ {"org", "report"}
  /\ r.pc = "report" => r.sub # NoSub
  /\ r.kind \in {"open", "close"} => r.sub = NoSub /\ Names(Rest(r.todo)) = {}
  /\ r.kind \in {"http", "timed", "deploy", "delete"} => r.w \in Workflow
  /\ r.kind = "http" => r.status \in {"enabled", "disabled"}
  /\ r.kind = "deploy" =>
       \A i \in DOMAIN r.todo : r.todo[i].w = r.w /\ r.todo[i].name \in RulesOf(r.w)
  /\ r.pc \in {"save", "switch"} => r.name \in NamesOf(Current(r.todo).w)
  /\ r.kind = "delete" => r.name \in NamesOf(r.w)

Tables ==
  /\ instance \in Instances
  /\ calls \in [Caller -> Nat] /\ faults \in 0..instance.faults
  /\ call = [c \in Caller |-> call[c]]
  /\ live \subseteq 1..created /\ created \in 0..MaxSub
  /\ usage \in [SubId -> Nat] /\ billed \in [SubId -> Nat] /\ wasted \in [SubId -> Nat]
  /\ org \in 0..created
  /\ user = [a \in Admin |-> user[a]] /\ \A a \in Admin : user[a].sub \in 0..created
  /\ trigger \in [Workflow -> {"enabled", "disabled"}]
  /\ ruleName = [w \in Workflow |-> ruleName[w]] /\ unsaved = [w \in Workflow |-> unsaved[w]]
  /\ \A w \in Workflow : ruleName[w] \in NamesOf(w) /\ unsaved[w] \subseteq RulesOf(w)
  /\ active \subseteq Workflow
  /\ rules \in [Rule -> {"absent", "enabled", "disabled"}] /\ targets \subseteq Rule
  /\ deployed \in [Workflow -> Nat]
  /\ late \in [Http -> Nat] /\ opened \in Nat

Typed == Tables /\ key \in BOOLEAN /\ \A c \in Caller : CallOK(c, call[c])

-----------------------------------------------------------------------------
\* The workflows a call has still to switch.
Left(r) == IF r.pc = "switch" THEN Names(Rest(r.todo)) ELSE Names(r.todo)

FirstActive == active \ OtherPage

AllClosed(S) == \A w \in FirstActive \ S : trigger[w] = "disabled"

AllOpen(S) == \A w \in FirstActive \ S : trigger[w] = "enabled"

\* An HTTP call that will run an open workflow of the first page.
Passing(r) == r.kind = "http" /\ r.status = "enabled" /\ r.w \in FirstActive

Allowed == 1 + opened + (instance.faults - faults)

\* A caller that has used up its runs finds the page closed; before the last
\* one, what its call has come past is closed.
RunsLeft ==
  \A c \in Http :
    /\ late[c] <= Allowed
    /\ late[c] = Allowed => AllClosed({}) /\ ~Passing(call[c])
    /\ late[c] + 1 = Allowed /\ call[c].closed /\ Passing(call[c]) =>
         AllClosed(Left(call[c]))

-----------------------------------------------------------------------------
\* The workflows a call is going to switch, and the one it is switching.
Pends(r) == IF r.pc \in Loop THEN Names(r.todo) ELSE {}

Saving(r, w) == r.pc \in {"save", "switch"} /\ Current(r.todo).w = w

\* The rules a workflow names, or is about to, are switched like its trigger
\* unless somebody is going to switch them.
NamesMatch(w) ==
  (\A d \in Caller : w \notin Pends(call[d])) =>
    \A n \in {ruleName[w]} \union unsaved[w] :
      n # NoRule /\ rules[n] # "absent" => rules[n] = trigger[w]

\* Whoever is switching a workflow is alone and has its name.
SaverAlone(w) ==
  \A d \in Caller : Saving(call[d], w) =>
    /\ call[d].name = ruleName[w] /\ unsaved[w] = {}
    /\ call[d].pc = "switch" => trigger[w] = StatusOf(call[d])
    /\ \A e \in Caller : Saving(call[e], w) => e = d

Matched ==
  ~crossed /\ faults = instance.faults =>
    \A w \in active : NamesMatch(w) /\ SaverAlone(w)

-----------------------------------------------------------------------------
Creating(r) == r.kind = "create" /\ r.pc # "subscribe"

\* A subscription belongs to the admin that creates it, and is cancelled by the
\* one it was saved for.
Owned ==
  \A c \in Admin :
    /\ Creating(call[c]) =>
         /\ call[c].sub \in live
         /\ \A a \in Admin : user[a].sub = call[c].sub => a = c
         /\ \A a \in Admin : Creating(call[a]) /\ call[a].sub = call[c].sub => a = c
    /\ call[c].kind = "cancel" =>
         /\ call[c].pc # "saveOrganization" => user[c].sub = call[c].sub
         /\ call[c].pc # "cancel" => call[c].sub \notin live

\* How far createSubscription has opened the organization.
OpenedBy(c, r) ==
  /\ r.pc # "list" => AllOpen(Left(r))
  /\ r.pc \in {"saveUser", "saveOrganization"} => key
  /\ r.pc = "saveOrganization" => user[c].sub = r.sub

IsOpen(s) ==
  org = s /\ (\E a \in Admin : user[a].sub = s) /\ key /\ AllOpen({})

Opening ==
  ~excused /\ faults = instance.faults =>
    /\ \A c \in Caller : call[c].kind \in {"http", "timed"} /\ call[c].pc \in Ending =>
         call[c].sub = NoSub
    /\ \A s, t \in live : s = t
    /\ \A c \in Admin : Creating(call[c]) => OpenedBy(c, call[c])
    /\ (\A c \in Admin : ~Creating(call[c])) => \A s \in live : IsOpen(s)

-----------------------------------------------------------------------------
\* A set of numbers that is not empty has a least one.
LEMMA LeastPlace ==
  ASSUME NEW S, S \subseteq Nat, S # {}
  PROVE  Min(S) \in S
<1> DEFINE T == {1..x : x \in S}
<1>1. T \subseteq FiniteSubsetsOf(Nat) /\ T # {}
  <2>1. \A x \in Nat : 1..x \in SUBSET Nat /\ IsFiniteSet(1..x)
    BY FS_Interval
  <2> QED
    BY <2>1 DEF FiniteSubsetsOf
<1>2. PICK a \in T : \A b \in T : ~(<<b, a>> \in StrictSubsetOrdering(Nat))
  BY <1>1, FS_StrictSubsetOrderingWellFounded, WFMin
<1>3. PICK x \in S : a = 1..x
  BY <1>2
<1>4. ASSUME NEW y \in S, y < x PROVE FALSE
  <2>1. x \in Nat /\ y \in Nat
    OBVIOUS
  <2>2. 1..y \subseteq 1..x /\ x \in 1..x /\ x \notin 1..y
    BY <1>4, <2>1
  <2>3. 1..y \in SUBSET Nat /\ 1..x \in SUBSET Nat
    BY <2>1
  <2>4. <<1..y, 1..x>> \in StrictSubsetOrdering(Nat)
    BY <2>2, <2>3 DEF StrictSubsetOrdering
  <2> QED
    BY <1>2, <1>3, <2>4
<1>5. \A y \in S : x <= y
  BY <1>4
<1> QED
  BY <1>5 DEF Min

\* What is left of a loop when one workflow is done.
LEMMA RestOfTodo ==
  ASSUME NEW t, TodoOK(t), DOMAIN t # {}
  PROVE  /\ TodoOK(Rest(t))
         /\ Current(t).w \in Workflow /\ Current(t).name \in NamesOf(Current(t).w)
         /\ Current(t).w \in Names(t)
         /\ Names(t) = {Current(t).w} \union Names(Rest(t))
         /\ \A i \in DOMAIN Rest(t) : i \in DOMAIN t /\ Rest(t)[i] = t[i]
         /\ LastOne(t) <=> DOMAIN Rest(t) = {}
         /\ \E i \in DOMAIN t : Current(t) = t[i]
<1> DEFINE m == Min(DOMAIN t)
<1>1. m \in DOMAIN t
  BY LeastPlace DEF TodoOK
<1>2. DOMAIN Rest(t) = DOMAIN t \ {m} /\ \A i \in DOMAIN Rest(t) : Rest(t)[i] = t[i]
  BY DEF Rest, Restrict
<1>3. Current(t) = t[m]
  BY DEF Current
<1> HIDE DEF m
<1>4. TodoOK(Rest(t))
  BY <1>2 DEF TodoOK
<1>5. Current(t).w \in Workflow /\ Current(t).name \in NamesOf(Current(t).w)
  BY <1>1, <1>3 DEF TodoOK
<1>6. Names(t) = {Current(t).w} \union Names(Rest(t))
  BY <1>1, <1>2, <1>3 DEF Names
<1>7. LastOne(t) <=> DOMAIN Rest(t) = {}
  BY <1>1, <1>2 DEF LastOne, m
<1> QED
  BY <1>1, <1>2, <1>3, <1>4, <1>5, <1>6, <1>7

\* An empty loop is well formed and names no workflow.
LEMMA NothingLeft ==
  ASSUME NEW t, DOMAIN t = {}
  PROVE  Names(t) = {} /\ TodoOK(t)
BY DEF Names, TodoOK

\* A call with these fields.
Is(r, pc, kind, w, status, sub, rec, todo, name, closed) ==
  /\ Fields \subseteq DOMAIN r
  /\ r.pc = pc /\ r.kind = kind /\ r.w = w /\ r.status = status /\ r.sub = sub
  /\ r.rec = rec /\ r.todo = todo /\ r.name = name /\ r.closed = closed

\* What a change of one field, or of two, leaves of a call.
LEMMA PlaceOnly ==
  ASSUME NEW q, Fields \subseteq DOMAIN q, NEW p
  PROVE  Is([q EXCEPT !.pc = p], p, q.kind, q.w, q.status, q.sub, q.rec, q.todo,
            q.name, q.closed)
BY DEF Fields, Is

\* The same when another field is set with the place.
LEMMA PlaceAndMore ==
  ASSUME NEW q, Fields \subseteq DOMAIN q, NEW p, NEW v
  PROVE  /\ Is([q EXCEPT !.sub = v, !.pc = p],
               p, q.kind, q.w, q.status, v, q.rec, q.todo, q.name, q.closed)
         /\ Is([q EXCEPT !.rec = v, !.pc = p],
               p, q.kind, q.w, q.status, q.sub, v, q.todo, q.name, q.closed)
         /\ Is([q EXCEPT !.pc = p, !.name = v],
               p, q.kind, q.w, q.status, q.sub, q.rec, q.todo, v, q.closed)
         /\ Is([q EXCEPT !.pc = p, !.todo = v],
               p, q.kind, q.w, q.status, q.sub, q.rec, v, q.name, q.closed)
         /\ Is([q EXCEPT !.pc = p, !.closed = v],
               p, q.kind, q.w, q.status, q.sub, q.rec, q.todo, q.name, v)
<1> DEFINE s == [q EXCEPT !.pc = p]
<1>1. Is(s, p, q.kind, q.w, q.status, q.sub, q.rec, q.todo, q.name, q.closed)
  BY PlaceOnly
<1>2. /\ [q EXCEPT !.sub = v, !.pc = p] = [s EXCEPT !.sub = v]
      /\ [q EXCEPT !.rec = v, !.pc = p] = [s EXCEPT !.rec = v]
      /\ [q EXCEPT !.pc = p, !.name = v] = [s EXCEPT !.name = v]
      /\ [q EXCEPT !.pc = p, !.todo = v] = [s EXCEPT !.todo = v]
      /\ [q EXCEPT !.pc = p, !.closed = v] = [s EXCEPT !.closed = v]
  OBVIOUS
<1> HIDE DEF s
<1>3. Is([q EXCEPT !.sub = v, !.pc = p],
         p, q.kind, q.w, q.status, v, q.rec, q.todo, q.name, q.closed)
  BY <1>1, <1>2 DEF Fields, Is
<1>4. Is([q EXCEPT !.rec = v, !.pc = p],
         p, q.kind, q.w, q.status, q.sub, v, q.todo, q.name, q.closed)
  BY <1>1, <1>2 DEF Fields, Is
<1>5. Is([q EXCEPT !.pc = p, !.name = v],
         p, q.kind, q.w, q.status, q.sub, q.rec, q.todo, v, q.closed)
  BY <1>1, <1>2 DEF Fields, Is
<1>6. Is([q EXCEPT !.pc = p, !.todo = v],
         p, q.kind, q.w, q.status, q.sub, q.rec, v, q.name, q.closed)
  BY <1>1, <1>2 DEF Fields, Is
<1>7. Is([q EXCEPT !.pc = p, !.closed = v],
         p, q.kind, q.w, q.status, q.sub, q.rec, q.todo, q.name, v)
  BY <1>1, <1>2 DEF Fields, Is
<1> QED
  BY <1>3, <1>4, <1>5, <1>6, <1>7

\* The fields of a call that has just listed the workflows.
LEMMA ListingFields ==
  ASSUME NEW q, Fields \subseteq DOMAIN q, NEW p, NEW v
  PROVE  Is([q EXCEPT !.pc = p, !.todo = v, !.closed = TRUE],
            p, q.kind, q.w, q.status, q.sub, q.rec, v, q.name, TRUE)
<1> DEFINE s == [q EXCEPT !.pc = p, !.todo = v]
<1>1. Is(s, p, q.kind, q.w, q.status, q.sub, q.rec, v, q.name, q.closed)
  BY PlaceAndMore
<1>2. [q EXCEPT !.pc = p, !.todo = v, !.closed = TRUE] = [s EXCEPT !.closed = TRUE]
  OBVIOUS
<1> HIDE DEF s
<1> QED
  BY <1>1, <1>2 DEF Fields, Is

\* The fields of a call at rest.
LEMMA IdleShape ==
  Is(Idle, "idle", "none", "none", "none", NoSub, NoSub, << >>, NoRule, FALSE)
BY DEF Idle, Fields, Is

\* The next call of c is r.
Becomes(c, r) == call' = [call EXCEPT ![c] = r]

\* A call at rest is well formed.
LEMMA IdleOK == ASSUME Tables, NEW c PROVE CallOK(c, Idle)
BY IdleShape, NothingLeft
   DEF Is, CallOK, KindOK, Tables, Switching, NoSub, Loop, Billable, Ordering, Ending

\* The calls of the others stay well formed.
LEMMA TypedStep ==
  ASSUME Typed, Tables', key' \in BOOLEAN, created <= created', NEW c \in Caller, NEW r,
         Becomes(c, r), CallOK(c, r)'
  PROVE  Typed'
<1> SUFFICES ASSUME NEW d \in Caller PROVE CallOK(d, call[d])'
  BY DEF Typed
<1>1. call'[d] = IF d = c THEN r ELSE call[d]
  BY DEF Typed, Tables, Becomes
<1>2. PICK q : q = call[d]
  OBVIOUS
<1>3. CallOK(d, q) /\ created \in Nat /\ created' \in Nat
  BY <1>2, BillingAssumption DEF Typed, Tables, BillingAssumption
<1>4. CallOK(d, q)'
  <2>1. q.sub \in 0..created' /\ q.rec \in 0..created'
    BY <1>3 DEF CallOK
  <2> QED
    BY <1>3, <2>1 DEF CallOK, KindOK
<1> QED
  BY <1>1, <1>2, <1>4

\* The same when no subscription is created.
LEMMA TypedMove ==
  ASSUME Typed, Tables', key' \in BOOLEAN, created' = created, NEW c \in Caller, NEW r,
         Becomes(c, r), CallOK(c, r)
  PROVE  Typed'
<1>1. CallOK(c, r)'
  BY DEF CallOK, KindOK
<1>2. created <= created'
  BY BillingAssumption DEF Typed, Tables, BillingAssumption
<1> QED
  BY <1>1, <1>2, TypedStep

\* The tables when only the calls move.
LEMMA TablesSame ==
  ASSUME Typed, NEW c \in Caller, NEW r, Becomes(c, r),
         UNCHANGED <<instance, live, created, usage, org, user, trigger, ruleName, unsaved,
                     active, rules, targets, deployed, billed, wasted, late, opened>>,
         calls' \in [Caller -> Nat], faults' \in 0..instance.faults
  PROVE  Tables'
<1>1. call' = [d \in Caller |-> call'[d]]
  BY DEF Typed, Tables, Becomes
<1> QED
  BY <1>1 DEF Typed, Tables

\* A call begins.
LEMMA BeginMove ==
  ASSUME Typed, NEW c \in Caller, NEW r, Begin(c, r), CallOK(c, r),
         UNCHANGED <<instance, faults, stripe, accounts, gates, executions, history>>
  PROVE  Typed' /\ Becomes(c, r) /\ call[c].pc = "idle"
<1>1. Becomes(c, r) /\ call[c].pc = "idle"
  BY DEF Begin, At, Becomes
<1>2. calls' \in [Caller -> Nat]
  BY DEF Begin, Typed, Tables
<1>3. UNCHANGED <<live, created, usage, org, user, key, trigger, ruleName, unsaved,
                     active, rules, targets, deployed, billed, wasted, late, opened>>
  BY DEF stripe, accounts, gates, history
<1>4. faults' \in 0..instance.faults
  BY DEF Typed, Tables
<1>5. Tables'
  BY <1>1, <1>2, <1>3, <1>4, TablesSame
<1> QED
  BY <1>1, <1>3, <1>5, TypedMove DEF Typed

\* The parts are distinct, the workflows called exist.
LEMMA Parts ==
  ASSUME Typed
  PROVE  /\ instance.called \subseteq Workflow
         /\ \A w \in Workflow : trigger[w] \in {"enabled", "disabled"}
         /\ \A w \in Workflow : ruleName[w] \in NamesOf(w)
         /\ active \subseteq Workflow
BY BillingAssumption DEF Typed, Tables, BillingAssumption

\* An HTTP trigger begins: the call and its fields (triggerHttpWorkflow).
LEMMA TriggerMove ==
  ASSUME Typed, NEW c \in Caller, Trigger(c)
  PROVE  /\ Typed' /\ call[c].pc = "idle"
         /\ \E w \in Workflow : \E r : Becomes(c, r) /\
              Is(r, "org", "http", w, trigger[w], NoSub, NoSub, << >>, NoRule, FALSE)
<1>1. PICK w \in instance.called :
        Begin(c, [Idle EXCEPT !.pc = "org", !.kind = "http", !.w = w, !.status = trigger[w]])
  BY DEF Trigger
<1>2. PICK r : r = [Idle EXCEPT !.pc = "org", !.kind = "http", !.w = w,
                                !.status = trigger[w]]
  OBVIOUS
<1>3. Is(r, "org", "http", w, trigger[w], NoSub, NoSub, << >>, NoRule, FALSE)
  BY <1>2 DEF Idle, Is, Fields
<1>4. w \in Workflow /\ c \in Http
  BY Parts DEF Trigger
<1>5. CallOK(c, r)
  BY <1>3, <1>4, Parts, NothingLeft
     DEF Is, CallOK, KindOK, Typed, Tables, Switching, NoSub, Loop, Billable, Ordering, Ending
<1>6. Typed' /\ Becomes(c, r) /\ call[c].pc = "idle"
  BY <1>1, <1>2, <1>5, BeginMove DEF Trigger
<1> QED
  BY <1>3, <1>4, <1>6

\* A timer's message begins a call.
LEMMA TimedMove ==
  ASSUME Typed, NEW c \in Caller, TimedTrigger(c)
  PROVE  /\ Typed' /\ call[c].pc = "idle"
         /\ \E w \in Workflow : \E r : Becomes(c, r) /\
              Is(r, "org", "timed", w, "none", NoSub, NoSub, << >>, NoRule, FALSE)
<1>1. PICK w \in Workflow :
        Begin(c, [Idle EXCEPT !.pc = "org", !.kind = "timed", !.w = w])
  BY DEF TimedTrigger
<1>2. PICK r : r = [Idle EXCEPT !.pc = "org", !.kind = "timed", !.w = w]
  OBVIOUS
<1>3. Is(r, "org", "timed", w, "none", NoSub, NoSub, << >>, NoRule, FALSE)
  BY <1>2 DEF Idle, Is, Fields
<1>5. CallOK(c, r)
  BY <1>3, Parts, NothingLeft
     DEF Is, CallOK, KindOK, Typed, Tables, Switching, NoSub, Loop, Billable, Ordering,
         Ending, TimedTrigger
<1>6. Typed' /\ Becomes(c, r) /\ call[c].pc = "idle"
  BY <1>1, <1>2, <1>5, BeginMove DEF TimedTrigger
<1> QED
  BY <1>3, <1>6

\* An editor opens or closes a workflow.
LEMMA ToggleMove ==
  ASSUME Typed, NEW c \in Caller, Toggle(c)
  PROVE  /\ Typed' /\ call[c].pc = "idle"
         /\ \E r : /\ Becomes(c, r) /\ r.pc = "get"
                   /\ r.kind \in {"open", "close"} /\ r.rec = NoSub
<1>1. PICK w \in active \cap instance.called, kind \in {"open", "close"} :
       Begin(c, [Idle EXCEPT !.pc = "get", !.kind = kind,
                             !.todo = <<[w |-> w, name |-> NoRule]>>])
  BY DEF Toggle
<1> DEFINE t == <<[w |-> w, name |-> NoRule]>>
<1>2. PICK r : r = [Idle EXCEPT !.pc = "get", !.kind = kind, !.todo = t]
  OBVIOUS
<1>3. DOMAIN t = {1} /\ t[1].w = w /\ t[1].name = NoRule
  OBVIOUS
<1>4. TodoOK(t) /\ w \in Workflow
  BY <1>3, Parts DEF TodoOK, NamesOf
<1> HIDE DEF t
<1>8. Names(Rest(t)) = {}
  <2>1. Min({1}) \in {1}
    BY LeastPlace
  <2>2. DOMAIN Rest(t) = {}
    BY <1>3, <2>1 DEF Rest, Restrict
  <2> QED
    BY <2>2, NothingLeft
<1>5. Is(r, "get", kind, "none", "none", NoSub, NoSub, t, NoRule, FALSE)
  BY <1>2 DEF Idle, Is, Fields
<1>6. CallOK(c, r)
  BY <1>3, <1>4, <1>5, <1>8
     DEF Is, CallOK, KindOK, Typed, Tables, Switching, NoSub, Loop, Billable, Ordering,
         Ending, Toggle
<1>7. Typed' /\ Becomes(c, r) /\ call[c].pc = "idle"
  BY <1>1, <1>2, <1>6, BeginMove DEF Toggle, t
<1> QED
  BY <1>5, <1>7 DEF Is

\* An admin begins to subscribe or to cancel.
LEMMA AdminMove ==
  ASSUME Typed, NEW c \in Caller, Subscribe(c) \/ Cancel(c)
  PROVE  /\ Typed' /\ call[c].pc = "idle" /\ c \in Admin
         /\ \E r : /\ Becomes(c, r) /\ r.rec = NoSub
                   /\ \/ r.kind = "create" /\ r.pc = "subscribe"
                      \/ r.kind = "cancel" /\ r.pc = "cancel" /\ r.sub = user[c].sub
<1>1. CASE Subscribe(c)
  <2>1. PICK r : r = [Idle EXCEPT !.pc = "subscribe", !.kind = "create"]
    OBVIOUS
  <2>2. Is(r, "subscribe", "create", "none", "none", NoSub, NoSub, << >>, NoRule, FALSE)
    BY <2>1 DEF Idle, Is, Fields
  <2>3. CallOK(c, r)
    BY <1>1, <2>2, NothingLeft
       DEF Is, CallOK, KindOK, Typed, Tables, Switching, NoSub, Loop, Billable, Ordering,
           Ending, Subscribe
  <2>4. Typed' /\ Becomes(c, r) /\ call[c].pc = "idle"
    BY <1>1, <2>1, <2>3, BeginMove DEF Subscribe
  <2> QED
    BY <1>1, <2>2, <2>4 DEF Is, Subscribe
<1>2. CASE Cancel(c)
  <2>1. PICK r : r = [Idle EXCEPT !.pc = "cancel", !.kind = "cancel", !.sub = user[c].sub]
    OBVIOUS
  <2>2. Is(r, "cancel", "cancel", "none", "none", user[c].sub, NoSub, << >>, NoRule, FALSE)
    BY <2>1 DEF Idle, Is, Fields
  <2>3. c \in Admin /\ user[c].sub \in 0..created
    BY <1>2 DEF Cancel, Typed, Tables
  <2>4. CallOK(c, r)
    BY <1>2, <2>2, <2>3, NothingLeft
       DEF Is, CallOK, KindOK, Typed, Tables, Switching, NoSub, Loop, Billable, Ordering,
           Ending
  <2>5. Typed' /\ Becomes(c, r) /\ call[c].pc = "idle"
    BY <1>2, <2>1, <2>4, BeginMove DEF Cancel
  <2> QED
    BY <2>2, <2>3, <2>5 DEF Is
<1> QED
  BY <1>1, <1>2

-----------------------------------------------------------------------------
\* An editor deploys a version: it has the version's rules to put.
LEMMA DeployMove ==
  ASSUME Typed, NEW c \in Caller, Deploy(c)
  PROVE  /\ Typed' /\ call[c].pc = "idle"
         /\ \E r : /\ Becomes(c, r) /\ r.rec = NoSub
                   /\ r.pc = "rules" /\ r.kind = "deploy"
<1>1. PICK w \in active \cap instance.called :
       /\ deployed[w] < Len(Versions[w])
       /\ deployed' = [deployed EXCEPT ![w] = @ + 1]
       /\ Begin(c, [Idle EXCEPT !.pc = "rules", !.kind = "deploy", !.w = w,
             !.todo = [i \in DOMAIN Versions[w][deployed[w] + 1] |->
                          [w |-> w, name |-> Versions[w][deployed[w] + 1][i]]]])
  BY DEF Deploy
<1> DEFINE names == Versions[w][deployed[w] + 1]
           t == [i \in DOMAIN names |-> [w |-> w, name |-> names[i]]]
<1>2. w \in Workflow /\ deployed[w] \in Nat
  BY <1>1, Parts DEF Typed, Tables
<1>3. Versions[w] \in Seq(Seq(Rule) \ {<< >>}) /\ deployed[w] + 1 \in 1..Len(Versions[w])
  BY <1>1, <1>2, BillingAssumption DEF BillingAssumption
<1>4. names \in Seq(Rule) /\ names # << >>
  BY <1>3
<1>5. names \in {Versions[w][i] : i \in 1..Len(Versions[w])} /\ Range(names) \subseteq RulesOf(w)
  BY <1>3 DEF RulesOf
<1> HIDE DEF names
<1>6. DOMAIN t = 1..Len(names) /\ 1 \in DOMAIN t
      /\ \A i \in DOMAIN t : t[i].w = w /\ t[i].name = names[i]
  BY <1>4
<1>7. \A i \in DOMAIN t : t[i].name \in RulesOf(w)
  BY <1>4, <1>5, <1>6 DEF Range
<1> HIDE DEF t
<1>8. TodoOK(t)
  BY <1>2, <1>6, <1>7 DEF TodoOK, NamesOf
<1>9. PICK r : r = [Idle EXCEPT !.pc = "rules", !.kind = "deploy", !.w = w, !.todo = t]
  OBVIOUS
<1>10. Is(r, "rules", "deploy", w, "none", NoSub, NoSub, t, NoRule, FALSE)
  BY <1>9 DEF Idle, Is, Fields
<1>11. CallOK(c, r)
  BY <1>2, <1>6, <1>7, <1>8, <1>10
     DEF Is, CallOK, KindOK, Typed, Tables, Switching, NoSub, Loop, Billable, Ordering,
         Ending, Deploy
<1>12. Begin(c, r)
  BY <1>1, <1>9 DEF names, t
<1>13. deployed' \in [Workflow -> Nat] /\ calls' \in [Caller -> Nat]
       /\ Becomes(c, r) /\ call[c].pc = "idle"
  <2>1. deployed' = [deployed EXCEPT ![w] = deployed[w] + 1]
    BY <1>1
  <2>2. deployed \in [Workflow -> Nat] /\ calls \in [Caller -> Nat]
    BY DEF Typed, Tables
  <2>3. deployed' \in [Workflow -> Nat]
    BY <1>2, <2>1, <2>2
  <2>4. calls' \in [Caller -> Nat]
    BY <1>12, <2>2 DEF Begin
  <2> QED
    BY <1>12, <2>3, <2>4 DEF Begin, At, Becomes
<1>14. UNCHANGED <<instance, faults, live, created, usage, org, user, key, trigger,
         ruleName, unsaved, active, rules, targets, billed, wasted, late, opened>>
  BY DEF Deploy, stripe, accounts, gates, history
<1>15. Tables'
  <2>1. call' = [d \in Caller |-> call'[d]]
    BY <1>13 DEF Typed, Tables, Becomes
  <2> QED
    BY <1>13, <1>14, <2>1 DEF Typed, Tables
<1>16. Typed'
  BY <1>11, <1>13, <1>14, <1>15, TypedMove DEF Typed
<1> QED
  BY <1>10, <1>13, <1>16 DEF Is

\* An editor begins to delete a workflow.
LEMMA DeleteMove ==
  ASSUME Typed, NEW c \in Caller, Delete(c)
  PROVE  /\ Typed' /\ call[c].pc = "idle"
         /\ \E r : /\ Becomes(c, r) /\ r.rec = NoSub
                   /\ r.pc = "gone" /\ r.kind = "delete"
<1>1. PICK w \in active \cap instance.called :
       Begin(c, [Idle EXCEPT !.pc = "gone", !.kind = "delete", !.w = w,
                             !.name = ruleName[w]])
  BY DEF Delete
<1>2. PICK r : r = [Idle EXCEPT !.pc = "gone", !.kind = "delete", !.w = w,
                                !.name = ruleName[w]]
  OBVIOUS
<1>3. Is(r, "gone", "delete", w, "none", NoSub, NoSub, << >>, ruleName[w], FALSE)
  BY <1>2 DEF Idle, Is, Fields
<1>4. w \in Workflow /\ c \in Editor /\ ruleName[w] \in NamesOf(w)
  BY Parts DEF Delete
<1>5. CallOK(c, r)
  BY <1>3, <1>4, NothingLeft
     DEF Is, CallOK, KindOK, Typed, Tables, Switching, NoSub, Loop, Billable, Ordering, Ending
<1>6. Typed' /\ Becomes(c, r) /\ call[c].pc = "idle"
  BY <1>1, <1>2, <1>5, BeginMove DEF Delete
<1> QED
  BY <1>3, <1>6 DEF Is

\* A call goes on to another place, and nothing else of the tables moves.
LEMMA QuietMove ==
  ASSUME Typed, NEW c \in Caller, NEW r, Becomes(c, r), CallOK(c, r),
         UNCHANGED <<instance, calls, faults, live, created, usage, org, user, key, trigger,
                     ruleName, unsaved, active, rules, targets, deployed, billed, wasted,
                     late, opened>>
  PROVE  Typed'
<1>1. calls' \in [Caller -> Nat] /\ faults' \in 0..instance.faults
  BY DEF Typed, Tables
<1>2. Tables'
  BY <1>1, TablesSame
<1> QED
  BY <1>2, TypedMove DEF Typed

\* A call ends.
LEMMA FinishMove ==
  ASSUME Typed, NEW c \in Caller, Finish(c),
         UNCHANGED <<instance, calls, faults, live, created, usage, org, user, key, trigger,
                     ruleName, unsaved, active, rules, targets, deployed, billed, wasted,
                     late, opened>>
  PROVE  Typed'
BY IdleOK, QuietMove DEF Finish, Typed, Becomes

\* A billed call has read the organization's subscription.
LEMMA GetOrganizationMove ==
  ASSUME Typed, NEW c \in Caller, GetOrganization(c), NEW q, q = call[c]
  PROVE  /\ Typed'
         /\ \E r : Becomes(c, r) /\
              Is(r, IF org # NoSub THEN "report" ELSE "list", q.kind, q.w, q.status, org,
                 q.rec, q.todo, q.name, q.closed)
<1>1. CallOK(c, q) /\ q.pc = "org"
  BY DEF Typed, GetOrganization, At
<1> DEFINE p == IF org # NoSub THEN "report" ELSE "list"
<1>2. PICK r : r = [q EXCEPT !.sub = org, !.pc = p]
  OBVIOUS
<1>3. Becomes(c, r)
  BY <1>2 DEF GetOrganization, Becomes
<1>4. Is(r, p, q.kind, q.w, q.status, org, q.rec, q.todo, q.name, q.closed)
  BY <1>1, <1>2, PlaceAndMore DEF CallOK
<1>5. org \in 0..created
  BY DEF Typed, Tables
<1>6. CallOK(c, r)
  BY <1>1, <1>4, <1>5
     DEF Is, CallOK, KindOK, Switching, NoSub, Loop, Billable, Ordering, Ending
<1>7. UNCHANGED <<instance, calls, faults, live, created, usage, org, user, key, trigger,
                  ruleName, unsaved, active, rules, targets, deployed, billed, wasted,
                  late, opened>>
  BY DEF GetOrganization, stripe, accounts, gates, history
<1> QED
  BY <1>3, <1>4, <1>6, <1>7, QuietMove

\* A usage record is created, or the subscription is gone.
LEMMA CreateUsageRecordMove ==
  ASSUME Typed, NEW c \in Caller, CreateUsageRecord(c), NEW q, q = call[c]
  PROVE  /\ Typed'
         /\ \E r : Becomes(c, r) /\
              Is(r, "total", q.kind, q.w, q.status, q.sub, q.sub, q.todo, q.name, q.closed)
<1>1. CallOK(c, q) /\ q.pc = "report"
  BY DEF Typed, CreateUsageRecord, At
<1>2. PICK r : r = [q EXCEPT !.rec = q.sub, !.pc = "total"]
  OBVIOUS
<1>3. Becomes(c, r)
  BY <1>2 DEF CreateUsageRecord, Becomes
<1>4. Is(r, "total", q.kind, q.w, q.status, q.sub, q.sub, q.todo, q.name, q.closed)
  BY <1>1, <1>2, PlaceAndMore DEF CallOK
<1>5. CallOK(c, r)
  BY <1>1, <1>4
     DEF Is, CallOK, KindOK, Switching, NoSub, Loop, Billable, Ordering, Ending
<1>6. UNCHANGED <<instance, calls, faults, live, created, org, user, key, trigger,
                  ruleName, unsaved, active, rules, targets, deployed, billed, wasted,
                  late, opened>>
  BY DEF CreateUsageRecord, accounts, gates, history
<1>7. usage' \in [SubId -> Nat]
  <2>1. usage' = [usage EXCEPT ![q.sub] = usage[q.sub] + 1]
    BY DEF CreateUsageRecord
  <2>2. usage \in [SubId -> Nat]
    BY DEF Typed, Tables
  <2>3. usage[q.sub] + 1 \in Nat
    <3>1. q.sub \in SubId
      BY <1>1, BillingAssumption
         DEF CallOK, Typed, Tables, SubId, NoSub, BillingAssumption
    <3> QED
      BY <2>2, <3>1
  <2> DEFINE v == usage[q.sub] + 1
  <2> HIDE DEF v
  <2>4. usage' = [usage EXCEPT ![q.sub] = v] /\ v \in Nat
    BY <2>1, <2>3 DEF v
  <2> QED
    BY <2>2, <2>4
<1>8. Tables'
  <2>1. call' = [d \in Caller |-> call'[d]]
    BY <1>3 DEF Typed, Tables, Becomes
  <2> QED
    BY <1>6, <1>7, <2>1 DEF Typed, Tables
<1> QED
  BY <1>3, <1>4, <1>5, <1>6, <1>8, TypedMove DEF Typed

\* A billed call compares the total with the limit: it closes the page or runs.
LEMMA CheckLimitMove ==
  ASSUME Typed, NEW c \in Caller, CheckLimit(c), NEW q, q = call[c]
  PROVE  /\ Typed'
         /\ \E r, p : /\ Becomes(c, r)
                      /\ Is(r, p, q.kind, q.w, q.status, q.sub, q.rec, q.todo, q.name, q.closed)
                      /\ p = "run" \/ (p = "list" /\ excused')
<1>1. CallOK(c, q) /\ q.pc = "total"
  BY DEF Typed, CheckLimit, At
<1> DEFINE over == \E m \in instance.limit : usage[q.sub] >= m
           p == IF over THEN "list" ELSE "run"
<1>2. PICK r : r = [q EXCEPT !.pc = p]
  OBVIOUS
<1>3. Becomes(c, r)
  BY <1>2 DEF CheckLimit, Goto, Becomes
<1>4. Is(r, p, q.kind, q.w, q.status, q.sub, q.rec, q.todo, q.name, q.closed)
  BY <1>1, <1>2, PlaceOnly DEF CallOK
<1>5. p = "run" \/ (p = "list" /\ excused')
  BY DEF CheckLimit
<1> HIDE DEF p
<1>6. CallOK(c, r)
  BY <1>1, <1>4, <1>5
     DEF Is, CallOK, KindOK, Switching, NoSub, Loop, Billable, Ordering, Ending
<1>7. UNCHANGED <<instance, calls, faults, live, created, usage, org, user, key, trigger,
                  ruleName, unsaved, active, rules, targets, deployed, billed, wasted,
                  late, opened>>
  BY DEF CheckLimit, stripe, accounts, gates
<1> QED
  BY <1>3, <1>4, <1>5, <1>6, <1>7, QuietMove

-----------------------------------------------------------------------------
\* Where a loop goes on when a workflow is done.
LEMMA WorkflowDone ==
  ASSUME Typed, NEW c \in Caller, NEW q, CallOK(c, q), q.pc \in {"get", "save", "switch"}
  PROVE  /\ CallOK(c, NextWorkflow(q))
         /\ \/ NextWorkflow(q) = Idle /\ q.kind \in {"open", "close"}
            \/ \E p, t : /\ Is(NextWorkflow(q), p, q.kind, q.w, q.status, q.sub, q.rec, t,
                               q.name, q.closed)
                         /\ p \in {"key", "rule"} /\ Names(t) = Names(Rest(q.todo))
                         /\ q.kind \notin {"open", "close"}
                         /\ p = "key" => Names(t) = {}
<1> DEFINE r == NextWorkflow(q)
           t == Rest(q.todo)
<1>1. Fields \subseteq DOMAIN q /\ TodoOK(q.todo) /\ DOMAIN q.todo # {}
  BY DEF CallOK, Switching
<1>2. TodoOK(t) /\ (LastOne(q.todo) <=> DOMAIN t = {})
  BY <1>1, RestOfTodo
<1>3. CASE q.kind \in {"open", "close"}
  <2>1. r = Idle
    BY <1>3 DEF NextWorkflow
  <2> QED
    BY <1>3, <2>1, IdleOK DEF Typed
<1>4. CASE q.kind \notin {"open", "close"} /\ LastOne(q.todo)
  <2>1. r = [q EXCEPT !.pc = "key", !.todo = << >>]
    BY <1>4 DEF NextWorkflow
  <2>2. Is(r, "key", q.kind, q.w, q.status, q.sub, q.rec, << >>, q.name, q.closed)
    <3>1. PICK e : e = << >>
      OBVIOUS
    <3>2. r = [q EXCEPT !.pc = "key", !.todo = e]
      BY <2>1, <3>1
    <3> HIDE DEF r
    <3>3. Is(r, "key", q.kind, q.w, q.status, q.sub, q.rec, e, q.name, q.closed)
      BY <1>1, <3>2, PlaceAndMore
    <3> QED
      BY <3>1, <3>3
  <2>3. Names(<< >>) = {} /\ Names(t) = {} /\ TodoOK(<< >>)
    BY <1>2, <1>4, NothingLeft
  <2> HIDE DEF r
  <2>4. CallOK(c, r)
    BY <1>4, <2>2, <2>3
       DEF Is, CallOK, KindOK, Switching, NoSub, Loop, Billable, Ordering, Ending
  <2> QED
    BY <1>4, <2>2, <2>3, <2>4 DEF r
<1>5. CASE q.kind \notin {"open", "close"} /\ ~LastOne(q.todo)
  <2>1. r = [q EXCEPT !.pc = "rule", !.todo = t]
    BY <1>5 DEF NextWorkflow
  <2> HIDE DEF r, t
  <2>2. Is(r, "rule", q.kind, q.w, q.status, q.sub, q.rec, t, q.name, q.closed)
    BY <1>1, <2>1, PlaceAndMore
  <2>4. CallOK(c, r)
    BY <1>2, <1>5, <2>2
       DEF Is, CallOK, KindOK, Switching, NoSub, Loop, Billable, Ordering, Ending
  <2> QED
    BY <1>5, <2>2, <2>4 DEF r, t
<1> QED
  BY <1>3, <1>4, <1>5

\* Where a deployment goes on when a rule is done.
LEMMA RuleDone ==
  ASSUME Typed, NEW c \in Caller, NEW q, CallOK(c, q), q.pc = "targets"
  PROVE  /\ CallOK(c, NextRule(q))
         /\ NextRule(q).rec = NoSub
         /\ \/ NextRule(q) = Idle
            \/ NextRule(q).kind = "deploy" /\ NextRule(q).pc = "rules"
<1> DEFINE r == NextRule(q)
           t == Rest(q.todo)
<1>1. /\ Fields \subseteq DOMAIN q /\ TodoOK(q.todo) /\ DOMAIN q.todo # {}
      /\ q.kind = "deploy" /\ q.rec = NoSub
  BY DEF CallOK, KindOK, Switching, Loop, Billable, Ordering, Ending
<1>2. /\ TodoOK(t) /\ (LastOne(q.todo) <=> DOMAIN t = {})
      /\ \A i \in DOMAIN t : i \in DOMAIN q.todo /\ t[i] = q.todo[i]
  BY <1>1, RestOfTodo
<1>3. CASE LastOne(q.todo)
  <2>1. r = Idle
    BY <1>3 DEF NextRule
  <2> QED
    BY <2>1, IdleOK, IdleShape DEF Typed, Is
<1>5. CASE ~LastOne(q.todo)
  <2>1. r = [q EXCEPT !.pc = "rules", !.todo = t]
    BY <1>5 DEF NextRule
  <2> HIDE DEF r, t
  <2>2. Is(r, "rules", q.kind, q.w, q.status, q.sub, q.rec, t, q.name, q.closed)
    BY <1>1, <2>1, PlaceAndMore
  <2>4. CallOK(c, r)
    BY <1>1, <1>2, <1>5, <2>2
       DEF Is, CallOK, KindOK, Switching, NoSub, Loop, Billable, Ordering, Ending
  <2> QED
    BY <1>1, <1>5, <2>2, <2>4 DEF r, t, Is
<1> QED
  BY <1>3, <1>5

\* A call of a closed workflow is refused after it was billed.
LEMMA RefuseMove ==
  ASSUME Typed, NEW c \in Caller, Refuse(c)
  PROVE  Typed' /\ Becomes(c, Idle)
<1>1. wasted' \in [SubId -> Nat]
  BY DEF Refuse, Waste, Typed, Tables
<1>2. Becomes(c, Idle)
  BY DEF Refuse, Finish, Becomes
<1>3. UNCHANGED <<instance, calls, faults, live, created, usage, org, user, key, trigger,
                  ruleName, unsaved, active, rules, targets, deployed, billed, late, opened>>
  BY DEF Refuse, stripe, accounts, gates
<1>4. Tables'
  <2>1. call' = [d \in Caller |-> call'[d]]
    BY <1>2 DEF Typed, Tables, Becomes
  <2> QED
    BY <1>1, <1>3, <2>1 DEF Typed, Tables
<1> QED
  BY <1>2, <1>3, <1>4, IdleOK, TypedMove DEF Typed

\* A billed call runs the workflow.
LEMMA RunMove ==
  ASSUME Typed, NEW c \in Caller, Run(c)
  PROVE  Typed' /\ Becomes(c, Idle)
<1>1. billed' \in [SubId -> Nat]
  BY DEF Run, Typed, Tables
<1>2. late' \in [Http -> Nat]
  BY DEF Run, Typed, Tables
<1>3. Becomes(c, Idle)
  BY DEF Run, Finish, Becomes
<1>4. UNCHANGED <<instance, calls, faults, live, created, usage, org, user, key, trigger,
                  ruleName, unsaved, active, rules, targets, deployed, wasted, opened>>
  BY DEF Run, stripe, accounts, gates
<1>5. Tables'
  <2>1. call' = [d \in Caller |-> call'[d]]
    BY <1>3 DEF Typed, Tables, Becomes
  <2> QED
    BY <1>1, <1>2, <1>4, <2>1 DEF Typed, Tables
<1> QED
  BY <1>3, <1>4, <1>5, IdleOK, TypedMove DEF Typed

\* Stripe refuses a call of a dead subscription, which ends.
LEMMA RejectMove ==
  ASSUME Typed, NEW c \in Caller, Reject(c)
  PROVE  Typed' /\ Becomes(c, Idle)
BY FinishMove DEF Reject, Finish, stripe, accounts, gates, history, Becomes

\* What the list names is what is active on the first page.
LEMMA ListIsPage ==
  ASSUME Typed
  PROVE  /\ TodoOK(Listed) /\ Names(Listed) = FirstActive
         /\ ActivePage = {} <=> DOMAIN Listed = {}
<1>1. DOMAIN Listed = ActivePage
      /\ \A i \in ActivePage : /\ Listed[i].w = FirstPage[i]
                               /\ Listed[i].name = ruleName[FirstPage[i]]
  BY DEF Listed
<1>2. ActivePage \subseteq Nat /\ \A i \in ActivePage : FirstPage[i] \in active
  <2>1. FirstPage \in Seq(Range(FirstPage))
    BY BillingAssumption DEF BillingAssumption
  <2> QED
    BY <2>1 DEF ActivePage
<1>3. TodoOK(Listed)
  BY <1>1, <1>2, Parts DEF TodoOK
<1>4. FirstActive = {FirstPage[i] : i \in ActivePage}
  <2>1. FirstActive = active \cap Range(FirstPage)
    BY Parts, BillingAssumption DEF FirstActive, Workflow, BillingAssumption
  <2> QED
    BY <2>1 DEF ActivePage, Range
<1>5. Names(Listed) = FirstActive
  BY <1>1, <1>4 DEF Names
<1> QED
  BY <1>1, <1>3, <1>5

\* A call has listed the workflows of the page.
LEMMA ListMove ==
  ASSUME Typed, NEW c \in Caller, List(c), NEW q, q = call[c]
  PROVE  /\ Typed'
         /\ \E r, p, t, b :
              /\ Becomes(c, r)
              /\ Is(r, p, q.kind, q.w, q.status, q.sub, q.rec, t, q.name, b)
              /\ \/ /\ p \in {"saveUser", "run"} /\ Closing(q) /\ t = q.todo /\ b = q.closed
                    /\ p = "run" => q.kind \in {"http", "timed"}
                 \/ p \in {"rule", "key"} /\ Names(t) = FirstActive /\ b
<1>1. CallOK(c, q) /\ q.pc = "list"
  BY DEF Typed, List, At
<1>2. Fields \subseteq DOMAIN q /\ q.todo = q.todo /\ DOMAIN q.todo = {} /\ TodoOK(q.todo)
  BY <1>1 DEF CallOK, Switching
<1>3. q.kind \in {"http", "timed", "create", "cancel"}
  BY <1>1 DEF CallOK, KindOK, Loop
<1>4. UNCHANGED <<instance, calls, faults, live, created, usage, org, user, key, trigger,
                  ruleName, unsaved, active, rules, targets, deployed, billed, wasted,
                  late, opened>>
  BY DEF List, stripe, accounts, gates, history
<1>5. CASE Closing(q) /\ ~FreeAreUsed
  <2> DEFINE p == IF q.kind = "cancel" THEN "saveUser" ELSE "run"
  <2>1. PICK r : r = [q EXCEPT !.pc = p]
    OBVIOUS
  <2>2. Becomes(c, r)
    BY <1>5, <2>1 DEF List, Becomes
  <2>3. Is(r, p, q.kind, q.w, q.status, q.sub, q.rec, q.todo, q.name, q.closed)
    BY <1>2, <2>1, PlaceOnly
  <2>4. CallOK(c, r) /\ p \in {"saveUser", "run"} /\ (p = "run" => q.kind \in {"http", "timed"})
    BY <1>1, <1>2, <1>3, <1>5, <2>3
       DEF Is, CallOK, KindOK, Switching, NoSub, Loop, Billable, Ordering, Ending, Closing
  <2> HIDE DEF p
  <2> QED
    BY <1>4, <1>5, <2>2, <2>3, <2>4, QuietMove
<1>6. CASE ~(Closing(q) /\ ~FreeAreUsed) /\ ActivePage = {}
  <2>1. PICK r : r = [q EXCEPT !.pc = "key", !.closed = TRUE]
    OBVIOUS
  <2>2. Becomes(c, r)
    BY <1>6, <2>1 DEF List, Becomes
  <2>3. Is(r, "key", q.kind, q.w, q.status, q.sub, q.rec, q.todo, q.name, TRUE)
    BY <1>2, <2>1, PlaceAndMore
  <2>4. CallOK(c, r)
    BY <1>1, <1>2, <1>3, <2>3
       DEF Is, CallOK, KindOK, Switching, NoSub, Loop, Billable, Ordering, Ending
  <2>5. Names(q.todo) = FirstActive
    BY <1>2, <1>6, ListIsPage, NothingLeft
  <2> QED
    BY <1>4, <2>2, <2>3, <2>4, <2>5, QuietMove
<1>7. CASE ~(Closing(q) /\ ~FreeAreUsed) /\ ActivePage # {}
  <2> DEFINE t == Listed
  <2>1. PICK r : r = [q EXCEPT !.pc = "rule", !.todo = t, !.closed = TRUE]
    OBVIOUS
  <2>2. Becomes(c, r)
    BY <1>7, <2>1 DEF List, Becomes
  <2>5. TodoOK(t) /\ Names(t) = FirstActive /\ DOMAIN t # {}
    BY <1>7, ListIsPage
  <2> HIDE DEF t
  <2>3. Is(r, "rule", q.kind, q.w, q.status, q.sub, q.rec, t, q.name, TRUE)
    BY <1>2, <2>1, ListingFields
  <2>4. CallOK(c, r)
    BY <1>1, <1>2, <1>3, <2>3, <2>5
       DEF Is, CallOK, KindOK, Switching, NoSub, Loop, Billable, Ordering, Ending
  <2> QED
    BY <1>4, <2>2, <2>3, <2>4, <2>5, QuietMove
<1> QED
  BY <1>5, <1>6, <1>7

-----------------------------------------------------------------------------
\* Switching a rule keeps the rules' type.
LEMMA SetRuleTyped ==
  ASSUME Typed, NEW n, NEW s \in {"enabled", "disabled"}, SetRule(n, s)
  PROVE  rules' \in [Rule -> {"absent", "enabled", "disabled"}]
BY DEF SetRule, Typed, Tables

\* The tables when the calls and the rules move.
LEMMA RulesMove ==
  ASSUME Typed, NEW c \in Caller, NEW r, Becomes(c, r), CallOK(c, r),
         rules' \in [Rule -> {"absent", "enabled", "disabled"}],
         UNCHANGED <<instance, calls, faults, live, created, usage, org, user, key, trigger,
                     ruleName, unsaved, active, targets, deployed, billed, wasted,
                     late, opened>>
  PROVE  Typed'
<1>1. Tables'
  <2>1. call' = [d \in Caller |-> call'[d]]
    BY DEF Typed, Tables, Becomes
  <2> QED
    BY <2>1 DEF Typed, Tables
<1> QED
  BY <1>1, TypedMove DEF Typed

\* A loop begins with its next workflow.
LEMMA SwitchListedMove ==
  ASSUME Typed, NEW c \in Caller, SwitchListed(c), NEW q, q = call[c]
  PROVE  /\ Typed'
         /\ \E r : Becomes(c, r) /\
              Is(r, "get", q.kind, q.w, q.status, q.sub, q.rec, q.todo, q.name, q.closed)
<1>1. CallOK(c, q) /\ q.pc = "rule"
  BY DEF Typed, SwitchListed, At
<1>2. PICK r : r = [q EXCEPT !.pc = "get"]
  OBVIOUS
<1>3. Becomes(c, r)
  BY <1>2 DEF SwitchListed, Goto, Becomes
<1>4. Is(r, "get", q.kind, q.w, q.status, q.sub, q.rec, q.todo, q.name, q.closed)
  BY <1>1, <1>2, PlaceOnly DEF CallOK
<1>5. CallOK(c, r)
  BY <1>1, <1>4
     DEF Is, CallOK, KindOK, Switching, NoSub, Loop, Billable, Ordering, Ending
<1>6. rules' \in [Rule -> {"absent", "enabled", "disabled"}]
  BY SetRuleTyped DEF SwitchListed, StatusOf
<1>7. UNCHANGED <<instance, calls, faults, live, created, usage, org, user, key, trigger,
                  ruleName, unsaved, active, targets, deployed, billed, wasted,
                  late, opened>>
  BY DEF SwitchListed, stripe, accounts, history
<1> QED
  BY <1>3, <1>4, <1>5, <1>6, <1>7, RulesMove

\* A loop has read the workflow's rule.
LEMMA GetWorkflowMove ==
  ASSUME Typed, NEW c \in Caller, GetWorkflow(c), NEW q, q = call[c]
  PROVE  /\ Typed' /\ Current(q.todo).w \in Workflow
         /\ \E r : Becomes(c, r) /\
              Is(r, "save", q.kind, q.w, q.status, q.sub, q.rec, q.todo,
                 ruleName[Current(q.todo).w], q.closed)
<1> DEFINE w == Current(q.todo).w
<1>1. CallOK(c, q) /\ q.pc = "get"
  BY DEF Typed, GetWorkflow, At
<1>2. PICK r : r = [q EXCEPT !.pc = "save", !.name = ruleName[w]]
  OBVIOUS
<1>3. Becomes(c, r)
  BY <1>2 DEF GetWorkflow, Becomes
<1>4. Is(r, "save", q.kind, q.w, q.status, q.sub, q.rec, q.todo, ruleName[w], q.closed)
  BY <1>1, <1>2, PlaceAndMore DEF CallOK
<1>5. w \in Workflow
  BY <1>1, RestOfTodo DEF CallOK, Switching
<1>6. CallOK(c, r)
  BY <1>1, <1>4, <1>5, Parts
     DEF Is, CallOK, KindOK, Switching, NoSub, Loop, Billable, Ordering, Ending
<1>7. UNCHANGED <<instance, calls, faults, live, created, usage, org, user, key, trigger,
                  ruleName, unsaved, active, rules, targets, deployed, billed, wasted,
                  late, opened>>
  BY DEF GetWorkflow, stripe, accounts, gates
<1> QED
  BY <1>3, <1>4, <1>5, <1>6, <1>7, QuietMove

\* A loop has saved a trigger's status.
LEMMA SaveTriggerStatusMove ==
  ASSUME Typed, NEW c \in Caller, SaveTriggerStatus(c), NEW q, q = call[c]
  PROVE  /\ Typed' /\ Current(q.todo).w \in Workflow
         /\ \E r : Becomes(c, r) /\
              Is(r, "switch", q.kind, q.w, q.status, q.sub, q.rec, q.todo, q.name, q.closed)
<1> DEFINE w == Current(q.todo).w
<1>1. CallOK(c, q) /\ q.pc = "save"
  BY DEF Typed, SaveTriggerStatus, At
<1>2. PICK r : r = [q EXCEPT !.pc = "switch"]
  OBVIOUS
<1>3. Becomes(c, r)
  BY <1>2 DEF SaveTriggerStatus, Goto, Becomes
<1>4. Is(r, "switch", q.kind, q.w, q.status, q.sub, q.rec, q.todo, q.name, q.closed)
  BY <1>1, <1>2, PlaceOnly DEF CallOK
<1>5. w \in Workflow
  BY <1>1, RestOfTodo DEF CallOK, Switching
<1>6. CallOK(c, r)
  BY <1>1, <1>4
     DEF Is, CallOK, KindOK, Switching, NoSub, Loop, Billable, Ordering, Ending
<1>7. UNCHANGED <<instance, calls, faults, live, created, usage, org, user, key,
                  ruleName, unsaved, active, rules, targets, deployed, billed, wasted, late>>
  BY DEF SaveTriggerStatus, stripe, accounts
<1>8. trigger' \in [Workflow -> {"enabled", "disabled"}]
  BY <1>5 DEF SaveTriggerStatus, Typed, Tables, StatusOf
<1>9. opened' \in Nat
  BY DEF SaveTriggerStatus, Typed, Tables
<1>10. Tables'
  <2>1. call' = [d \in Caller |-> call'[d]]
    BY <1>3 DEF Typed, Tables, Becomes
  <2> QED
    BY <1>7, <1>8, <1>9, <2>1 DEF Typed, Tables
<1> QED
  BY <1>3, <1>4, <1>5, <1>6, <1>7, <1>10, TypedMove DEF Typed

\* A loop has switched the rule: the next workflow, or what follows.
LEMMA SwitchRuleMove ==
  ASSUME Typed, NEW c \in Caller, SwitchRule(c), NEW q, q = call[c]
  PROVE  Typed' /\ Becomes(c, NextWorkflow(q)) /\ CallOK(c, q)
<1>1. CallOK(c, q) /\ q.pc = "switch"
  BY DEF Typed, SwitchRule, At
<1>2. Becomes(c, NextWorkflow(q))
  BY DEF SwitchRule, Becomes
<1>3. CallOK(c, NextWorkflow(q))
  BY <1>1, WorkflowDone
<1>4. rules' \in [Rule -> {"absent", "enabled", "disabled"}]
  BY SetRuleTyped DEF SwitchRule, StatusOf
<1>5. UNCHANGED <<instance, calls, faults, live, created, usage, org, user, key, trigger,
                  ruleName, unsaved, active, targets, deployed, billed, wasted,
                  late, opened>>
  BY DEF SwitchRule, stripe, accounts, history
<1> QED
  BY <1>1, <1>2, <1>3, <1>4, <1>5, RulesMove

\* The API key is switched.
LEMMA SwitchKeyMove ==
  ASSUME Typed, NEW c \in Caller, SwitchKey(c), NEW q, q = call[c]
  PROVE  /\ Typed'
         /\ \E r, p : /\ Becomes(c, r)
                      /\ Is(r, p, q.kind, q.w, q.status, q.sub, q.rec, q.todo, q.name, q.closed)
                      /\ p = IF q.kind \in {"http", "timed"} THEN "run" ELSE "saveUser"
<1>1. CallOK(c, q) /\ q.pc = "key"
  BY DEF Typed, SwitchKey, At
<1> DEFINE p == IF q.kind \in {"http", "timed"} THEN "run" ELSE "saveUser"
<1>2. PICK r : r = [q EXCEPT !.pc = p]
  OBVIOUS
<1>3. Becomes(c, r)
  BY <1>2 DEF SwitchKey, Goto, Becomes
<1>4. Is(r, p, q.kind, q.w, q.status, q.sub, q.rec, q.todo, q.name, q.closed)
  BY <1>1, <1>2, PlaceOnly DEF CallOK
<1>5. CallOK(c, r)
  BY <1>1, <1>4
     DEF Is, CallOK, KindOK, Switching, NoSub, Loop, Billable, Ordering, Ending
<1>6. key' \in BOOLEAN
  BY DEF SwitchKey, Closing
<1>7. UNCHANGED <<instance, calls, faults, live, created, usage, org, user, trigger,
                  ruleName, unsaved, active, rules, targets, deployed, billed, wasted,
                  late, opened>>
  BY DEF SwitchKey, stripe, accounts
<1>8. Tables'
  <2>1. calls' \in [Caller -> Nat] /\ faults' \in 0..instance.faults
    BY <1>7 DEF Typed, Tables
  <2> QED
    BY <1>3, <1>7, <2>1, TablesSame
<1> HIDE DEF p
<1> QED
  BY <1>3, <1>4, <1>5, <1>6, <1>7, <1>8, TypedMove DEF p

-----------------------------------------------------------------------------
\* The calls of an admin that is subscribing or cancelling.
LEMMA AdminPlaces ==
  ASSUME NEW c, NEW q, CallOK(c, q),
         q.pc \in {"subscribe", "cancel", "saveUser", "saveOrganization"}
  PROVE  c \in Admin /\ q.kind \in {"create", "cancel"} /\ q.rec = NoSub /\ DOMAIN q.todo = {}
         /\ Fields \subseteq DOMAIN q
         /\ (q.pc = "subscribe" => q.kind = "create") /\ (q.pc = "cancel" => q.kind = "cancel")
BY DEF CallOK, KindOK, Switching, Loop, Billable, Ordering, Ending

\* A subscription is created.
LEMMA CreateSubscriptionMove ==
  ASSUME Typed, NEW c \in Caller, CreateSubscription(c), NEW q, q = call[c]
  PROVE  /\ Typed' /\ c \in Admin /\ q.kind = "create"
         /\ created' = created + 1 /\ live' = live \union {created'}
         /\ \E r : Becomes(c, r) /\
              Is(r, "list", "create", q.w, q.status, created', NoSub, q.todo, q.name, q.closed)
<1>1. CallOK(c, q) /\ q.pc = "subscribe"
  BY DEF Typed, CreateSubscription, At
<1>2. c \in Admin /\ q.kind = "create" /\ q.rec = NoSub /\ DOMAIN q.todo = {}
      /\ Fields \subseteq DOMAIN q
  BY <1>1, AdminPlaces
<1>3. created' = created + 1 /\ live' = live \union {created'} /\ created < MaxSub
  BY DEF CreateSubscription
<1>4. PICK s : s = created'
  OBVIOUS
<1>5. created \in Nat /\ s \in 1..MaxSub /\ s = created + 1 /\ MaxSub \in Nat
  BY <1>3, <1>4, BillingAssumption DEF Typed, Tables, BillingAssumption
<1>6. PICK r : r = [q EXCEPT !.sub = s, !.pc = "list"]
  OBVIOUS
<1>7. Becomes(c, r)
  BY <1>4, <1>6 DEF CreateSubscription, Becomes
<1>8. Is(r, "list", "create", q.w, q.status, s, NoSub, q.todo, q.name, q.closed)
  <2>1. Is(r, "list", q.kind, q.w, q.status, s, q.rec, q.todo, q.name, q.closed)
    BY <1>2, <1>6, PlaceAndMore
  <2> QED
    BY <1>2, <2>1
<1>9. s \in 0..created' /\ NoSub \in 0..created'
  BY <1>3, <1>4, <1>5 DEF NoSub
<1>10. CallOK(c, r)'
  BY <1>1, <1>2, <1>8, <1>9
     DEF Is, CallOK, KindOK, Switching, Loop, Billable, Ordering, Ending
<1>11. UNCHANGED <<instance, calls, faults, usage, org, user, key, trigger,
                  ruleName, unsaved, active, rules, targets, deployed, billed, wasted,
                  late, opened>>
  BY DEF CreateSubscription, accounts, gates
<1>12. Tables'
  <2>1. call' = [d \in Caller |-> call'[d]]
    BY <1>7 DEF Typed, Tables, Becomes
  <2>2. live' \subseteq 1..created' /\ created' \in 0..MaxSub
    BY <1>3, <1>4, <1>5 DEF Typed, Tables
  <2>3. org' \in 0..created' /\ \A a \in Admin : user'[a].sub \in 0..created'
    BY <1>3, <1>5, <1>11 DEF Typed, Tables
  <2> QED
    BY <1>11, <2>1, <2>2, <2>3 DEF Typed, Tables
<1>13. created <= created' /\ key' \in BOOLEAN
  BY <1>3, <1>5, <1>11 DEF Typed
<1>14. Typed'
  BY <1>7, <1>10, <1>12, <1>13, TypedStep
<1> QED
  BY <1>2, <1>3, <1>4, <1>7, <1>8, <1>14

\* A subscription is cancelled.
LEMMA CancelSubscriptionMove ==
  ASSUME Typed, NEW c \in Caller, CancelSubscription(c), NEW q, q = call[c]
  PROVE  /\ Typed' /\ c \in Admin /\ q.kind = "cancel" /\ q.pc = "cancel"
         /\ q.sub \in live /\ live' = live \ {q.sub}
         /\ \E r : Becomes(c, r) /\
              Is(r, "list", "cancel", q.w, q.status, q.sub, NoSub, q.todo, q.name, q.closed)
<1>1. CallOK(c, q) /\ q.pc = "cancel"
  BY DEF Typed, CancelSubscription, At
<1>2. c \in Admin /\ q.kind = "cancel" /\ q.rec = NoSub /\ DOMAIN q.todo = {}
      /\ Fields \subseteq DOMAIN q
  BY <1>1, AdminPlaces
<1>3. q.sub \in live /\ live' = live \ {q.sub}
  BY DEF CancelSubscription
<1>6. PICK r : r = [q EXCEPT !.pc = "list"]
  OBVIOUS
<1>7. Becomes(c, r)
  BY <1>6 DEF CancelSubscription, Goto, Becomes
<1>8. Is(r, "list", "cancel", q.w, q.status, q.sub, NoSub, q.todo, q.name, q.closed)
  BY <1>2, <1>6, PlaceOnly
<1>10. CallOK(c, r)
  BY <1>1, <1>2, <1>8
     DEF Is, CallOK, KindOK, Switching, Loop, Billable, Ordering, Ending
<1>11. UNCHANGED <<instance, calls, faults, created, usage, org, user, key, trigger,
                  ruleName, unsaved, active, rules, targets, deployed, billed, wasted,
                  late, opened>>
  BY DEF CancelSubscription, accounts, gates, history
<1>12. Tables'
  <2>1. call' = [d \in Caller |-> call'[d]]
    BY <1>7 DEF Typed, Tables, Becomes
  <2>2. live' \subseteq 1..created'
    BY <1>3, <1>11 DEF Typed, Tables
  <2> QED
    BY <1>11, <2>1, <2>2 DEF Typed, Tables
<1> QED
  BY <1>1, <1>2, <1>3, <1>7, <1>8, <1>10, <1>11, <1>12, TypedMove DEF Typed

\* The subscription is saved with the user.
LEMMA SaveUserMove ==
  ASSUME Typed, NEW c \in Caller, SaveUser(c), NEW q, q = call[c]
  PROVE  /\ Typed' /\ c \in Admin /\ q.kind \in {"create", "cancel"} /\ q.pc = "saveUser"
         /\ \A a \in Admin : user'[a].sub =
              IF a = c THEN IF q.kind = "create" THEN q.sub ELSE NoSub ELSE user[a].sub
         /\ \E r : Becomes(c, r) /\
              Is(r, "saveOrganization", q.kind, q.w, q.status, q.sub, NoSub, q.todo, q.name,
                 q.closed)
<1>1. CallOK(c, q) /\ q.pc = "saveUser"
  BY DEF Typed, SaveUser, At
<1>2. c \in Admin /\ q.kind \in {"create", "cancel"} /\ q.rec = NoSub /\ DOMAIN q.todo = {}
      /\ Fields \subseteq DOMAIN q
  BY <1>1, AdminPlaces
<1>3. PICK s : s = IF q.kind = "create" THEN q.sub ELSE NoSub
  OBVIOUS
<1>4. user' = [user EXCEPT ![c] = [sub |-> s, customer |-> TRUE]]
  BY <1>3 DEF SaveUser
<1>5. s \in 0..created
  BY <1>1, <1>3, BillingAssumption DEF CallOK, NoSub, Typed, Tables, BillingAssumption
<1>6. /\ user' = [a \in Admin |-> user'[a]]
      /\ \A a \in Admin : user'[a].sub = IF a = c THEN s ELSE user[a].sub
  BY <1>2, <1>4 DEF Typed, Tables
<1>7. PICK r : r = [q EXCEPT !.pc = "saveOrganization"]
  OBVIOUS
<1>8. Becomes(c, r)
  BY <1>7 DEF SaveUser, Goto, Becomes
<1>9. Is(r, "saveOrganization", q.kind, q.w, q.status, q.sub, NoSub, q.todo, q.name, q.closed)
  BY <1>2, <1>7, PlaceOnly
<1>10. CallOK(c, r)
  BY <1>1, <1>2, <1>9
     DEF Is, CallOK, KindOK, Switching, Loop, Billable, Ordering, Ending
<1>11. UNCHANGED <<instance, calls, faults, live, created, usage, org, key, trigger,
                  ruleName, unsaved, active, rules, targets, deployed, billed, wasted,
                  late, opened>>
  BY DEF SaveUser, stripe, gates, history
<1>12. Tables'
  <2>1. call' = [d \in Caller |-> call'[d]]
    BY <1>8 DEF Typed, Tables, Becomes
  <2>2. \A a \in Admin : user'[a].sub \in 0..created
    BY <1>5, <1>6 DEF Typed, Tables
  <2> QED
    BY <1>6, <1>11, <2>1, <2>2 DEF Typed, Tables
<1>13. Typed'
  BY <1>8, <1>10, <1>11, <1>12, TypedMove DEF Typed
<1> QED
  BY <1>1, <1>2, <1>3, <1>6, <1>8, <1>9, <1>13

\* The subscription is saved with the organization.
LEMMA SaveOrganizationMove ==
  ASSUME Typed, NEW c \in Caller, SaveOrganization(c), NEW q, q = call[c]
  PROVE  /\ Typed' /\ c \in Admin /\ q.kind \in {"create", "cancel"}
         /\ q.pc = "saveOrganization" /\ q.rec = NoSub
         /\ Becomes(c, Idle)
<1>1. CallOK(c, q) /\ q.pc = "saveOrganization"
  BY DEF Typed, SaveOrganization, At
<1>2. c \in Admin /\ q.kind \in {"create", "cancel"} /\ q.rec = NoSub
  BY <1>1, AdminPlaces
<1>3. org' = (IF q.kind = "create" THEN q.sub ELSE NoSub)
  BY DEF SaveOrganization
<1>4. org' \in 0..created
  BY <1>1, <1>3, BillingAssumption DEF CallOK, NoSub, Typed, Tables, BillingAssumption
<1>5. Becomes(c, Idle)
  BY DEF SaveOrganization, Finish, Becomes
<1>6. UNCHANGED <<instance, calls, faults, live, created, usage, user, key, trigger,
                  ruleName, unsaved, active, rules, targets, deployed, billed, wasted,
                  late, opened>>
  BY DEF SaveOrganization, stripe, gates
<1>7. Tables'
  <2>1. call' = [d \in Caller |-> call'[d]]
    BY <1>5 DEF Typed, Tables, Becomes
  <2> QED
    BY <1>4, <1>6, <2>1 DEF Typed, Tables
<1>8. Typed'
  BY <1>5, <1>6, <1>7, IdleOK, TypedMove DEF Typed
<1> QED
  BY <1>1, <1>2, <1>5, <1>8

\* The rule a deployment is at.
LEMMA AtRule ==
  ASSUME Typed, NEW c, NEW q, CallOK(c, q), q.pc \in {"rules", "targets"}
  PROVE  /\ q.kind = "deploy" /\ q.rec = NoSub /\ q.w \in Workflow
         /\ Current(q.todo).name \in RulesOf(q.w) /\ Fields \subseteq DOMAIN q
<1>1. q.kind = "deploy" /\ q.rec = NoSub /\ q.w \in Workflow /\ Fields \subseteq DOMAIN q
  BY DEF CallOK, KindOK, Loop, Billable, Ordering, Ending
<1>2. TodoOK(q.todo) /\ DOMAIN q.todo # {}
  BY DEF CallOK, Switching
<1>3. PICK i \in DOMAIN q.todo : Current(q.todo) = q.todo[i]
  BY <1>2, RestOfTodo
<1> QED
  BY <1>1, <1>2, <1>3 DEF CallOK, TodoOK

\* A deployment puts a rule.
LEMMA PutRuleMove ==
  ASSUME Typed, NEW c \in Caller, PutRule(c), NEW q, q = call[c]
  PROVE  /\ Typed' /\ q.w \in Workflow /\ Current(q.todo).name \in RulesOf(q.w)
         /\ \E r : Becomes(c, r) /\ r.kind = "deploy" /\ r.pc = "targets"
                  /\ r.rec = NoSub /\ r.w = q.w
<1> DEFINE n == Current(q.todo).name
<1>1. CallOK(c, q) /\ q.pc = "rules"
  BY DEF Typed, PutRule, At
<1>2. q.kind = "deploy" /\ q.rec = NoSub /\ q.w \in Workflow /\ n \in RulesOf(q.w)
      /\ Fields \subseteq DOMAIN q
  BY <1>1, AtRule
<1>3. n \in Rule
  BY <1>2 DEF Rule
<1>4. PICK r : r = [q EXCEPT !.pc = "targets"]
  OBVIOUS
<1>5. Becomes(c, r)
  BY <1>4 DEF PutRule, Goto, Becomes
<1>6. Is(r, "targets", q.kind, q.w, q.status, q.sub, q.rec, q.todo, q.name, q.closed)
  BY <1>2, <1>4, PlaceOnly
<1>7. CallOK(c, r)
  BY <1>1, <1>2, <1>6
     DEF Is, CallOK, KindOK, Switching, Loop, Billable, Ordering, Ending
<1>8. rules' = [rules EXCEPT ![n] = "enabled"]
      /\ unsaved' = [unsaved EXCEPT ![q.w] = unsaved[q.w] \union {n}]
  BY DEF PutRule
<1>9. UNCHANGED <<instance, calls, faults, live, created, usage, org, user, key, trigger,
                  ruleName, active, targets, deployed, billed, wasted, late, opened>>
  BY DEF PutRule, stripe, accounts
<1> HIDE DEF n
<1>10. rules' \in [Rule -> {"absent", "enabled", "disabled"}]
  BY <1>3, <1>8 DEF Typed, Tables
<1>11. /\ unsaved' = [w \in Workflow |-> unsaved'[w]]
       /\ \A w \in Workflow : unsaved'[w] \subseteq RulesOf(w)
  BY <1>2, <1>8 DEF Typed, Tables
<1>12. Tables'
  <2>1. call' = [d \in Caller |-> call'[d]]
    BY <1>5 DEF Typed, Tables, Becomes
  <2>2. \A w \in Workflow : NamesOf(w)' = NamesOf(w)
    BY DEF NamesOf
  <2> QED
    BY <1>9, <1>10, <1>11, <2>1, <2>2 DEF Typed, Tables
<1>13. Typed'
  BY <1>5, <1>7, <1>9, <1>12, TypedMove DEF Typed
<1> QED
  BY <1>2, <1>5, <1>6, <1>13 DEF Is, n

\* A deployment puts a rule's target.
LEMMA PutTargetsMove ==
  ASSUME Typed, NEW c \in Caller, PutTargets(c), NEW q, q = call[c]
  PROVE  /\ Typed' /\ q.rec = NoSub /\ q.kind = "deploy"
         /\ \E r : Becomes(c, r) /\ r.rec = NoSub
                  /\ \/ r = Idle
                     \/ r.kind = "deploy" /\ r.pc = "rules"
<1>1. CallOK(c, q) /\ q.pc = "targets"
  BY DEF Typed, PutTargets, At
<1>2. q.kind = "deploy" /\ q.rec = NoSub
  BY <1>1, AtRule
<1>3. Becomes(c, NextRule(q))
  BY DEF PutTargets, Becomes
<1>4. /\ CallOK(c, NextRule(q)) /\ NextRule(q).rec = NoSub
      /\ \/ NextRule(q) = Idle
         \/ NextRule(q).kind = "deploy" /\ NextRule(q).pc = "rules"
  BY <1>1, RuleDone
<1>5. targets' \subseteq Rule
  BY DEF PutTargets, Typed, Tables
<1>6. UNCHANGED <<instance, calls, faults, live, created, usage, org, user, key, trigger,
                  ruleName, unsaved, active, rules, deployed, billed, wasted, late, opened>>
  BY DEF PutTargets, stripe, accounts, history
<1>7. Tables'
  <2>1. call' = [d \in Caller |-> call'[d]]
    BY <1>3 DEF Typed, Tables, Becomes
  <2> QED
    BY <1>5, <1>6, <2>1 DEF Typed, Tables
<1>8. Typed'
  BY <1>3, <1>4, <1>6, <1>7, TypedMove DEF Typed
<1> QED
  BY <1>2, <1>3, <1>4, <1>8

\* A deletion removes the rule it has read.
LEMMA DeleteRuleMove ==
  ASSUME Typed, NEW c \in Caller, DeleteRule(c), NEW q, q = call[c]
  PROVE  /\ Typed' /\ q.kind = "delete" /\ q.rec = NoSub /\ q.w \in Workflow
         /\ q.name \in NamesOf(q.w)
         /\ \E r : Becomes(c, r) /\
              Is(r, "deleted", q.kind, q.w, q.status, q.sub, q.rec, q.todo, q.name, q.closed)
<1>1. CallOK(c, q) /\ q.pc = "gone"
  BY DEF Typed, DeleteRule, At
<1>2. q.kind = "delete" /\ q.rec = NoSub /\ q.w \in Workflow /\ Fields \subseteq DOMAIN q
      /\ q.name \in NamesOf(q.w)
  BY <1>1 DEF CallOK, KindOK, Loop, Billable, Ordering, Ending
<1>3. PICK r : r = [q EXCEPT !.pc = "deleted"]
  OBVIOUS
<1>4. Becomes(c, r)
  BY <1>3 DEF DeleteRule, Goto, Becomes
<1>5. Is(r, "deleted", q.kind, q.w, q.status, q.sub, q.rec, q.todo, q.name, q.closed)
  BY <1>2, <1>3, PlaceOnly
<1>6. CallOK(c, r)
  BY <1>1, <1>2, <1>5
     DEF Is, CallOK, KindOK, Switching, Loop, Billable, Ordering, Ending
<1>7. rules' = [n \in Rule |-> IF n = q.name THEN "absent" ELSE rules[n]]
      /\ targets' = targets \ {q.name}
  BY DEF DeleteRule
<1>8. rules' \in [Rule -> {"absent", "enabled", "disabled"}] /\ targets' \subseteq Rule
  BY <1>7 DEF Typed, Tables
<1>9. UNCHANGED <<instance, calls, faults, live, created, usage, org, user, key, trigger,
                  ruleName, unsaved, active, deployed, billed, wasted, late, opened>>
  BY DEF DeleteRule, stripe, accounts
<1>10. Tables'
  <2>1. call' = [d \in Caller |-> call'[d]]
    BY <1>4 DEF Typed, Tables, Becomes
  <2> QED
    BY <1>8, <1>9, <2>1 DEF Typed, Tables
<1>11. Typed'
  BY <1>4, <1>6, <1>9, <1>10, TypedMove DEF Typed
<1> QED
  BY <1>2, <1>4, <1>5, <1>11

\* A deletion removes the workflow.
LEMMA SaveDeletedMove ==
  ASSUME Typed, NEW c \in Caller, SaveDeleted(c), NEW q, q = call[c]
  PROVE  /\ Typed' /\ q.kind = "delete" /\ q.rec = NoSub /\ q.w \in Workflow
         /\ Becomes(c, Idle)
         /\ \A w \in Workflow \ {q.w} : ruleName'[w] = ruleName[w]
<1>1. CallOK(c, q) /\ q.pc = "deleted"
  BY DEF Typed, SaveDeleted, At
<1>2. q.kind = "delete" /\ q.rec = NoSub /\ q.w \in Workflow
      /\ q.name \in NamesOf(q.w)
  BY <1>1 DEF CallOK, KindOK, Loop, Billable, Ordering, Ending
<1>3. Becomes(c, Idle)
  BY DEF SaveDeleted, Finish, Becomes
<1>4. PICK n : n = IF q.name = NoRule THEN ruleName[q.w] ELSE q.name
  OBVIOUS
<1>5. ruleName' = [ruleName EXCEPT ![q.w] = n] /\ active' = active \ {q.w}
  BY <1>4 DEF SaveDeleted
<1>6. n \in NamesOf(q.w)
  BY <1>2, <1>4 DEF Typed, Tables
<1>7. UNCHANGED <<instance, calls, faults, live, created, usage, org, user, key, trigger,
                  unsaved, rules, targets, deployed, billed, wasted, late, opened>>
  BY DEF SaveDeleted, stripe, accounts, history
<1>8. /\ ruleName' = [w \in Workflow |-> ruleName'[w]]
      /\ \A w \in Workflow : ruleName'[w] \in NamesOf(w)
      /\ \A w \in Workflow \ {q.w} : ruleName'[w] = ruleName[w]
  BY <1>2, <1>5, <1>6 DEF Typed, Tables
<1>9. Tables'
  <2>1. call' = [d \in Caller |-> call'[d]]
    BY <1>3 DEF Typed, Tables, Becomes
  <2>2. \A w \in Workflow : NamesOf(w)' = NamesOf(w)
    BY DEF NamesOf
  <2> QED
    BY <1>5, <1>7, <1>8, <2>1, <2>2 DEF Typed, Tables
<1>10. Typed'
  BY <1>3, <1>7, <1>9, IdleOK, TypedMove DEF Typed
<1> QED
  BY <1>2, <1>3, <1>8, <1>10

\* The rule's name is saved with the workflow.
LEMMA SaveRuleNameMove ==
  ASSUME Typed, NEW w \in Workflow, SaveRuleName(w)
  PROVE  Typed'
<1>1. PICK n \in unsaved[w] : /\ ruleName' = [ruleName EXCEPT ![w] = n]
                              /\ unsaved' = [unsaved EXCEPT ![w] = unsaved[w] \ {n}]
  BY DEF SaveRuleName
<1>2. n \in NamesOf(w) /\ n \in RulesOf(w)
  BY DEF NamesOf, Typed, Tables
<1>3. UNCHANGED <<instance, calls, faults, call, live, created, usage, org, user, key, trigger,
                  active, rules, targets, deployed, billed, wasted, late, opened>>
  BY DEF SaveRuleName, stripe, accounts, history
<1>4. /\ ruleName' = [v \in Workflow |-> ruleName'[v]]
      /\ unsaved' = [v \in Workflow |-> unsaved'[v]]
      /\ \A v \in Workflow : ruleName'[v] \in NamesOf(v) /\ unsaved'[v] \subseteq RulesOf(v)
  BY <1>1, <1>2 DEF Typed, Tables
<1>5. Tables'
  <2>2. \A v \in Workflow : NamesOf(v)' = NamesOf(v)
    BY DEF NamesOf
  <2> QED
    BY <1>3, <1>4, <2>2 DEF Typed, Tables
<1>6. \A c \in Caller : CallOK(c, call[c])'
  BY <1>3 DEF Typed, CallOK, KindOK
<1> QED
  BY <1>3, <1>5, <1>6 DEF Typed

-----------------------------------------------------------------------------
\* A fault uses one of the faults that are left.
LEMMA OneFault ==
  ASSUME Typed, faults > 0, faults' = faults - 1, UNCHANGED instance
  PROVE  faults' \in 0..instance.faults /\ faults' # instance'.faults
         /\ instance'.faults - faults' = (instance.faults - faults) + 1
         /\ faults \in Nat /\ instance.faults \in Nat
BY BillingAssumption DEF Typed, Tables, BillingAssumption

\* A call fails: it ends, or a timed one is handled again.
LEMMA ThrowMove ==
  ASSUME Typed, NEW c \in Caller, Throw(c), NEW q, q = call[c]
  PROVE  /\ Typed' /\ CallOK(c, q)
         /\ \E r : /\ Becomes(c, r) /\ r.rec = NoSub
                   /\ \/ r = Idle
                      \/ r.kind = "timed" /\ r.pc = "org" /\ q.kind = "timed"
<1>1. CallOK(c, q)
  BY DEF Typed
<1>2. PICK r : /\ Becomes(c, r)
               /\ \/ r = Idle
                  \/ q.kind = "timed" /\ r = [Idle EXCEPT !.pc = "org", !.kind = "timed", !.w = q.w]
  BY DEF Throw, Finish, Becomes
<1>3. CallOK(c, r) /\ r.rec = NoSub
      /\ (r = Idle \/ (r.kind = "timed" /\ r.pc = "org" /\ q.kind = "timed"))
  <2>1. CASE r = Idle
    BY <2>1, IdleOK, IdleShape DEF Typed, Is
  <2>2. CASE q.kind = "timed" /\ r = [Idle EXCEPT !.pc = "org", !.kind = "timed", !.w = q.w]
    <3>1. Is(r, "org", "timed", q.w, "none", NoSub, NoSub, << >>, NoRule, FALSE)
      BY <2>2 DEF Idle, Is, Fields
    <3>2. q.w \in Workflow /\ c \in Consumer
      BY <1>1, <2>2 DEF CallOK, KindOK
    <3> QED
      BY <2>2, <3>1, <3>2, NothingLeft
         DEF Is, CallOK, KindOK, Typed, Tables, Switching, NoSub, Loop, Billable, Ordering,
             Ending
  <2> QED
    BY <1>2, <2>1, <2>2
<1>4. wasted' \in [SubId -> Nat]
  BY DEF Throw, Waste, Typed, Tables
<1>5. faults' \in 0..instance.faults
  BY OneFault DEF Throw
<1>6. UNCHANGED <<instance, calls, live, created, usage, org, user, key, trigger, ruleName,
                  unsaved, active, rules, targets, deployed, billed, late, opened>>
  BY DEF Throw, stripe, accounts, gates
<1>7. Tables'
  <2>1. call' = [d \in Caller |-> call'[d]]
    BY <1>2 DEF Typed, Tables, Becomes
  <2> QED
    BY <1>4, <1>5, <1>6, <2>1 DEF Typed, Tables
<1>8. Typed'
  BY <1>2, <1>3, <1>6, <1>7, TypedMove DEF Typed
<1> QED
  BY <1>1, <1>2, <1>3, <1>8

\* Where a call goes on after an error is swallowed.
SwallowPlace(q, r) ==
  \/ \E p : /\ Is(r, p, q.kind, q.w, q.status, q.sub, q.rec, q.todo, q.name, q.closed)
            /\ \/ q.pc = "rule" /\ p = "get"
               \/ q.pc = "key" /\ p = IF q.kind \in {"http", "timed"} THEN "run" ELSE "saveUser"
               \/ q.pc = "rules" /\ p = "targets"
               \/ q.pc = "gone" /\ p = "deleted"
  \/ q.pc \in {"get", "save", "switch"} /\ r = NextWorkflow(q)
  \/ q.pc = "targets" /\ r = NextRule(q)

\* An error that is swallowed: the call goes on without what failed.
LEMMA SwallowMove ==
  ASSUME Typed, NEW c \in Caller, Swallow(c), NEW q, q = call[c]
  PROVE  /\ Typed' /\ CallOK(c, q)
         /\ \E r : Becomes(c, r) /\ SwallowPlace(q, r)
<1>1. CallOK(c, q) /\ Fields \subseteq DOMAIN q
  BY DEF Typed, CallOK
<1>2. PICK r : Becomes(c, r) /\ SwallowPlace(q, r)
  <2> DEFINE To(p) == [q EXCEPT !.pc = p]
  <2>1. \A p : Is(To(p), p, q.kind, q.w, q.status, q.sub, q.rec, q.todo, q.name, q.closed)
    BY <1>1, PlaceOnly
  <2>2. CASE q.pc = "rule" /\ Goto(c, "get")
    BY <2>1, <2>2 DEF Goto, SwallowPlace, Becomes
  <2>3. CASE q.pc \in {"get", "save", "switch"} /\ Becomes(c, NextWorkflow(q))
    BY <2>3 DEF SwallowPlace
  <2>4. CASE q.pc = "key" /\ Goto(c, IF q.kind \in {"http", "timed"} THEN "run" ELSE "saveUser")
    BY <2>1, <2>4 DEF Goto, SwallowPlace, Becomes
  <2>5. CASE q.pc = "rules" /\ Goto(c, "targets")
    BY <2>1, <2>5 DEF Goto, SwallowPlace, Becomes
  <2>6. CASE q.pc = "targets" /\ Becomes(c, NextRule(q))
    BY <2>6 DEF SwallowPlace
  <2>7. CASE q.pc = "gone" /\ Goto(c, "deleted")
    BY <2>1, <2>7 DEF Goto, SwallowPlace, Becomes
  <2> QED
    BY <2>2, <2>3, <2>4, <2>5, <2>6, <2>7 DEF Swallow, Becomes
<1>3. CallOK(c, r)
  <2>1. CASE q.pc \in {"get", "save", "switch"} /\ r = NextWorkflow(q)
    BY <1>1, <2>1, WorkflowDone
  <2>2. CASE q.pc = "targets" /\ r = NextRule(q)
    BY <1>1, <2>2, RuleDone
  <2>3. ASSUME NEW p, Is(r, p, q.kind, q.w, q.status, q.sub, q.rec, q.todo, q.name, q.closed),
               \/ q.pc = "rule" /\ p = "get"
               \/ q.pc = "key" /\ p = IF q.kind \in {"http", "timed"} THEN "run" ELSE "saveUser"
               \/ q.pc = "rules" /\ p = "targets"
               \/ q.pc = "gone" /\ p = "deleted"
        PROVE  CallOK(c, r)
    BY <1>1, <2>3
       DEF Is, CallOK, KindOK, Switching, NoSub, Loop, Billable, Ordering, Ending
  <2> QED
    BY <1>2, <2>1, <2>2, <2>3 DEF SwallowPlace
<1>4. faults' \in 0..instance.faults
  BY OneFault DEF Swallow
<1>5. /\ unsaved' = [w \in Workflow |-> unsaved'[w]]
      /\ \A w \in Workflow : unsaved'[w] \subseteq RulesOf(w)
  <2>1. CASE UNCHANGED unsaved
    BY <2>1 DEF Typed, Tables
  <2>2. CASE /\ q.pc = "rules"
             /\ unsaved' = [unsaved EXCEPT ![q.w] = unsaved[q.w] \union {Current(q.todo).name}]
    <3>1. q.w \in Workflow /\ Current(q.todo).name \in RulesOf(q.w)
      BY <1>1, <2>2, AtRule
    <3> QED
      BY <2>2, <3>1 DEF Typed, Tables
  <2> QED
    BY <2>1, <2>2 DEF Swallow
<1>6. UNCHANGED <<instance, calls, live, created, usage, org, user, key, trigger, ruleName,
                  active, rules, targets, deployed, billed, wasted, late, opened>>
  BY DEF Swallow, stripe, accounts, history
<1>7. Tables'
  <2>1. call' = [d \in Caller |-> call'[d]]
    BY <1>2 DEF Typed, Tables, Becomes
  <2>2. \A w \in Workflow : NamesOf(w)' = NamesOf(w)
    BY DEF NamesOf
  <2> QED
    BY <1>4, <1>5, <1>6, <2>1, <2>2 DEF Typed, Tables
<1>8. Typed'
  BY <1>2, <1>3, <1>6, <1>7, TypedMove DEF Typed
<1> QED
  BY <1>1, <1>2, <1>8

\* The initial states are typed.
LEMMA TypedStart == Init => Typed
<1> SUFFICES ASSUME Init PROVE Typed
  OBVIOUS
<1>1. /\ instance \in Instances
      /\ instance.calls \in [Caller -> Nat] /\ instance.faults \in Nat
  BY BillingAssumption DEF Init, BillingAssumption
<1>2. /\ instance \in Instances
      /\ calls \in [Caller -> Nat] /\ faults \in 0..instance.faults
      /\ call = [c \in Caller |-> call[c]]
  BY <1>1 DEF Init
<1>3. live \subseteq 1..created /\ created \in 0..MaxSub /\ org \in 0..created
  BY BillingAssumption DEF Init, BillingAssumption, NoSub
<1>4. usage \in [SubId -> Nat] /\ billed \in [SubId -> Nat] /\ wasted \in [SubId -> Nat]
  BY DEF Init
<1>5. user = [a \in Admin |-> user[a]] /\ \A a \in Admin : user[a].sub \in 0..created
  BY <1>3 DEF Init, NoSub
<1>6. /\ trigger \in [Workflow -> {"enabled", "disabled"}]
      /\ ruleName = [w \in Workflow |-> ruleName[w]]
      /\ unsaved = [w \in Workflow |-> unsaved[w]]
      /\ \A w \in Workflow : ruleName[w] \in NamesOf(w) /\ unsaved[w] \subseteq RulesOf(w)
      /\ active \subseteq Workflow
  BY DEF Init, NamesOf
<1>7. /\ rules \in [Rule -> {"absent", "enabled", "disabled"}] /\ targets \subseteq Rule
      /\ deployed \in [Workflow -> Nat] /\ late \in [Http -> Nat] /\ opened \in Nat
      /\ key \in BOOLEAN
  BY DEF Init
<1>8. Tables
  BY <1>2, <1>3, <1>4, <1>5, <1>6, <1>7 DEF Tables
<1>9. \A c \in Caller : call[c] = Idle
  BY DEF Init
<1> QED
  BY <1>7, <1>8, <1>9, IdleOK DEF Typed

\* A stuttering step keeps the types.
LEMMA TypedSame == Typed /\ UNCHANGED vars => Typed'
<1> SUFFICES ASSUME Typed, UNCHANGED vars PROVE Typed'
  OBVIOUS
<1>1. UNCHANGED <<instance, calls, faults, call, live, created, usage, org, user, key,
        trigger, ruleName, unsaved, active, deployed, rules, targets, billed, wasted, late,
        opened>>
  BY DEF vars, stripe, accounts, gates, history
<1>2. \A w \in Workflow : NamesOf(w)' = NamesOf(w)
  BY DEF NamesOf
<1>3. Tables'
  BY <1>1, <1>2 DEF Typed, Tables
<1>4. \A c \in Caller : CallOK(c, call[c])'
  BY <1>1 DEF Typed, CallOK, KindOK
<1> QED
  BY <1>1, <1>3, <1>4 DEF Typed

\* Every step keeps the types.
LEMMA TypedNext == Typed /\ [Next]_vars => Typed'
<1> SUFFICES ASSUME Typed, Next PROVE Typed'
  BY TypedSame
<1>1. ASSUME NEW w \in Workflow, SaveRuleName(w) PROVE Typed'
  BY <1>1, SaveRuleNameMove
<1>2. ASSUME NEW c \in Caller, Step(c) PROVE Typed'
  <2>1. CASE Trigger(c) BY <2>1, TriggerMove
  <2>2. CASE TimedTrigger(c) BY <2>2, TimedMove
  <2>3. CASE GetOrganization(c) BY <2>3, GetOrganizationMove
  <2>4. CASE CreateUsageRecord(c) BY <2>4, CreateUsageRecordMove
  <2>5. CASE CheckLimit(c) BY <2>5, CheckLimitMove
  <2>6. CASE Refuse(c) BY <2>6, RefuseMove
  <2>7. CASE Run(c) BY <2>7, RunMove
  <2>8. CASE List(c) BY <2>8, ListMove
  <2>9. CASE SwitchListed(c) BY <2>9, SwitchListedMove
  <2>10. CASE GetWorkflow(c) BY <2>10, GetWorkflowMove
  <2>11. CASE SaveTriggerStatus(c) BY <2>11, SaveTriggerStatusMove
  <2>12. CASE SwitchRule(c) BY <2>12, SwitchRuleMove
  <2>13. CASE SwitchKey(c) BY <2>13, SwitchKeyMove
  <2>14. CASE Toggle(c) BY <2>14, ToggleMove
  <2>15. CASE Subscribe(c) \/ Cancel(c) BY <2>15, AdminMove
  <2>16. CASE CreateSubscription(c) BY <2>16, CreateSubscriptionMove
  <2>17. CASE CancelSubscription(c) BY <2>17, CancelSubscriptionMove
  <2>18. CASE SaveUser(c) BY <2>18, SaveUserMove
  <2>19. CASE SaveOrganization(c) BY <2>19, SaveOrganizationMove
  <2>20. CASE Deploy(c) BY <2>20, DeployMove
  <2>21. CASE PutRule(c) BY <2>21, PutRuleMove
  <2>22. CASE PutTargets(c) BY <2>22, PutTargetsMove
  <2>23. CASE Delete(c) BY <2>23, DeleteMove
  <2>24. CASE DeleteRule(c) BY <2>24, DeleteRuleMove
  <2>25. CASE SaveDeleted(c) BY <2>25, SaveDeletedMove
  <2>26. CASE Reject(c) BY <2>26, RejectMove
  <2>27. CASE Throw(c) BY <2>27, ThrowMove
  <2>28. CASE Swallow(c) BY <2>28, SwallowMove
  <2> QED
    BY <1>2, <2>1, <2>2, <2>3, <2>4, <2>5, <2>6, <2>7, <2>8, <2>9, <2>10, <2>11, <2>12, <2>13,
       <2>14, <2>15, <2>16, <2>17, <2>18, <2>19, <2>20, <2>21, <2>22, <2>23, <2>24, <2>25,
       <2>26, <2>27, <2>28 DEF Step
<1> QED
  BY <1>1, <1>2 DEF Next

\* The state is well formed: a subscription a call, a user or the organization
\* holds was created, a rule name is one of its workflow, and a loop is at one of
\* its places exactly while it has workflows left.
THEOREM TypeCorrect == Spec => []TypeOK
<1>1. Typed => TypeOK
  <2> SUFFICES ASSUME Typed PROVE TypeOK
    OBVIOUS
  <2>1. ruleName \in [Workflow -> Rule \union {NoRule}] /\ unsaved \in [Workflow -> SUBSET Rule]
    BY DEF Typed, Tables, NamesOf, Rule
  <2>2. \A c \in Caller : DOMAIN call[c].todo # {} <=> call[c].pc \in Switching
    BY DEF Typed, CallOK
  <2> QED
    BY <2>1, <2>2 DEF Typed, Tables, TypeOK
<1> QED
  BY <1>1, TypedStart, TypedNext, PTL DEF Spec

-----------------------------------------------------------------------------
\* The calls that carry a usage record of s.
Load(s) == Cardinality({c \in Caller : call[c].rec = s})

\* How many calls carry a record, before and after a call moves.
LEMMA LoadMove ==
  ASSUME Typed, NEW c \in Caller, NEW r, Becomes(c, r),
         NEW s, NEW q, q = call[c].rec
  PROVE  /\ Load(s) \in Nat /\ Load(s)' \in Nat
         /\ Load(s)' + (IF q = s THEN 1 ELSE 0) = Load(s) + (IF r.rec = s THEN 1 ELSE 0)
<1> DEFINE S == {d \in Caller : call[d].rec = s}
           T == {d \in Caller : call'[d].rec = s}
           R == S \ {c}
<1>1. \A d \in Caller : call'[d] = IF d = c THEN r ELSE call[d]
  BY DEF Typed, Tables, Becomes
<1>2. IsFiniteSet(Caller)
  BY BillingAssumption DEF BillingAssumption
<1>3. S \subseteq Caller /\ T \subseteq Caller /\ R \subseteq Caller /\ c \notin R
  OBVIOUS
<1>4. IsFiniteSet(S) /\ IsFiniteSet(T) /\ IsFiniteSet(R)
  BY <1>2, <1>3, FS_Subset
<1>5. S = (IF q = s THEN R \union {c} ELSE R) /\ T = (IF r.rec = s THEN R \union {c} ELSE R)
  BY <1>1
<1>6. Load(s) = Cardinality(S) /\ Load(s)' = Cardinality(T)
  BY DEF Load
<1> HIDE DEF S, T, R
<1>7. Cardinality(R) \in Nat /\ Cardinality(R \union {c}) = Cardinality(R) + 1
  BY <1>3, <1>4, FS_CardinalityType, FS_AddElement
<1> QED
  BY <1>5, <1>6, <1>7

\* Records are accounted for when the tables and a call's record stay.
LEMMA AccountedSame ==
  ASSUME Typed, UsageAccounted, NEW c \in Caller, NEW r, Becomes(c, r),
         r.rec = call[c].rec, UNCHANGED <<usage, billed, wasted>>
  PROVE  UsageAccounted'
<1> SUFFICES ASSUME NEW s \in SubId PROVE usage'[s] = billed'[s] + wasted'[s] + Load(s)'
  BY DEF UsageAccounted, Load
<1>1. usage[s] = billed[s] + wasted[s] + Load(s)
  BY DEF UsageAccounted, Load
<1>2. PICK q : q = call[c].rec
  OBVIOUS
<1>3. /\ Load(s) \in Nat /\ Load(s)' \in Nat
      /\ Load(s)' + (IF q = s THEN 1 ELSE 0) = Load(s) + (IF r.rec = s THEN 1 ELSE 0)
  BY <1>2, LoadMove, Zenon
<1>4. Load(s)' = Load(s)
  BY <1>2, <1>3
<1> QED
  BY <1>1, <1>4

\* A call that ends, or starts again, leaves the record it carried.
LEMMA AccountedDropped ==
  ASSUME Typed, UsageAccounted, NEW c \in Caller, NEW r, Becomes(c, r),
         r.rec = NoSub, UNCHANGED usage, NEW q, q = call[c],
         \/ /\ billed' = [s \in DOMAIN billed |-> billed[s] + IF s = q.rec THEN 1 ELSE 0]
            /\ UNCHANGED wasted
         \/ /\ wasted' = [s \in DOMAIN wasted |-> wasted[s] + IF s = q.rec THEN 1 ELSE 0]
            /\ UNCHANGED billed
  PROVE  UsageAccounted'
<1> SUFFICES ASSUME NEW s \in SubId PROVE usage'[s] = billed'[s] + wasted'[s] + Load(s)'
  BY DEF UsageAccounted, Load
<1>1. usage[s] = billed[s] + wasted[s] + Load(s)
  BY DEF UsageAccounted, Load
<1>2. s # NoSub
  BY BillingAssumption DEF SubId, NoSub, BillingAssumption
<1>3. /\ Load(s) \in Nat /\ Load(s)' \in Nat
      /\ Load(s)' + (IF q.rec = s THEN 1 ELSE 0) = Load(s)
  <2>1. PICK p : p = call[c].rec
    OBVIOUS
  <2>2. /\ Load(s) \in Nat /\ Load(s)' \in Nat
        /\ Load(s)' + (IF p = s THEN 1 ELSE 0) = Load(s) + (IF r.rec = s THEN 1 ELSE 0)
    BY <2>1, LoadMove
  <2> QED
    BY <1>2, <2>1, <2>2
<1>4. DOMAIN billed = SubId /\ DOMAIN wasted = SubId /\ billed[s] \in Nat /\ wasted[s] \in Nat
  BY DEF Typed, Tables
<1>5. billed'[s] + wasted'[s] = billed[s] + wasted[s] + (IF q.rec = s THEN 1 ELSE 0)
  BY <1>4
<1>6. billed'[s] \in Nat /\ wasted'[s] \in Nat
  BY <1>4
<1> QED
  BY <1>1, <1>3, <1>4, <1>5, <1>6

\* A record that is created is carried by its call.
LEMMA AccountedCharged ==
  ASSUME Typed, UsageAccounted, NEW c \in Caller, CreateUsageRecord(c)
  PROVE  UsageAccounted'
<1> SUFFICES ASSUME NEW s \in SubId PROVE usage'[s] = billed'[s] + wasted'[s] + Load(s)'
  BY DEF UsageAccounted, Load
<1>1. usage[s] = billed[s] + wasted[s] + Load(s)
  BY DEF UsageAccounted, Load
<1>2. s # NoSub
  BY BillingAssumption DEF SubId, NoSub, BillingAssumption
<1>3. PICK q : q = call[c]
  OBVIOUS
<1>4. PICK r : Becomes(c, r) /\ r.rec = q.sub
  BY <1>3, CreateUsageRecordMove DEF Is
<1>5. q.rec = NoSub
  BY <1>3 DEF CreateUsageRecord, At, Typed, CallOK
<1>6. Load(s) \in Nat /\ Load(s)' = Load(s) + (IF q.sub = s THEN 1 ELSE 0)
  <2>1. PICK p : p = call[c].rec
    OBVIOUS
  <2>2. /\ Load(s) \in Nat /\ Load(s)' \in Nat
        /\ Load(s)' + (IF p = s THEN 1 ELSE 0) = Load(s) + (IF r.rec = s THEN 1 ELSE 0)
    BY <1>4, <2>1, LoadMove, Zenon
  <2> QED
    BY <1>2, <1>3, <1>4, <1>5, <2>1, <2>2
<1>7. /\ usage' = [usage EXCEPT ![q.sub] = usage[q.sub] + 1]
      /\ UNCHANGED <<billed, wasted>>
  BY <1>3 DEF CreateUsageRecord, history
<1>8. /\ DOMAIN usage = SubId /\ usage[s] \in Nat /\ billed[s] \in Nat /\ wasted[s] \in Nat
  BY DEF Typed, Tables
<1>9. usage'[s] = usage[s] + (IF q.sub = s THEN 1 ELSE 0)
  BY <1>7, <1>8
<1> QED
  BY <1>1, <1>6, <1>7, <1>8, <1>9

\* A call at rest carries no record.
LEMMA IdleCarriesNothing ==
  ASSUME Typed, NEW c \in Caller, call[c].pc = "idle"
  PROVE  call[c].rec = NoSub /\ Idle.rec = NoSub /\ call[c].kind = "none"
BY IdleShape DEF Typed, CallOK, KindOK, Billable, Ending, Loop, Is, Ordering

\* Every step keeps the records accounted for.
LEMMA AccountedNext == Typed /\ UsageAccounted /\ [Next]_vars => UsageAccounted'
<1> SUFFICES ASSUME Typed, UsageAccounted, [Next]_vars PROVE UsageAccounted'
  OBVIOUS
<1> DEFINE Books == <<usage, billed, wasted>>
<1> USE DEF stripe, history
<1>1. CASE UNCHANGED <<Books, call>>
  BY <1>1 DEF UsageAccounted
<1>2. ASSUME NEW w \in Workflow, SaveRuleName(w) PROVE UsageAccounted'
  BY <1>1, <1>2 DEF SaveRuleName
<1>3. ASSUME NEW c \in Caller, Step(c) PROVE UsageAccounted'
  <2>1. PICK q : q = call[c]
    OBVIOUS
  <2>2. CallOK(c, q) /\ Idle.rec = NoSub
    BY <2>1, IdleShape DEF Typed, Is
  <2>3. CASE Refuse(c) \/ Run(c)
    BY <2>1, <2>2, <2>3, AccountedDropped DEF Refuse, Run, Finish, Waste, Becomes
  <2>4. CASE Throw(c)
    <3>1. PICK r : Becomes(c, r) /\ r.rec = NoSub
      BY <2>1, <2>4, ThrowMove
    <3> QED
      BY <2>1, <2>4, <3>1, AccountedDropped DEF Throw, Waste
  <2>5. CASE CreateUsageRecord(c)
    BY <2>5, AccountedCharged
  <2> DEFINE Quiet == UNCHANGED Books /\
                      \E r : Becomes(c, r) /\ r.rec = call[c].rec
  <2>6. Quiet => UsageAccounted'
    BY AccountedSame
  <2>7. CASE Trigger(c)
    <3>0. PICK w, r : w \in Workflow /\ Becomes(c, r) /\
            Is(r, "org", "http", w, trigger[w], NoSub, NoSub, << >>, NoRule, FALSE)
      BY <2>7, TriggerMove
    <3>1. Becomes(c, r) /\ r.rec = call[c].rec
      BY <2>7, <3>0, TriggerMove, IdleCarriesNothing DEF Is
    <3> QED
      BY <2>6, <2>7, <3>1 DEF Trigger
  <2>8. CASE TimedTrigger(c)
    <3>0. PICK w, r : w \in Workflow /\ Becomes(c, r) /\
            Is(r, "org", "timed", w, "none", NoSub, NoSub, << >>, NoRule, FALSE)
      BY <2>8, TimedMove
    <3>1. Becomes(c, r) /\ r.rec = call[c].rec
      BY <2>8, <3>0, TimedMove, IdleCarriesNothing DEF Is
    <3> QED
      BY <2>6, <2>8, <3>1 DEF TimedTrigger
  <2>9. CASE Toggle(c)
    BY <2>6, <2>9, ToggleMove, IdleCarriesNothing DEF Toggle
  <2>10. CASE Subscribe(c) \/ Cancel(c)
    BY <2>6, <2>10, AdminMove, IdleCarriesNothing DEF Subscribe, Cancel
  <2>11. CASE Deploy(c)
    <3>1. \E r : Becomes(c, r) /\ r.rec = call[c].rec
      BY <2>11, DeployMove, IdleCarriesNothing DEF Is
    <3> QED
      BY <2>6, <2>11, <3>1 DEF Deploy
  <2>12. CASE Delete(c)
    BY <2>6, <2>12, DeleteMove, IdleCarriesNothing DEF Delete
  <2>13. CASE GetOrganization(c)
    <3>1. \E r : Becomes(c, r) /\ r.rec = call[c].rec
      BY <2>13, GetOrganizationMove, <2>1 DEF Is
    <3> QED
      BY <2>6, <2>13, <3>1 DEF GetOrganization
  <2>14. CASE CheckLimit(c)
    BY <2>1, <2>6, <2>14, CheckLimitMove DEF CheckLimit, Is
  <2>15. CASE List(c)
    <3>1. \E r : Becomes(c, r) /\ r.rec = call[c].rec
      BY <2>15, ListMove, <2>1 DEF Is
    <3> QED
      BY <2>6, <2>15, <3>1 DEF List
  <2>16. CASE SwitchListed(c)
    BY <2>1, <2>6, <2>16, SwitchListedMove DEF SwitchListed, Is
  <2>17. CASE GetWorkflow(c)
    <3>1. \E r : Becomes(c, r) /\ r.rec = call[c].rec
      BY <2>17, GetWorkflowMove, <2>1 DEF Is
    <3> QED
      BY <2>6, <2>17, <3>1 DEF GetWorkflow
  <2>18. CASE SaveTriggerStatus(c)
    <3>1. \E r : Becomes(c, r) /\ r.rec = call[c].rec
      BY <2>18, SaveTriggerStatusMove, <2>1 DEF Is
    <3> QED
      BY <2>6, <2>18, <3>1 DEF SaveTriggerStatus
  <2>19. ASSUME q.pc \in {"get", "save", "switch"} PROVE NextWorkflow(q).rec = q.rec
    <3>1. NextWorkflow(q) = Idle /\ q.kind \in {"open", "close"} => q.rec = NoSub
      BY <2>2 DEF CallOK
    <3> QED
      BY <2>2, <2>19, <3>1, WorkflowDone DEF Is
  <2>20. CASE SwitchRule(c)
    BY <2>1, <2>6, <2>19, <2>20 DEF SwitchRule, At, Becomes
  <2>21. CASE SwitchKey(c)
    BY <2>1, <2>6, <2>21, SwitchKeyMove DEF SwitchKey, Is
  <2>22. CASE CreateSubscription(c)
    <3>0. q.rec = NoSub
      BY <2>1, <2>2, <2>22, AdminPlaces DEF CreateSubscription, At
    <3>1. \E r : Becomes(c, r) /\ r.rec = call[c].rec
      BY <2>1, <2>22, <3>0, CreateSubscriptionMove DEF Is
    <3> QED
      BY <2>6, <2>22, <3>1 DEF CreateSubscription
  <2>23. CASE CancelSubscription(c)
    BY <2>1, <2>2, <2>6, <2>23, CancelSubscriptionMove, AdminPlaces DEF CancelSubscription, Is
  <2>24. CASE SaveUser(c)
    <3>1. \E r : Becomes(c, r) /\ r.rec = call[c].rec
      BY <2>24, SaveUserMove, AdminPlaces, <2>1, <2>2 DEF Is
    <3> QED
      BY <2>6, <2>24, <3>1 DEF SaveUser
  <2>25. CASE SaveOrganization(c)
    BY <2>1, <2>2, <2>6, <2>25, SaveOrganizationMove DEF SaveOrganization
  <2>26. CASE PutRule(c)
    <3>0. q.rec = NoSub
      BY <2>1, <2>2, <2>26, AtRule DEF PutRule, At
    <3>1. \E r : Becomes(c, r) /\ r.rec = call[c].rec
      BY <2>1, <2>26, <3>0, PutRuleMove DEF Is
    <3> QED
      BY <2>6, <2>26, <3>1 DEF PutRule
  <2>27. CASE PutTargets(c)
    BY <2>1, <2>6, <2>27, PutTargetsMove DEF PutTargets
  <2>28. CASE DeleteRule(c)
    BY <2>1, <2>6, <2>28, DeleteRuleMove DEF DeleteRule, Is
  <2>29. CASE SaveDeleted(c)
    BY <2>1, <2>2, <2>6, <2>29, SaveDeletedMove DEF SaveDeleted
  <2>30. CASE Reject(c)
    <3>1. q.rec = NoSub
      BY <2>1, <2>2, <2>30
         DEF Reject, At, CallOK, KindOK, Billable, Ending, Loop, Ordering
    <3> QED
      BY <2>1, <2>2, <2>6, <2>30, <3>1 DEF Reject, Finish, Becomes
  <2>31. CASE Swallow(c)
    <3>1. PICK r : Becomes(c, r) /\ SwallowPlace(q, r)
      BY <2>1, <2>31, SwallowMove
    <3>2. r.rec = q.rec
      <4>1. CASE q.pc = "targets" /\ r = NextRule(q)
        BY <2>2, <4>1, RuleDone, AtRule
      <4> QED
        BY <2>19, <3>1, <4>1 DEF SwallowPlace, Is
    <3> QED
      BY <2>1, <2>6, <2>31, <3>1, <3>2 DEF Swallow
  <2> HIDE DEF Quiet
  <2> QED
    BY <1>3, <2>3, <2>4, <2>5, <2>7, <2>8, <2>9, <2>10, <2>11, <2>12, <2>13,
       <2>14, <2>15, <2>16, <2>17, <2>18, <2>20, <2>21, <2>22, <2>23, <2>24, <2>25,
       <2>26, <2>27, <2>28, <2>29, <2>30, <2>31 DEF Step
<1>4. UNCHANGED vars => UNCHANGED <<Books, call>>
  BY DEF vars
<1> QED
  BY <1>1, <1>2, <1>3, <1>4 DEF Next

\* At the start there are no records.
LEMMA AccountedStart == Init => UsageAccounted
<1> SUFFICES ASSUME Init, NEW s \in SubId
             PROVE  usage[s] = billed[s] + wasted[s] + Load(s)
  BY DEF UsageAccounted, Load
<1>1. s # NoSub
  BY BillingAssumption DEF SubId, NoSub, BillingAssumption
<1>2. \A c \in Caller : call[c].rec = NoSub
  BY IdleShape DEF Init, Is
<1>3. {c \in Caller : call[c].rec = s} = {}
  BY <1>1, <1>2
<1>4. Load(s) = 0
  BY <1>3, FS_EmptySet DEF Load
<1> QED
  BY <1>4 DEF Init

\* Every usage record that Stripe charges for belongs to one execution, to a call
\* in flight, or to a call that was refused or failed after it was billed, however
\* many calls interleave and whatever awaits reject.
THEOREM RecordsAreAccounted == Spec => []UsageAccounted
<1>1. Init => Typed /\ UsageAccounted
  BY TypedStart, AccountedStart
<1>2. Typed /\ UsageAccounted /\ [Next]_vars => Typed' /\ UsageAccounted'
  BY TypedNext, AccountedNext
<1> QED
  BY <1>1, <1>2, PTL DEF Spec

-----------------------------------------------------------------------------
\* What a caller may still run is a number.
LEMMA AllowedTyped ==
  ASSUME Typed
  PROVE  Allowed \in Nat /\ \A h \in Http : late[h] \in Nat
<1>1. faults \in 0..instance.faults /\ instance.faults \in Nat /\ opened \in Nat
  BY BillingAssumption DEF Typed, Tables, BillingAssumption
<1>2. \A h \in Http : late[h] \in Nat
  BY DEF Typed, Tables
<1> QED
  BY <1>1, <1>2 DEF Allowed

\* A call that moves leaves what the other callers may run.
LEMMA OthersStay ==
  ASSUME Typed, NEW c \in Caller, NEW r, Becomes(c, r), NEW d \in Caller
  PROVE  call'[d] = IF d = c THEN r ELSE call[d]
BY DEF Typed, Tables, Becomes

\* A step that opens nothing and runs nothing.
LEMMA RunsQuiet ==
  ASSUME Typed, RunsLeft, NEW c \in Caller, NEW r, Becomes(c, r),
         UNCHANGED <<late, Allowed>>, active' \subseteq active,
         \A w \in active' : trigger[w] = "disabled" => trigger'[w] = "disabled",
         c \in Http /\ late[c] = Allowed => ~Passing(r)',
         c \in Http /\ late[c] + 1 = Allowed /\ r.closed /\ Passing(r)' => AllClosed(Left(r))'
  PROVE  RunsLeft'
<1> SUFFICES ASSUME NEW h \in Http
             PROVE  /\ late'[h] <= Allowed'
                    /\ late'[h] = Allowed' => AllClosed({})' /\ ~Passing(call[h])'
                    /\ late'[h] + 1 = Allowed' /\ call'[h].closed /\ Passing(call[h])' =>
                         AllClosed(Left(call[h]))'
  BY DEF RunsLeft
<1>1. PICK q : q = call'[h]
  OBVIOUS
<1>2. q = (IF h = c THEN r ELSE call[h]) /\ h \in Caller
  BY <1>1, OthersStay DEF Caller
<1>3. \A S : AllClosed(S) => AllClosed(S)'
  BY DEF AllClosed, FirstActive
<1>4. Passing(q)' => Passing(q)
  BY DEF Passing, FirstActive
<1>5. /\ late[h] <= Allowed
      /\ late[h] = Allowed => AllClosed({}) /\ ~Passing(call[h])
      /\ late[h] + 1 = Allowed /\ call[h].closed /\ Passing(call[h]) => AllClosed(Left(call[h]))
  BY DEF RunsLeft
<1>6. Left(q)' = Left(q)
  BY DEF Left
<1>7. AllClosed(Left(q)) => AllClosed(Left(q))'
  BY <1>3, <1>6 DEF AllClosed, FirstActive
<1>8. CASE h = c
  <2>1. late[h] = Allowed => ~Passing(q)'
    BY <1>2, <1>8
  <2>2. late[h] + 1 = Allowed /\ q.closed /\ Passing(q)' => AllClosed(Left(q))'
    BY <1>2, <1>8
  <2> QED
    BY <1>1, <1>3, <1>5, <2>1, <2>2
<1>9. CASE h # c
  <2>1. q = call[h]
    BY <1>2, <1>9
  <2> QED
    BY <1>1, <1>3, <1>4, <1>5, <1>7, <2>1
<1> QED
  BY <1>8, <1>9

\* A step of a call that stays what it is.
LEMMA RunsLike ==
  ASSUME Typed, RunsLeft, NEW c \in Caller, NEW r, Becomes(c, r),
         UNCHANGED <<late, Allowed, active, trigger>>, NEW q, q = call[c],
         \/ ~Passing(r)
         \/ /\ r.kind = q.kind /\ r.w = q.w /\ r.status = q.status /\ r.closed = q.closed
            /\ Left(r) = Left(q)
  PROVE  RunsLeft'
<1>1. Passing(r)' = Passing(r) /\ AllClosed(Left(r))' = AllClosed(Left(r))
  BY DEF Passing, AllClosed, FirstActive, Left
<1>2. Passing(r) => Passing(q) /\ r.closed = q.closed /\ Left(r) = Left(q)
  BY DEF Passing
<1>3. c \in Http /\ late[c] = Allowed => ~Passing(r)'
  BY <1>1, <1>2 DEF RunsLeft
<1>4. ASSUME c \in Http, late[c] + 1 = Allowed, r.closed, Passing(r)' PROVE AllClosed(Left(r))'
  <2>1. AllClosed(Left(q))
    BY <1>1, <1>2, <1>4 DEF RunsLeft
  <2> QED
    BY <1>1, <1>2, <1>4, <2>1
<1> QED
  BY <1>3, <1>4, RunsQuiet

\* Somebody opens a trigger, or an await rejects.
LEMMA RunsSlack ==
  ASSUME Typed, RunsLeft, NEW c \in Caller, NEW r, Becomes(c, r),
         UNCHANGED <<late, active>>, Allowed' = Allowed + 1, NEW q, q = call[c],
         Passing(r) => Passing(q)
  PROVE  RunsLeft'
<1> SUFFICES ASSUME NEW h \in Http
             PROVE  /\ late'[h] <= Allowed'
                    /\ late'[h] = Allowed' => AllClosed({})' /\ ~Passing(call[h])'
                    /\ late'[h] + 1 = Allowed' /\ call'[h].closed /\ Passing(call[h])' =>
                         AllClosed(Left(call[h]))'
  BY DEF RunsLeft
<1>1. PICK p : p = call'[h]
  OBVIOUS
<1>2. p = (IF h = c THEN r ELSE call[h]) /\ h \in Caller
  BY <1>1, OthersStay DEF Caller
<1>3. late[h] <= Allowed /\ (late[h] = Allowed => ~Passing(call[h]))
  BY DEF RunsLeft
<1>4. Passing(p)' = Passing(p)
  BY DEF Passing, FirstActive
<1>5. late[h] = Allowed => ~Passing(p)
  BY <1>2, <1>3
<1>6. late[h] \in Nat /\ Allowed \in Nat /\ late'[h] = late[h]
  BY AllowedTyped
<1>7. late'[h] <= Allowed' /\ late'[h] # Allowed'
  BY <1>3, <1>6
<1>8. late'[h] + 1 = Allowed' => late[h] = Allowed
  BY <1>6
<1> QED
  BY <1>1, <1>4, <1>5, <1>7, <1>8

\* A run after closing uses the one that is left.
LEMMA RunsRun ==
  ASSUME Typed, RunsLeft, NEW c \in Caller, Run(c)
  PROVE  RunsLeft'
<1> SUFFICES ASSUME NEW h \in Http
             PROVE  /\ late'[h] <= Allowed'
                    /\ late'[h] = Allowed' => AllClosed({})' /\ ~Passing(call[h])'
                    /\ late'[h] + 1 = Allowed' /\ call'[h].closed /\ Passing(call[h])' =>
                         AllClosed(Left(call[h]))'
  BY DEF RunsLeft
<1>1. PICK q : q = call[h]
  OBVIOUS
<1>2. PICK p : p = call'[h]
  OBVIOUS
<1>3. p = (IF h = c THEN Idle ELSE q) /\ h \in Caller
  BY <1>1, <1>2, RunMove, OthersStay DEF Caller
<1>4. /\ late[h] <= Allowed
      /\ late[h] = Allowed => AllClosed({}) /\ ~Passing(q)
      /\ late[h] + 1 = Allowed /\ q.closed /\ Passing(q) => AllClosed(Left(q))
  BY <1>1 DEF RunsLeft
<1>5. UNCHANGED <<Allowed, active, trigger>>
  BY DEF Run, gates, Allowed
<1>6. /\ Passing(p)' = Passing(p)
      /\ AllClosed(Left(p))' = AllClosed(Left(p)) /\ AllClosed({})' = AllClosed({})
  BY <1>5 DEF Passing, AllClosed, FirstActive, Left
<1>7. late[h] \in Nat /\ Allowed \in Nat
  BY AllowedTyped
<1>8. late'[h] = late[h] +
        (IF h = c /\ q.closed /\ q.w \in FirstActive THEN 1 ELSE 0)
  BY <1>1 DEF Run, FirstActive
<1>9. ~Passing(Idle)
  BY IdleShape DEF Is, Passing
<1>10. CASE h = c /\ q.closed /\ q.w \in FirstActive
  <2>1. CallOK(h, q) /\ q.pc = "run" /\ q.status # "disabled"
    BY <1>1, <1>3, <1>10 DEF Run, At, Typed
  <2>2. q.kind = "http"
    BY <2>1, BillingAssumption
       DEF CallOK, KindOK, BillingAssumption, Ordering, Loop, Ending
  <2>3. Passing(q)
    BY <1>10, <2>1, <2>2 DEF CallOK, Passing
  <2>4. Left(q) = {}
    BY <2>1, NothingLeft DEF CallOK, Switching, Left
  <2>5. late[h] + 1 <= Allowed /\ (late[h] + 1 = Allowed => AllClosed({}))
    BY <1>4, <1>7, <1>10, <2>3, <2>4
  <2>6. ~Passing(p)
    BY <1>3, <1>9, <1>10
  <2> QED
    BY <1>2, <1>5, <1>6, <1>8, <1>10, <2>5, <2>6
<1>11. CASE ~(h = c /\ q.closed /\ q.w \in FirstActive)
  <2>1. late'[h] = late[h]
    BY <1>7, <1>8, <1>11
  <2>2. p = q \/ ~Passing(p)
    BY <1>3, <1>9
  <2> QED
    BY <1>2, <1>4, <1>5, <1>6, <2>1, <2>2
<1> QED
  BY <1>10, <1>11

\* Every step keeps the runs bounded.
LEMMA RunsNext == Typed /\ RunsLeft /\ [Next]_vars => RunsLeft'
<1> SUFFICES ASSUME Typed, RunsLeft, [Next]_vars PROVE RunsLeft'
  OBVIOUS
<1> DEFINE Facts == <<late, opened, faults, instance, active, trigger>>
<1> USE DEF gates, history
<1>1. CASE UNCHANGED <<Facts, call>>
  <2>1. UNCHANGED <<Allowed, late, call, active, trigger>>
    BY <1>1 DEF Allowed
  <2> QED
    BY <2>1 DEF RunsLeft, Passing, AllClosed, Left, FirstActive
<1>2. ASSUME NEW w \in Workflow, SaveRuleName(w) PROVE RunsLeft'
  BY <1>1, <1>2 DEF SaveRuleName
<1>3. ASSUME NEW c \in Caller, Step(c) PROVE RunsLeft'
  <2>1. PICK q : q = call[c]
    OBVIOUS
  <2>2. CallOK(c, q)
    BY <2>1 DEF Typed
  <2>3. ~Passing(Idle)
    BY IdleShape DEF Is, Passing
  <2>4. UNCHANGED Facts => UNCHANGED <<late, Allowed, active, trigger>>
    BY DEF Allowed
  <2> DEFINE Quiet(r) == /\ UNCHANGED Facts /\ Becomes(c, r)
                         /\ \/ ~Passing(r)
                            \/ /\ r.kind = q.kind /\ r.w = q.w /\ r.status = q.status
                               /\ r.closed = q.closed /\ Left(r) = Left(q)
  <2>5. ASSUME NEW r, Quiet(r) PROVE RunsLeft'
    BY <2>1, <2>4, <2>5, RunsLike
  <2>6. CASE Trigger(c)
    <3>1. PICK w, r : w \in Workflow /\ Becomes(c, r) /\
            Is(r, "org", "http", w, trigger[w], NoSub, NoSub, << >>, NoRule, FALSE)
      BY <2>6, TriggerMove
    <3>2. UNCHANGED Facts
      BY <2>6 DEF Trigger
    <3>3. UNCHANGED <<late, Allowed, active, trigger>>
      BY <2>4, <3>2
    <3>4. late[c] = Allowed /\ c \in Http => ~Passing(r)'
      BY <3>1, <3>3 DEF RunsLeft, AllClosed, Passing, FirstActive, Is
    <3>5. ~r.closed
      BY <3>1 DEF Is
    <3> QED
      BY <3>1, <3>3, <3>4, <3>5, RunsQuiet
  <2>7. CASE Run(c)
    BY <2>7, RunsRun
  <2>8. CASE List(c)
    <3>1. PICK r, p, t, b :
              /\ Becomes(c, r)
              /\ Is(r, p, q.kind, q.w, q.status, q.sub, q.rec, t, q.name, b)
              /\ \/ /\ p \in {"saveUser", "run"} /\ Closing(q) /\ t = q.todo /\ b = q.closed
                    /\ p = "run" => q.kind \in {"http", "timed"}
                 \/ p \in {"rule", "key"} /\ Names(t) = FirstActive /\ b
      BY <2>1, <2>8, ListMove
    <3>2. UNCHANGED Facts /\ q.pc = "list"
      BY <2>1, <2>8 DEF List, At
    <3>3. CASE p \in {"saveUser", "run"} /\ t = q.todo /\ b = q.closed
      <4>1. Quiet(r)
        BY <3>1, <3>2, <3>3 DEF Is, Left
      <4> QED
        BY <2>5, <4>1
    <3>4. CASE p \in {"rule", "key"} /\ Names(t) = FirstActive
      <4>1. UNCHANGED <<late, Allowed, active, trigger>>
        BY <2>4, <3>2
      <4>2. AllClosed(Left(r))'
        BY <3>1, <3>4, <4>1 DEF Is, Left, AllClosed, FirstActive
      <4>3. Passing(r)' => Passing(q)
        BY <3>1, <4>1 DEF Is, Passing, FirstActive
      <4>4. late[c] = Allowed /\ c \in Http => ~Passing(r)'
        BY <2>1, <4>3 DEF RunsLeft
      <4> QED
        BY <3>1, <4>1, <4>2, <4>4, RunsQuiet
    <3> QED
      BY <3>1, <3>3, <3>4
  <2>9. CASE SaveTriggerStatus(c)
    <3> DEFINE w == Current(q.todo).w
    <3>1. PICK r : Becomes(c, r) /\
            Is(r, "switch", q.kind, q.w, q.status, q.sub, q.rec, q.todo, q.name, q.closed)
      BY <2>1, <2>9, SaveTriggerStatusMove
    <3>2. /\ UNCHANGED <<late, faults, instance, active>> /\ q.pc = "save"
          /\ trigger' = [trigger EXCEPT ![w] = StatusOf(q)]
          /\ opened' = IF Closing(q) THEN opened ELSE opened + 1
      BY <2>1, <2>9 DEF SaveTriggerStatus, At
    <3>3. Passing(r) => Passing(q)
      BY <3>1 DEF Is, Passing
    <3>4. CASE ~Closing(q)
      <4>1. Allowed' = Allowed + 1
        <5>1. /\ opened \in Nat /\ faults <= instance.faults
              /\ instance.faults \in Nat /\ faults \in Nat
          BY BillingAssumption DEF Typed, Tables, BillingAssumption
        <5> QED
          BY <3>2, <3>4, <5>1 DEF Allowed
      <4> QED
        BY <2>1, <3>1, <3>2, <3>3, <4>1, RunsSlack
    <3>5. CASE Closing(q)
      <4>1. UNCHANGED <<late, Allowed>> /\ active' = active
        BY <3>2, <3>5 DEF Allowed
      <4>2. DOMAIN trigger = Workflow /\ active \subseteq Workflow
        BY DEF Typed, Tables
      <4>3. \A v \in Workflow : trigger'[v] = IF v = w THEN "disabled" ELSE trigger[v]
        BY <3>2, <3>5, <4>2 DEF StatusOf
      <4>4. Left(q) = {w} \union Left(r)
        <5>1. Names(q.todo) = {w} \union Names(Rest(q.todo))
          BY <2>2, <3>2, RestOfTodo DEF CallOK, Switching
        <5> QED
          BY <3>1, <3>2, <5>1 DEF Is, Left
      <4>5. Passing(r)' = Passing(r) /\ AllClosed(Left(r))' =
              (\A v \in FirstActive \ Left(r) : trigger'[v] = "disabled")
        BY <4>1 DEF Passing, AllClosed, Left, FirstActive
      <4>6. late[c] = Allowed /\ c \in Http => ~Passing(r)'
        BY <2>1, <3>3, <4>5 DEF RunsLeft
      <4>7. ASSUME c \in Http, late[c] + 1 = Allowed, r.closed, Passing(r)'
            PROVE  AllClosed(Left(r))'
        <5>1. AllClosed(Left(q))
          BY <2>1, <3>1, <3>3, <4>5, <4>7 DEF RunsLeft, Is
        <5>2. \A v \in FirstActive : v \in Workflow
          BY <4>2 DEF FirstActive
        <5> QED
          BY <4>3, <4>4, <4>5, <5>1, <5>2 DEF AllClosed
      <4>8. \A v \in active' : trigger[v] = "disabled" => trigger'[v] = "disabled"
        BY <4>1, <4>2, <4>3
      <4> QED
        BY <3>1, <4>1, <4>6, <4>7, <4>8, RunsQuiet
    <3> QED
      BY <3>4, <3>5
  <2>10. CASE SwitchRule(c)
    <3>1. UNCHANGED Facts /\ Becomes(c, NextWorkflow(q)) /\ q.pc = "switch"
      BY <2>1, <2>10 DEF SwitchRule, At, Becomes
    <3>2. CASE NextWorkflow(q) = Idle
      BY <2>3, <2>5, <3>1, <3>2
    <3>3. CASE \E p, t : /\ Is(NextWorkflow(q), p, q.kind, q.w, q.status, q.sub, q.rec, t,
                               q.name, q.closed)
                         /\ p \in {"key", "rule"} /\ Names(t) = Names(Rest(q.todo))
      <4>1. PICK r : r = NextWorkflow(q)
        OBVIOUS
      <4>2. Left(r) = Left(q)
        BY <3>1, <3>3, <4>1 DEF Is, Left
      <4>3. Quiet(r)
        BY <3>1, <3>3, <4>1, <4>2 DEF Is
      <4> QED
        BY <2>5, <4>3
    <3> QED
      BY <2>2, <3>1, <3>2, <3>3, WorkflowDone
  <2>11. CASE SaveDeleted(c)
    <3>1. Becomes(c, Idle)
      BY <2>1, <2>11, SaveDeletedMove
    <3>2. UNCHANGED <<late, opened, faults, instance, trigger>> /\ active' \subseteq active
      BY <2>11 DEF SaveDeleted
    <3>3. UNCHANGED <<late, Allowed>>
      BY <3>2 DEF Allowed
    <3>4. ~Passing(Idle)'
      BY IdleShape DEF Is, Passing
    <3> QED
      BY <3>1, <3>2, <3>3, <3>4, RunsQuiet
  <2>12. CASE Throw(c) \/ Swallow(c)
    <3>1. UNCHANGED <<late, opened, instance, active>> /\ faults > 0 /\ faults' = faults - 1
      BY <2>12 DEF Throw, Swallow
    <3>2. Allowed' = Allowed + 1
      <4>1. opened \in Nat
        BY DEF Typed, Tables
      <4> QED
        BY <3>1, <4>1, OneFault DEF Allowed
    <3>3. PICK r : Becomes(c, r) /\ (Passing(r) => Passing(q))
      <4>1. CASE Throw(c)
        <5>1. PICK r : /\ Becomes(c, r)
                   /\ \/ r = Idle
                      \/ r.kind = "timed" /\ r.pc = "org" /\ q.kind = "timed"
          BY <2>1, <4>1, ThrowMove
        <5>2. ~Passing(r)
          BY <2>3, <5>1 DEF Passing
        <5> QED
          BY <5>1, <5>2
      <4>2. CASE Swallow(c)
        <5>1. PICK r : Becomes(c, r) /\ SwallowPlace(q, r)
          BY <2>1, <4>2, SwallowMove
        <5>2. CASE q.pc \in {"get", "save", "switch"} /\ r = NextWorkflow(q)
          <6>1. NextWorkflow(q) = Idle \/ (NextWorkflow(q).kind = q.kind
                  /\ NextWorkflow(q).w = q.w /\ NextWorkflow(q).status = q.status)
            BY <2>2, <5>2, WorkflowDone DEF Is
          <6> QED
            BY <2>3, <5>1, <5>2, <6>1 DEF Passing
        <5>3. CASE q.pc = "targets" /\ r = NextRule(q)
          <6>1. NextRule(q) = Idle \/ NextRule(q).kind = "deploy"
            BY <2>2, <5>3, RuleDone
          <6> QED
            BY <2>3, <5>1, <5>3, <6>1 DEF Passing
        <5>4. CASE r.kind = q.kind /\ r.w = q.w /\ r.status = q.status
          BY <5>1, <5>4 DEF Passing
        <5> QED
          BY <5>1, <5>2, <5>3, <5>4 DEF SwallowPlace, Is
      <4> QED
        BY <2>12, <4>1, <4>2
    <3> QED
      BY <2>1, <3>1, <3>2, <3>3, RunsSlack
  <2>13. CASE \/ TimedTrigger(c) \/ Toggle(c) \/ Subscribe(c) \/ Cancel(c) \/ Deploy(c)
              \/ Delete(c) \/ PutRule(c) \/ PutTargets(c) \/ CreateSubscription(c)
    <3>1. UNCHANGED Facts
      BY <2>13 DEF TimedTrigger, Toggle, Subscribe, Cancel, Deploy, Delete, PutRule,
                   PutTargets, CreateSubscription
    <3>2. PICK r : Becomes(c, r) /\ (r = Idle \/ r.kind # "http")
      <4>1. CASE TimedTrigger(c)
        BY <4>1, TimedMove DEF Is
      <4>2. CASE Toggle(c)
        BY <4>2, ToggleMove
      <4>3. CASE Subscribe(c) \/ Cancel(c)
        BY <4>3, AdminMove
      <4>4. CASE Deploy(c)
        BY <4>4, DeployMove
      <4>5. CASE Delete(c)
        BY <4>5, DeleteMove
      <4>6. CASE PutRule(c)
        BY <2>1, <4>6, PutRuleMove
      <4>7. CASE PutTargets(c)
        BY <2>1, <4>7, PutTargetsMove
      <4>8. CASE CreateSubscription(c)
        BY <2>1, <4>8, CreateSubscriptionMove DEF Is
      <4> QED
        BY <2>13, <4>1, <4>2, <4>3, <4>4, <4>5, <4>6, <4>7, <4>8
    <3>3. Quiet(r)
      BY <2>3, <3>1, <3>2 DEF Passing
    <3> QED
      BY <2>5, <3>3
  <2>14. CASE Refuse(c) \/ Reject(c) \/ SaveOrganization(c)
    <3>1. UNCHANGED Facts
      BY <2>14 DEF Refuse, Reject, SaveOrganization
    <3>2. Becomes(c, Idle)
      BY <2>1, <2>14, RefuseMove, RejectMove, SaveOrganizationMove
    <3> QED
      BY <2>3, <2>5, <3>1, <3>2
  <2>15. CASE \/ GetOrganization(c) \/ CreateUsageRecord(c) \/ CheckLimit(c) \/ SwitchListed(c)
              \/ GetWorkflow(c) \/ SwitchKey(c) \/ CancelSubscription(c) \/ SaveUser(c)
              \/ DeleteRule(c)
    <3>1. UNCHANGED Facts
      BY <2>15 DEF GetOrganization, CreateUsageRecord, CheckLimit, SwitchListed, GetWorkflow,
                   SwitchKey, CancelSubscription, SaveUser, DeleteRule
    <3>2. q.pc \notin {"switch"}
      BY <2>1, <2>15 DEF GetOrganization, CreateUsageRecord, CheckLimit, SwitchListed, GetWorkflow,
                   SwitchKey, CancelSubscription, SaveUser, DeleteRule, At
    <3>3. PICK r : /\ Becomes(c, r) /\ r.kind = q.kind /\ r.w = q.w /\ r.status = q.status
                   /\ r.closed = q.closed /\ r.todo = q.todo /\ r.pc # "switch"
      <4>1. CASE GetOrganization(c)
        BY <2>1, <4>1, GetOrganizationMove DEF Is
      <4>2. CASE CreateUsageRecord(c)
        BY <2>1, <4>2, CreateUsageRecordMove DEF Is
      <4>3. CASE CheckLimit(c)
        BY <2>1, <4>3, CheckLimitMove DEF Is
      <4>4. CASE SwitchListed(c)
        BY <2>1, <4>4, SwitchListedMove DEF Is
      <4>5. CASE GetWorkflow(c)
        BY <2>1, <4>5, GetWorkflowMove DEF Is
      <4>6. CASE SwitchKey(c)
        BY <2>1, <4>6, SwitchKeyMove DEF Is
      <4>7. CASE CancelSubscription(c)
        BY <2>1, <4>7, CancelSubscriptionMove DEF Is
      <4>8. CASE SaveUser(c)
        BY <2>1, <4>8, SaveUserMove DEF Is
      <4>9. CASE DeleteRule(c)
        BY <2>1, <4>9, DeleteRuleMove DEF Is
      <4> QED
        BY <2>15, <4>1, <4>2, <4>3, <4>4, <4>5, <4>6, <4>7, <4>8, <4>9
    <3>4. Quiet(r)
      BY <3>1, <3>2, <3>3 DEF Left
    <3> QED
      BY <2>5, <3>4
  <2> QED
    BY <1>3, <2>6, <2>7, <2>8, <2>9, <2>10, <2>11, <2>12, <2>13, <2>14, <2>15 DEF Step
<1>4. UNCHANGED vars => UNCHANGED <<Facts, call>>
  BY DEF vars
<1> QED
  BY <1>1, <1>2, <1>3, <1>4 DEF Next

\* At the start no caller has been refused.
LEMMA RunsStart == Init => RunsLeft
<1> SUFFICES ASSUME Init PROVE RunsLeft
  OBVIOUS
<1>1. \A c \in Caller : call[c] = Idle
  BY DEF Init
<1>2. \A c \in Http : late[c] = 0 /\ c \in Caller
  BY DEF Init, Caller
<1>3. Allowed = 1
  BY BillingAssumption DEF Init, Allowed, BillingAssumption
<1>4. ~Idle.closed /\ Idle.kind = "none"
  BY IdleShape DEF Is
<1> QED
  BY <1>1, <1>2, <1>3, <1>4 DEF RunsLeft, Passing

\* However the calls interleave, a caller that has closed the organization runs a
\* workflow of its first page once more at most, unless a trigger was opened or an
\* await rejected.
THEOREM OneRunAfterClosing == Spec => []OneFreeRunEach
<1>1. Init => Typed /\ RunsLeft
  BY TypedStart, RunsStart
<1>2. Typed /\ RunsLeft /\ [Next]_vars => Typed' /\ RunsLeft'
  BY TypedNext, RunsNext
<1>3. Typed /\ RunsLeft => OneFreeRunEach
  BY DEF RunsLeft, Allowed, OneFreeRunEach
<1> QED
  BY <1>1, <1>2, <1>3, PTL DEF Spec

-----------------------------------------------------------------------------
\* A call that only moves, or removes rules, leaves names and triggers matched.
LEMMA NamesKept ==
  ASSUME Typed, NEW c \in Caller, NEW r, Becomes(c, r), NEW w, NamesMatch(w),
         w \in Pends(call[c]) => w \in Pends(r),
         ruleName'[w] = ruleName[w], unsaved'[w] = unsaved[w], trigger'[w] = trigger[w],
         \A n \in {ruleName[w]} \union unsaved[w] :
           n # NoRule => rules'[n] = rules[n] \/ rules'[n] = "absent"
  PROVE  NamesMatch(w)'
<1> SUFFICES ASSUME \A d \in Caller : w \notin Pends(call[d])',
                    NEW n \in {ruleName'[w]} \union unsaved'[w],
                    n # NoRule, rules'[n] # "absent"
             PROVE  rules'[n] = trigger'[w]
  BY DEF NamesMatch
<1>1. ASSUME NEW d \in Caller PROVE w \notin Pends(call[d])
  <2>1. PICK p : p = call'[d]
    OBVIOUS
  <2>2. p = IF d = c THEN r ELSE call[d]
    BY <2>1, OthersStay
  <2>3. Pends(call[d])' = Pends(p)
    BY <2>1 DEF Pends
  <2> QED
    BY <2>2, <2>3
<1>2. rules'[n] = rules[n]
  OBVIOUS
<1> QED
  BY <1>1, <1>2 DEF NamesMatch

\* A loop names the workflow it is switching.
LEMMA NamesPending ==
  ASSUME Typed, NEW c \in Caller, NEW r, Becomes(c, r), NEW w, w \in Pends(r)
  PROVE  NamesMatch(w)'
<1>1. call'[c] = r
  BY OthersStay
<1>2. w \in Pends(call[c])'
  BY <1>1 DEF Pends
<1> QED
  BY <1>2 DEF NamesMatch

\* Who is switching a workflow stays alone with its name.
LEMMA SaversKept ==
  ASSUME Typed, NEW c \in Caller, NEW r, Becomes(c, r), NEW w, SaverAlone(w), ~Saving(r, w),
         ruleName'[w] = ruleName[w], unsaved'[w] = unsaved[w], trigger'[w] = trigger[w]
  PROVE  SaverAlone(w)'
<1>1. \A d \in Caller : Saving(call[d], w)' => d # c /\ call'[d] = call[d] /\ Saving(call[d], w)
  <2> SUFFICES ASSUME NEW d \in Caller, Saving(call[d], w)'
               PROVE  d # c /\ call'[d] = call[d] /\ Saving(call[d], w)
    OBVIOUS
  <2>1. PICK p : p = call'[d]
    OBVIOUS
  <2>2. p = IF d = c THEN r ELSE call[d]
    BY <2>1, OthersStay
  <2>3. Saving(p, w)
    BY <2>1 DEF Saving
  <2> QED
    BY <2>1, <2>2, <2>3
<1> QED
  BY <1>1 DEF SaverAlone, StatusOf, Closing

\* Rules of another workflow are left alone.
LEMMA OtherRules ==
  ASSUME NEW v \in Workflow, NEW w \in Workflow, v # w, NEW n \in NamesOf(v),
         NEW m \in NamesOf(w), m # NoRule
  PROVE  m # n /\ m \in Rule
BY BillingAssumption DEF BillingAssumption, NamesOf, Rule

\* Switching a rule leaves the other rules.
LEMMA SetRuleLeaves ==
  ASSUME Typed, NEW v \in Workflow, NEW n \in NamesOf(v), NEW s, SetRule(n, s),
         NEW w \in Workflow, v # w
  PROVE  \A m \in {ruleName[w]} \union unsaved[w] : m # NoRule => rules'[m] = rules[m]
<1>1. \A m \in {ruleName[w]} \union unsaved[w] : m \in NamesOf(w)
  BY DEF Typed, Tables, NamesOf
<1>2. \A m \in NamesOf(w) : m # NoRule => m # n /\ m \in Rule
  BY OtherRules
<1>3. DOMAIN rules = Rule
  BY DEF Typed, Tables
<1> QED
  BY <1>1, <1>2, <1>3 DEF SetRule

\* What Matched says of one workflow, before and after a step.
MatchedAt(w) == NamesMatch(w) /\ SaverAlone(w)

\* A step that changes no trigger, rule or name keeps them matched.
LEMMA MatchedQuiet ==
  ASSUME Typed, NEW c \in Caller, NEW r, Becomes(c, r), NEW w \in active, MatchedAt(w),
         UNCHANGED <<ruleName, unsaved, rules, trigger>>,
         r.pc \notin {"save", "switch"}, Pends(call[c]) \subseteq Pends(r)
  PROVE  MatchedAt(w)'
<1>1. NamesMatch(w)'
  BY NamesKept DEF MatchedAt
<1>2. ~Saving(r, w)
  BY DEF Saving
<1>3. SaverAlone(w)'
  BY <1>2, SaversKept DEF MatchedAt
<1> QED
  BY <1>1, <1>3 DEF MatchedAt

\* A loop that begins with a workflow keeps them matched.
LEMMA MatchedSwitchListed ==
  ASSUME Typed, NEW c \in Caller, SwitchListed(c), NEW w \in active, MatchedAt(w)
  PROVE  MatchedAt(w)'
<1>1. PICK q : q = call[c]
  OBVIOUS
<1> DEFINE v == Current(q.todo).w
           n == Current(q.todo).name
<1>2. PICK r : Becomes(c, r) /\
        Is(r, "get", q.kind, q.w, q.status, q.sub, q.rec, q.todo, q.name, q.closed)
  BY <1>1, SwitchListedMove
<1>3. q.pc = "rule" /\ SetRule(n, StatusOf(q)) /\ UNCHANGED <<ruleName, unsaved, trigger>>
  BY <1>1 DEF SwitchListed, At
<1>4. v \in Workflow /\ n \in NamesOf(v) /\ v \in Names(q.todo)
  BY <1>1, <1>3, RestOfTodo DEF Typed, CallOK, Switching
<1>5. Pends(r) = Names(q.todo) /\ Pends(q) = Names(q.todo) /\ ~Saving(r, w)
  BY <1>2, <1>3 DEF Is, Pends, Loop, Saving
<1>6. w \in Workflow
  BY Parts
<1>7. SaverAlone(w)'
  BY <1>2, <1>3, <1>5, SaversKept DEF MatchedAt
<1> HIDE DEF v, n
<1>8. CASE w = v
  <2>1. NamesMatch(w)'
    BY <1>2, <1>4, <1>5, <1>8, NamesPending
  <2> QED
    BY <1>7, <2>1 DEF MatchedAt
<1>9. CASE w # v
  <2>1. \A m \in {ruleName[w]} \union unsaved[w] : m # NoRule => rules'[m] = rules[m]
    BY <1>3, <1>4, <1>6, <1>9, SetRuleLeaves
  <2>2. w \in Pends(call[c]) => w \in Pends(r)
    BY <1>1, <1>5
  <2>3. NamesMatch(w)'
    BY <1>2, <1>3, <2>1, <2>2, NamesKept DEF MatchedAt
  <2> QED
    BY <1>7, <2>3 DEF MatchedAt
<1> QED
  BY <1>8, <1>9

\* Reading the rule's name keeps them matched.
LEMMA MatchedGetWorkflow ==
  ASSUME Typed, NEW c \in Caller, GetWorkflow(c), NEW w \in active, MatchedAt(w), ~crossed'
  PROVE  MatchedAt(w)'
<1>1. PICK q : q = call[c]
  OBVIOUS
<1> DEFINE v == Current(q.todo).w
<1>2. PICK r : Becomes(c, r) /\
        Is(r, "save", q.kind, q.w, q.status, q.sub, q.rec, q.todo, ruleName[v], q.closed)
  BY <1>1, GetWorkflowMove
<1>3. q.pc = "get" /\ UNCHANGED <<ruleName, unsaved, rules, trigger>> /\ ~Crosses(c, v)
  BY <1>1 DEF GetWorkflow, At, gates
<1>4. unsaved[v] = {} /\ \A d \in Caller \ {c} : ~Saving(call[d], v)
  BY <1>3 DEF Crosses, Changing, Saving, At
<1>5. Pends(r) = Pends(q) /\ (Saving(r, w) <=> w = v)
  BY <1>2, <1>3 DEF Is, Pends, Loop, Saving
<1>6. NamesMatch(w)'
  BY <1>1, <1>2, <1>3, <1>5, NamesKept DEF MatchedAt
<1> HIDE DEF v
<1>7. CASE w # v
  <2>1. SaverAlone(w)'
    BY <1>2, <1>3, <1>5, <1>7, SaversKept DEF MatchedAt
  <2> QED
    BY <1>6, <2>1 DEF MatchedAt
<1>8. CASE w = v
  <2>1. \A d \in Caller : Saving(call[d], v)' => d = c
    <3> SUFFICES ASSUME NEW d \in Caller, Saving(call[d], v)', d # c PROVE FALSE
      OBVIOUS
    <3>1. PICK p : p = call'[d]
      OBVIOUS
    <3>2. p = call[d]
      BY <1>2, <3>1, OthersStay
    <3>3. Saving(p, v)
      BY <3>1 DEF Saving
    <3> QED
      BY <1>4, <3>2, <3>3
  <2>2. call'[c] = r /\ r.name = ruleName[v] /\ r.pc = "save"
    BY <1>2, OthersStay DEF Is
  <2>3. unsaved'[v] = {} /\ ruleName'[v] = ruleName[v]
    BY <1>3, <1>4
  <2>4. SaverAlone(v)'
    BY <2>1, <2>2, <2>3 DEF SaverAlone
  <2> QED
    BY <1>6, <1>8, <2>4 DEF MatchedAt
<1> QED
  BY <1>7, <1>8

\* Saving a trigger keeps them matched: its rule is still to be switched.
LEMMA MatchedSaveStatus ==
  ASSUME Typed, NEW c \in Caller, SaveTriggerStatus(c), NEW w \in active, MatchedAt(w)
  PROVE  MatchedAt(w)'
<1>1. PICK q : q = call[c]
  OBVIOUS
<1> DEFINE v == Current(q.todo).w
<1>2. PICK r : Becomes(c, r) /\
        Is(r, "switch", q.kind, q.w, q.status, q.sub, q.rec, q.todo, q.name, q.closed)
  BY <1>1, SaveTriggerStatusMove
<1>3. /\ q.pc = "save" /\ UNCHANGED <<ruleName, unsaved, rules>>
      /\ trigger' = [trigger EXCEPT ![v] = StatusOf(q)]
  BY <1>1 DEF SaveTriggerStatus, At
<1>4. v \in Workflow /\ v \in Names(q.todo) /\ DOMAIN trigger = Workflow /\ w \in Workflow
  BY <1>1, <1>3, RestOfTodo, Parts DEF Typed, CallOK, Switching, Tables
<1>5. /\ Pends(r) = Names(q.todo) /\ Pends(q) = Names(q.todo)
      /\ Saving(r, w) <=> w = v
      /\ Saving(q, w) <=> w = v
  BY <1>2, <1>3 DEF Is, Pends, Loop, Saving
<1>6. StatusOf(r) = StatusOf(q)
  BY <1>2 DEF Is, StatusOf, Closing
<1> HIDE DEF v
<1>7. CASE w # v
  <2>1. trigger'[w] = trigger[w]
    BY <1>3, <1>4, <1>7
  <2>2. SaverAlone(w)'
    BY <1>2, <1>3, <1>5, <1>7, <2>1, SaversKept DEF MatchedAt
  <2>3. NamesMatch(w)'
    BY <1>1, <1>2, <1>3, <1>5, <2>1, NamesKept DEF MatchedAt
  <2> QED
    BY <2>2, <2>3 DEF MatchedAt
<1>8. CASE w = v
  <2>1. NamesMatch(v)'
    BY <1>2, <1>4, <1>5, NamesPending
  <2>2. q.name = ruleName[v] /\ unsaved[v] = {}
        /\ \A d \in Caller : Saving(call[d], v) => d = c
    BY <1>1, <1>5, <1>8 DEF MatchedAt, SaverAlone
  <2>3. \A d \in Caller : Saving(call[d], v)' => d = c
    <3> SUFFICES ASSUME NEW d \in Caller, Saving(call[d], v)', d # c PROVE FALSE
      OBVIOUS
    <3>1. PICK p : p = call'[d]
      OBVIOUS
    <3>2. p = call[d]
      BY <1>2, <3>1, OthersStay
    <3>3. Saving(p, v)
      BY <3>1 DEF Saving
    <3> QED
      BY <2>2, <3>2, <3>3
  <2>4. call'[c] = r /\ r.name = ruleName'[v] /\ unsaved'[v] = {} /\ trigger'[v] = StatusOf(r)
    BY <1>2, <1>3, <1>4, <1>6, <2>2, OthersStay DEF Is
  <2>5. StatusOf(call[c])' = StatusOf(r)
    BY <2>4 DEF StatusOf, Closing
  <2>6. SaverAlone(v)'
    BY <2>3, <2>4, <2>5 DEF SaverAlone
  <2> QED
    BY <1>8, <2>1, <2>6 DEF MatchedAt
<1> QED
  BY <1>7, <1>8

-----------------------------------------------------------------------------
\* Switching the rule matches it with the trigger that was saved.
LEMMA MatchedSwitchRule ==
  ASSUME Typed, NEW c \in Caller, SwitchRule(c), NEW w \in active, MatchedAt(w)
  PROVE  MatchedAt(w)'
<1>1. PICK q : q = call[c]
  OBVIOUS
<1> DEFINE v == Current(q.todo).w
           n == q.name
<1>2. PICK r : r = NextWorkflow(q)
  OBVIOUS
<1>3. CallOK(c, q) /\ Becomes(c, r) /\ q.pc = "switch"
  BY <1>1, <1>2, SwitchRuleMove DEF SwitchRule, At
<1>4. SetRule(n, StatusOf(q)) /\ UNCHANGED <<ruleName, unsaved, trigger>>
  BY <1>1 DEF SwitchRule
<1>5. v \in Workflow /\ n \in NamesOf(v) /\ Names(q.todo) = {v} \union Names(Rest(q.todo))
  BY <1>3, RestOfTodo DEF CallOK, Switching
<1>6. Names(Rest(q.todo)) \subseteq Pends(r) /\ r.pc \notin {"save", "switch"}
  <2>1. CASE r = Idle /\ q.kind \in {"open", "close"}
    BY <1>3, <2>1, IdleShape DEF CallOK, Is
  <2>2. ASSUME NEW p, NEW t,
               Is(r, p, q.kind, q.w, q.status, q.sub, q.rec, t, q.name, q.closed),
               p \in {"key", "rule"}, Names(t) = Names(Rest(q.todo)), p = "key" => Names(t) = {}
        PROVE  Names(Rest(q.todo)) \subseteq Pends(r) /\ r.pc \notin {"save", "switch"}
    BY <2>2 DEF Is, Pends, Loop
  <2> QED
    BY <1>2, <1>3, <2>1, <2>2, WorkflowDone
<1>7. Pends(q) = {v} \union Names(Rest(q.todo)) /\ ~Saving(r, w) /\ (Saving(q, w) <=> w = v)
  BY <1>3, <1>5, <1>6 DEF Pends, Loop, Saving
<1>8. w \in Workflow
  BY Parts
<1>9. SaverAlone(w)'
  BY <1>3, <1>4, <1>7, SaversKept DEF MatchedAt
<1> HIDE DEF v, n
<1>10. CASE w # v
  <2>1. \A m \in {ruleName[w]} \union unsaved[w] : m # NoRule => rules'[m] = rules[m]
    BY <1>4, <1>5, <1>8, <1>10, SetRuleLeaves
  <2>2. w \in Pends(call[c]) => w \in Pends(r)
    BY <1>1, <1>6, <1>7, <1>10
  <2>3. NamesMatch(w)'
    BY <1>3, <1>4, <2>1, <2>2, NamesKept DEF MatchedAt
  <2> QED
    BY <1>9, <2>3 DEF MatchedAt
<1>11. CASE w = v
  <2>1. n = ruleName[w] /\ unsaved[w] = {} /\ trigger[w] = StatusOf(q)
    BY <1>1, <1>3, <1>7, <1>11 DEF MatchedAt, SaverAlone, n
  <2>2. n # NoRule => n \in Rule
    BY <1>5 DEF NamesOf, Rule
  <2>3. n # NoRule /\ rules'[n] # "absent" => rules'[n] = StatusOf(q)
    <3>1. DOMAIN rules = Rule
      BY DEF Typed, Tables
    <3> QED
      BY <1>4, <2>2, <3>1 DEF SetRule
  <2>4. NamesMatch(w)'
    BY <1>4, <2>1, <2>3 DEF NamesMatch
  <2> QED
    BY <1>9, <2>4 DEF MatchedAt
<1> QED
  BY <1>10, <1>11

\* A rule that is put is enabled, like its trigger, unless the step is crossed.
LEMMA MatchedPutRule ==
  ASSUME Typed, NEW c \in Caller, PutRule(c), NEW w \in active, MatchedAt(w), ~crossed'
  PROVE  MatchedAt(w)'
<1>1. PICK q : q = call[c]
  OBVIOUS
<1> DEFINE n == Current(q.todo).name
<1>2. PICK r : Becomes(c, r) /\ r.kind = "deploy" /\ r.pc = "targets" /\ r.w = q.w
  BY <1>1, PutRuleMove
<1>3. q.w \in Workflow /\ n \in RulesOf(q.w) /\ w \in Workflow
  BY <1>1, PutRuleMove, Parts
<1>4. /\ q.pc = "rules" /\ UNCHANGED <<ruleName, trigger>>
      /\ rules' = [rules EXCEPT ![n] = "enabled"]
      /\ unsaved' = [unsaved EXCEPT ![q.w] = unsaved[q.w] \union {n}]
      /\ trigger[q.w] # "disabled" /\ \A d \in Caller \ {c} : ~Changing(d, q.w)
  BY <1>1 DEF PutRule, At
<1> HIDE DEF n
<1>5. ~Saving(r, w) /\ Pends(q) = {} /\ n \in NamesOf(q.w) /\ n \in Rule
  BY <1>2, <1>3, <1>4 DEF Saving, Pends, Loop, NamesOf, Rule
<1>6. DOMAIN rules = Rule /\ DOMAIN unsaved = Workflow /\ trigger[q.w] = "enabled"
  BY <1>3, <1>4 DEF Typed, Tables
<1>7. CASE w # q.w
  <2>1. unsaved'[w] = unsaved[w]
    BY <1>3, <1>4, <1>6, <1>7
  <2>2. \A m \in {ruleName[w]} \union unsaved[w] : m # NoRule => rules'[m] = rules[m]
    <3>1. \A m \in {ruleName[w]} \union unsaved[w] : m \in NamesOf(w)
      BY <1>3 DEF Typed, Tables, NamesOf
    <3>2. \A m \in NamesOf(w) : m # NoRule => m # n /\ m \in Rule
      BY <1>3, <1>5, <1>7, OtherRules
    <3> QED
      BY <1>4, <1>6, <3>1, <3>2
  <2>3. NamesMatch(w)'
    BY <1>1, <1>2, <1>4, <1>5, <2>1, <2>2, NamesKept DEF MatchedAt
  <2>4. SaverAlone(w)'
    BY <1>2, <1>4, <1>5, <2>1, SaversKept DEF MatchedAt
  <2> QED
    BY <2>3, <2>4 DEF MatchedAt
<1>8. CASE w = q.w
  <2>1. \A d \in Caller : ~Saving(call[d], w)'
    <3> SUFFICES ASSUME NEW d \in Caller, Saving(call[d], w)' PROVE FALSE
      OBVIOUS
    <3>1. PICK p : p = call'[d]
      OBVIOUS
    <3>2. p = (IF d = c THEN r ELSE call[d]) /\ Saving(p, w)
      <4>1. p = IF d = c THEN r ELSE call[d]
        BY <1>2, <3>1, OthersStay
      <4> QED
        BY <3>1, <4>1 DEF Saving
    <3> QED
      BY <1>4, <1>5, <1>8, <3>2 DEF Changing, Saving, At
  <2>2. SaverAlone(w)'
    BY <2>1 DEF SaverAlone
  <2>3. NamesMatch(w)'
    <3> SUFFICES ASSUME \A d \in Caller : w \notin Pends(call[d])',
                        NEW m \in {ruleName'[w]} \union unsaved'[w],
                        m # NoRule, rules'[m] # "absent"
                 PROVE  rules'[m] = trigger'[w]
      BY DEF NamesMatch
    <3>1. CASE m = n
      BY <1>4, <1>5, <1>6, <1>8, <3>1
    <3>2. CASE m # n
      <4>1. m \in {ruleName[w]} \union unsaved[w] /\ rules'[m] = rules[m]
        <5>1. m \in NamesOf(w) \/ m = n
          BY <1>3, <1>4, <1>6, <1>8 DEF Typed, Tables, NamesOf
        <5>2. m \in Rule
          BY <1>3, <3>2, <5>1 DEF NamesOf, Rule
        <5> QED
          BY <1>3, <1>4, <1>6, <1>8, <3>2, <5>2
      <4>2. \A d \in Caller : w \notin Pends(call[d])
        <5> SUFFICES ASSUME NEW d \in Caller PROVE w \notin Pends(call[d])
          OBVIOUS
        <5>1. CASE d = c
          BY <1>1, <1>5, <5>1
        <5>2. CASE d # c
          <6>1. call'[d] = call[d]
            BY <1>2, <5>2, OthersStay
          <6>2. PICK p : p = call'[d]
            OBVIOUS
          <6>3. w \notin Pends(p)
            BY <6>2 DEF Pends
          <6> QED
            BY <6>1, <6>2, <6>3
        <5> QED
          BY <5>1, <5>2
      <4> QED
        BY <1>4, <4>1, <4>2 DEF MatchedAt, NamesMatch
    <3> QED
      BY <3>1, <3>2
  <2> QED
    BY <2>2, <2>3 DEF MatchedAt
<1> QED
  BY <1>7, <1>8

\* Removing a rule keeps the others matched.
LEMMA MatchedDeleteRule ==
  ASSUME Typed, NEW c \in Caller, DeleteRule(c), NEW w \in active, MatchedAt(w)
  PROVE  MatchedAt(w)'
<1>1. PICK q : q = call[c]
  OBVIOUS
<1>2. PICK r : Becomes(c, r) /\
        Is(r, "deleted", q.kind, q.w, q.status, q.sub, q.rec, q.todo, q.name, q.closed)
  BY <1>1, DeleteRuleMove
<1>3. /\ q.pc = "gone" /\ UNCHANGED <<ruleName, unsaved, trigger>>
      /\ rules' = [m \in Rule |-> IF m = q.name THEN "absent" ELSE rules[m]]
  BY <1>1 DEF DeleteRule, At
<1>4. \A m \in {ruleName[w]} \union unsaved[w] :
        m # NoRule => rules'[m] = rules[m] \/ rules'[m] = "absent"
  <2>1. \A m \in {ruleName[w]} \union unsaved[w] : m \in NamesOf(w)
    BY Parts DEF Typed, Tables, NamesOf
  <2>2. \A m \in NamesOf(w) : m # NoRule => m \in Rule
    BY Parts DEF NamesOf, Rule
  <2> QED
    BY <1>3, <2>1, <2>2
<1>5. ~Saving(r, w) /\ Pends(q) = {}
  BY <1>2, <1>3 DEF Is, Saving, Pends, Loop
<1>6. NamesMatch(w)'
  BY <1>1, <1>2, <1>3, <1>4, <1>5, NamesKept DEF MatchedAt
<1>7. SaverAlone(w)'
  BY <1>2, <1>3, <1>5, SaversKept DEF MatchedAt
<1> QED
  BY <1>6, <1>7 DEF MatchedAt

\* Removing a workflow keeps the others matched.
LEMMA MatchedSaveDeleted ==
  ASSUME Typed, NEW c \in Caller, SaveDeleted(c), NEW w \in active', MatchedAt(w)
  PROVE  MatchedAt(w)'
<1>1. PICK q : q = call[c]
  OBVIOUS
<1>2. Becomes(c, Idle) /\ ruleName'[w] = ruleName[w] /\ w \in Workflow
  <2>1. w \in Workflow \ {q.w}
    BY <1>1, Parts DEF SaveDeleted
  <2> QED
    BY <1>1, <2>1, SaveDeletedMove
<1>3. UNCHANGED <<unsaved, rules, trigger>> /\ q.pc = "deleted"
  BY <1>1 DEF SaveDeleted, At
<1>4. ~Saving(Idle, w) /\ Pends(q) = {}
  BY <1>3, IdleShape DEF Is, Saving, Pends, Loop
<1>5. NamesMatch(w)'
  BY <1>1, <1>2, <1>3, <1>4, NamesKept DEF MatchedAt
<1>6. SaverAlone(w)'
  BY <1>2, <1>3, <1>4, SaversKept DEF MatchedAt
<1> QED
  BY <1>5, <1>6 DEF MatchedAt

\* A name that is saved was put with the status of the trigger.
LEMMA MatchedSaveRuleName ==
  ASSUME Typed, NEW v \in Workflow, SaveRuleName(v), NEW w \in active, MatchedAt(w)
  PROVE  MatchedAt(w)'
<1>1. PICK n \in unsaved[v] : /\ ruleName' = [ruleName EXCEPT ![v] = n]
                              /\ unsaved' = [unsaved EXCEPT ![v] = unsaved[v] \ {n}]
  BY DEF SaveRuleName
<1>2. UNCHANGED <<call, rules, trigger>>
  BY DEF SaveRuleName
<1>3. w \in Workflow /\ DOMAIN ruleName = Workflow /\ DOMAIN unsaved = Workflow
  BY Parts DEF Typed, Tables
<1>4. {ruleName'[w]} \union unsaved'[w] \subseteq {ruleName[w]} \union unsaved[w]
  BY <1>1, <1>3
<1>5. NamesMatch(w)'
  BY <1>2, <1>4 DEF MatchedAt, NamesMatch, Pends
<1>6. SaverAlone(w)'
  <2>1. CASE w = v
    <3>1. \A d \in Caller : ~Saving(call[d], w)
      BY <1>1, <2>1 DEF MatchedAt, SaverAlone
    <3> QED
      BY <1>2, <3>1 DEF SaverAlone, Saving
  <2>2. CASE w # v
    <3>1. ruleName'[w] = ruleName[w] /\ unsaved'[w] = unsaved[w]
      BY <1>1, <1>3, <2>2
    <3> QED
      BY <1>2, <3>1 DEF MatchedAt, SaverAlone, Saving, StatusOf, Closing
  <2> QED
    BY <2>1, <2>2
<1> QED
  BY <1>5, <1>6 DEF MatchedAt

-----------------------------------------------------------------------------
\* Every step keeps rules and triggers matched.
LEMMA MatchedNext == Typed /\ Matched /\ [Next]_vars => Matched'
<1> SUFFICES ASSUME Typed, Matched, [Next]_vars, ~crossed', faults' = instance'.faults,
                    NEW w \in active'
             PROVE  MatchedAt(w)'
  BY DEF Matched, MatchedAt
<1> DEFINE Facts == <<ruleName, unsaved, rules, trigger>>
<1> USE DEF gates, history
<1>1. ASSUME ~crossed, faults = instance.faults, w \in active PROVE MatchedAt(w)
  BY <1>1 DEF Matched, MatchedAt
<1>2. CASE UNCHANGED <<Facts, crossed, faults, instance, active, call>>
  <2>1. MatchedAt(w)
    BY <1>1, <1>2
  <2> QED
    BY <1>2, <2>1 DEF MatchedAt, NamesMatch, SaverAlone, Pends, Saving, StatusOf, Closing
<1>3. ASSUME NEW v \in Workflow, SaveRuleName(v) PROVE MatchedAt(w)'
  <2>1. ~crossed /\ faults = instance.faults /\ w \in active
    BY <1>3 DEF SaveRuleName
  <2> QED
    BY <1>1, <1>3, <2>1, MatchedSaveRuleName
<1>4. ASSUME NEW c \in Caller, Step(c) PROVE MatchedAt(w)'
  <2>1. PICK q : q = call[c]
    OBVIOUS
  <2>2. CallOK(c, q)
    BY <2>1 DEF Typed
  <2>3. Idle.pc = "idle"
    BY IdleShape DEF Is
  <2> DEFINE Before == ~crossed /\ faults = instance.faults /\ w \in active
             Quiet == UNCHANGED <<Facts, crossed, faults, instance, active>>
  <2>4. ASSUME Quiet, q.pc \notin Loop,
               NEW r, Becomes(c, r), r.pc \notin {"save", "switch"}
        PROVE  MatchedAt(w)'
    <3>1. Pends(call[c]) \subseteq Pends(r) /\ Before
      BY <2>1, <2>4 DEF Pends
    <3> QED
      BY <1>1, <2>4, <3>1, MatchedQuiet
  <2>5. CASE SwitchListed(c)
    <3>1. Before
      BY <2>5 DEF SwitchListed
    <3> QED
      BY <1>1, <2>5, <3>1, MatchedSwitchListed
  <2>6. CASE GetWorkflow(c)
    <3>1. Before
      BY <2>6 DEF GetWorkflow
    <3> QED
      BY <1>1, <2>6, <3>1, MatchedGetWorkflow
  <2>7. CASE SaveTriggerStatus(c)
    <3>1. Before
      BY <2>7 DEF SaveTriggerStatus
    <3> QED
      BY <1>1, <2>7, <3>1, MatchedSaveStatus
  <2>8. CASE SwitchRule(c)
    <3>1. Before
      BY <2>8 DEF SwitchRule
    <3> QED
      BY <1>1, <2>8, <3>1, MatchedSwitchRule
  <2>9. CASE PutRule(c)
    <3>1. Before
      BY <2>9 DEF PutRule
    <3> QED
      BY <1>1, <2>9, <3>1, MatchedPutRule
  <2>10. CASE DeleteRule(c)
    <3>1. Before
      BY <2>10 DEF DeleteRule
    <3> QED
      BY <1>1, <2>10, <3>1, MatchedDeleteRule
  <2>11. CASE SaveDeleted(c)
    <3>1. Before
      BY <2>11 DEF SaveDeleted
    <3> QED
      BY <1>1, <2>11, <3>1, MatchedSaveDeleted
  <2>12. CASE Throw(c) \/ Swallow(c)
    BY <2>12, OneFault DEF Throw, Swallow
  <2>13. CASE \/ Trigger(c) \/ TimedTrigger(c) \/ Toggle(c) \/ Subscribe(c) \/ Cancel(c)
              \/ Deploy(c) \/ Delete(c)
    <3>1. Quiet
      BY <2>13 DEF Trigger, TimedTrigger, Toggle, Subscribe, Cancel, Deploy, Delete
    <3>2. PICK r : /\ Becomes(c, r) /\ call[c].pc = "idle"
                   /\ r.pc \in {"org", "get", "subscribe", "cancel", "rules", "gone"}
      <4>1. CASE Trigger(c)
        BY <4>1, TriggerMove DEF Is
      <4>2. CASE TimedTrigger(c)
        BY <4>2, TimedMove DEF Is
      <4>3. CASE Toggle(c)
        BY <4>3, ToggleMove
      <4>4. CASE Subscribe(c) \/ Cancel(c)
        BY <4>4, AdminMove
      <4>5. CASE Deploy(c)
        BY <4>5, DeployMove
      <4>6. CASE Delete(c)
        BY <4>6, DeleteMove
      <4> QED
        BY <2>13, <4>1, <4>2, <4>3, <4>4, <4>5, <4>6
    <3>3. q.pc \notin Loop /\ r.pc \notin {"save", "switch"}
      BY <2>1, <3>2 DEF Loop
    <3> QED
      BY <2>4, <3>1, <3>2, <3>3
  <2>14. CASE Refuse(c) \/ Reject(c) \/ SaveOrganization(c) \/ Run(c)
    <3>1. Quiet
      BY <2>14 DEF Refuse, Reject, SaveOrganization, Run
    <3>2. Becomes(c, Idle)
      BY <2>1, <2>14, RefuseMove, RejectMove, SaveOrganizationMove, RunMove
    <3>3. q.pc \notin Loop
      BY <2>1, <2>14 DEF Refuse, Reject, SaveOrganization, Run, At, Loop
    <3> QED
      BY <2>3, <2>4, <3>1, <3>2, <3>3
  <2>15. CASE \/ GetOrganization(c) \/ CreateUsageRecord(c) \/ CheckLimit(c) \/ List(c)
              \/ SwitchKey(c) \/ CreateSubscription(c) \/ CancelSubscription(c) \/ SaveUser(c)
              \/ PutTargets(c)
    <3>1. Quiet
      BY <2>15 DEF GetOrganization, CreateUsageRecord, CheckLimit, List, SwitchKey,
                   CreateSubscription, CancelSubscription, SaveUser, PutTargets
    <3>2. q.pc \notin Loop
      BY <2>1, <2>15
         DEF GetOrganization, CreateUsageRecord, CheckLimit, List, SwitchKey,
             CreateSubscription, CancelSubscription, SaveUser, PutTargets, At, Loop
    <3>3. PICK r : Becomes(c, r) /\ r.pc \notin {"save", "switch"}
      <4>1. CASE GetOrganization(c)
        BY <2>1, <4>1, GetOrganizationMove DEF Is
      <4>2. CASE CreateUsageRecord(c)
        BY <2>1, <4>2, CreateUsageRecordMove DEF Is
      <4>3. CASE CheckLimit(c)
        BY <2>1, <4>3, CheckLimitMove DEF Is
      <4>4. CASE List(c)
        BY <2>1, <4>4, ListMove DEF Is
      <4>5. CASE SwitchKey(c)
        BY <2>1, <4>5, SwitchKeyMove DEF Is
      <4>6. CASE CreateSubscription(c)
        BY <2>1, <4>6, CreateSubscriptionMove DEF Is
      <4>7. CASE CancelSubscription(c)
        BY <2>1, <4>7, CancelSubscriptionMove DEF Is
      <4>8. CASE SaveUser(c)
        BY <2>1, <4>8, SaveUserMove DEF Is
      <4>9. CASE PutTargets(c)
        BY <2>1, <2>3, <4>9, PutTargetsMove
      <4> QED
        BY <2>15, <4>1, <4>2, <4>3, <4>4, <4>5, <4>6, <4>7, <4>8, <4>9
    <3> QED
      BY <2>4, <3>1, <3>2, <3>3
  <2> QED
    BY <1>4, <2>5, <2>6, <2>7, <2>8, <2>9, <2>10, <2>11, <2>12, <2>13, <2>14, <2>15 DEF Step
<1>5. UNCHANGED vars => UNCHANGED <<Facts, crossed, faults, instance, active, call>>
  BY DEF vars
<1> QED
  BY <1>2, <1>3, <1>4, <1>5 DEF Next

\* At the start every rule is switched like its trigger.
LEMMA MatchedStart == Init => Matched
<1> SUFFICES ASSUME Init, NEW w \in active PROVE NamesMatch(w) /\ SaverAlone(w)
  BY DEF Matched
<1>1. w \in Workflow /\ ruleName[w] = NoRule /\ unsaved[w] = {}
  BY DEF Init
<1>2. \A c \in Caller : call[c].pc = "idle"
  BY IdleShape DEF Init, Is
<1> QED
  BY <1>1, <1>2 DEF NamesMatch, SaverAlone, Saving

\* When nobody is at work and nothing crossed or failed, the rule a workflow
\* names is switched like its trigger, for any number of users, rules and versions.
THEOREM RulesFollowTriggers == Spec => []StatusMatchesRule
<1>1. Init => Typed /\ Matched
  BY TypedStart, MatchedStart
<1>2. Typed /\ Matched /\ [Next]_vars => Typed' /\ Matched'
  BY TypedNext, MatchedNext
<1>3. Typed /\ Matched => StatusMatchesRule
  <2> SUFFICES ASSUME Matched, AtRest, ~crossed, faults = instance.faults, NEW w \in active,
                      ruleName[w] # NoRule, rules[ruleName[w]] # "absent"
               PROVE  rules[ruleName[w]] = trigger[w]
    BY DEF StatusMatchesRule
  <2>1. \A c \in Caller : Pends(call[c]) = {}
    BY DEF AtRest, At, Pends, Loop
  <2> QED
    BY <2>1 DEF Matched, NamesMatch
<1> QED
  BY <1>1, <1>2, <1>3, PTL DEF Spec

-----------------------------------------------------------------------------
\* A call that keeps its subscription keeps the owners.
LEMMA OwnedQuiet ==
  ASSUME Typed, Owned, NEW c \in Caller, NEW r, Becomes(c, r), UNCHANGED <<live, user>>,
         NEW q, q = call[c],
         Creating(r) => Creating(q) /\ r.sub = q.sub,
         c \in Admin /\ r.kind = "cancel" =>
           /\ r.pc # "saveOrganization" => user[c].sub = r.sub
           /\ r.pc # "cancel" => r.sub \notin live
  PROVE  Owned'
<1>1. PICK f : f = call'
  OBVIOUS
<1>2. \A d \in Caller : f[d] = IF d = c THEN r ELSE call[d]
  BY <1>1, OthersStay
<1>3. Admin \subseteq Caller
  BY DEF Caller
<1> SUFFICES ASSUME NEW d \in Admin
             PROVE /\ Creating(f[d]) =>
                        /\ f[d].sub \in live
                        /\ \A a \in Admin : user[a].sub = f[d].sub => a = d
                        /\ \A a \in Admin : Creating(f[a]) /\ f[a].sub = f[d].sub => a = d
                   /\ f[d].kind = "cancel" =>
                        /\ f[d].pc # "saveOrganization" => user[d].sub = f[d].sub
                        /\ f[d].pc # "cancel" => f[d].sub \notin live
  BY <1>1 DEF Owned, Creating
<1>4. \A a \in Admin : Creating(f[a]) => Creating(call[a]) /\ f[a].sub = call[a].sub
  BY <1>2, <1>3
<1>5. Creating(f[d]) =>
        /\ f[d].sub \in live
        /\ \A a \in Admin : user[a].sub = f[d].sub => a = d
        /\ \A a \in Admin : Creating(f[a]) /\ f[a].sub = f[d].sub => a = d
  BY <1>4 DEF Owned
<1>6. f[d].kind = "cancel" =>
        /\ f[d].pc # "saveOrganization" => user[d].sub = f[d].sub
        /\ f[d].pc # "cancel" => f[d].sub \notin live
  <2>1. CASE d = c
    BY <1>2, <1>3, <2>1
  <2>2. CASE d # c
    BY <1>2, <1>3, <2>2 DEF Owned
  <2> QED
    BY <2>1, <2>2
<1> QED
  BY <1>5, <1>6

\* A call in the middle of its loops keeps its subscription.
LEMMA OwnedLike ==
  ASSUME Typed, Owned, NEW c \in Caller, NEW r, Becomes(c, r), UNCHANGED <<live, user>>,
         NEW q, q = call[c],
         \/ r.kind \notin {"create", "cancel"}
         \/ r.kind = "create" /\ r.pc = "subscribe"
         \/ /\ r.kind = q.kind /\ r.sub = q.sub
            /\ q.pc \notin {"subscribe", "cancel", "saveOrganization"}
  PROVE  Owned'
<1>1. Creating(r) => Creating(q) /\ r.sub = q.sub
  BY DEF Creating
<1>2. c \in Admin /\ r.kind = "cancel" =>
        /\ r.pc # "saveOrganization" => user[c].sub = r.sub
        /\ r.pc # "cancel" => r.sub \notin live
  BY DEF Owned
<1> QED
  BY <1>1, <1>2, OwnedQuiet

\* A subscription that is created is new to every admin.
LEMMA OwnedCreate ==
  ASSUME Typed, Owned, NEW c \in Caller, CreateSubscription(c)
  PROVE  Owned'
<1>1. PICK s : s = created'
  OBVIOUS
<1>2. PICK q : q = call[c]
  OBVIOUS
<1>3. PICK r : Becomes(c, r) /\ Is(r, "list", "create", q.w, q.status, s, NoSub, q.todo, q.name,
                                   q.closed)
  BY <1>1, <1>2, CreateSubscriptionMove
<1>4. /\ s = created + 1 /\ live' = live \union {s} /\ c \in Admin
      /\ live \subseteq 1..created /\ created \in Nat
      /\ \A a \in Admin : user[a].sub \in 0..created
  <2>1. s = created + 1 /\ live' = live \union {s} /\ c \in Admin
    BY <1>1, <1>2, CreateSubscriptionMove
  <2>2. /\ live \subseteq 1..created /\ created \in Nat
        /\ \A a \in Admin : user[a].sub \in 0..created
    BY BillingAssumption DEF Typed, Tables, BillingAssumption
  <2> QED
    BY <2>1, <2>2
<1>5. UNCHANGED user
  BY DEF CreateSubscription, accounts
<1>6. PICK f : f = call'
  OBVIOUS
<1>7. \A d \in Caller : f[d] = IF d = c THEN r ELSE call[d]
  BY <1>3, <1>6, OthersStay
<1>8. Admin \subseteq Caller
  BY DEF Caller
<1>9. s \notin live /\ \A a \in Admin : user[a].sub # s /\ call[a].sub # s
  <2>1. \A a \in Admin : call[a].sub \in 0..created
    BY <1>8 DEF Typed, CallOK
  <2> QED
    BY <1>4, <2>1
<1>10. r.sub = s /\ r.kind = "create"
  BY <1>3 DEF Is
<1> SUFFICES ASSUME NEW d \in Admin
             PROVE /\ Creating(f[d]) =>
                        /\ f[d].sub \in live \union {s}
                        /\ \A a \in Admin : user[a].sub = f[d].sub => a = d
                        /\ \A a \in Admin : Creating(f[a]) /\ f[a].sub = f[d].sub => a = d
                   /\ f[d].kind = "cancel" =>
                        /\ f[d].pc # "saveOrganization" => user[d].sub = f[d].sub
                        /\ f[d].pc # "cancel" => f[d].sub \notin live \union {s}
  BY <1>4, <1>5, <1>6 DEF Owned, Creating
<1>11. CASE d = c
  BY <1>7, <1>8, <1>9, <1>10, <1>11
<1>12. CASE d # c
  BY <1>7, <1>8, <1>9, <1>10, <1>12 DEF Owned
<1> QED
  BY <1>11, <1>12

\* A subscription that is cancelled belongs to the admin.
LEMMA OwnedCancel ==
  ASSUME Typed, Owned, NEW c \in Caller, CancelSubscription(c)
  PROVE  Owned'
<1>1. PICK q : q = call[c]
  OBVIOUS
<1>2. PICK r : Becomes(c, r) /\ Is(r, "list", "cancel", q.w, q.status, q.sub, NoSub, q.todo,
                                   q.name, q.closed)
  BY <1>1, CancelSubscriptionMove
<1>3. live' = live \ {q.sub} /\ c \in Admin /\ q.kind = "cancel" /\ q.pc = "cancel"
  BY <1>1, CancelSubscriptionMove
<1>4. UNCHANGED user
  BY DEF CancelSubscription, accounts
<1>5. PICK f : f = call'
  OBVIOUS
<1>6. \A d \in Caller : f[d] = IF d = c THEN r ELSE call[d]
  BY <1>2, <1>5, OthersStay
<1>7. Admin \subseteq Caller
  BY DEF Caller
<1>8. r.sub = q.sub /\ r.kind = "cancel" /\ user[c].sub = q.sub
  BY <1>1, <1>2, <1>3 DEF Is, Owned
<1> SUFFICES ASSUME NEW d \in Admin
             PROVE /\ Creating(f[d]) =>
                        /\ f[d].sub \in live \ {q.sub}
                        /\ \A a \in Admin : user[a].sub = f[d].sub => a = d
                        /\ \A a \in Admin : Creating(f[a]) /\ f[a].sub = f[d].sub => a = d
                   /\ f[d].kind = "cancel" =>
                        /\ f[d].pc # "saveOrganization" => user[d].sub = f[d].sub
                        /\ f[d].pc # "cancel" => f[d].sub \notin live \ {q.sub}
  BY <1>3, <1>4, <1>5 DEF Owned, Creating
<1>9. \A a \in Admin : Creating(f[a]) => a # c /\ Creating(call[a]) /\ f[a] = call[a]
  BY <1>6, <1>7, <1>8 DEF Creating
<1>10. CASE d = c
  BY <1>3, <1>6, <1>7, <1>8, <1>9, <1>10
<1>11. CASE d # c
  BY <1>3, <1>6, <1>7, <1>8, <1>9, <1>11 DEF Owned
<1> QED
  BY <1>10, <1>11

\* A subscription saved with a user is of nobody else.
LEMMA OwnedSaveUser ==
  ASSUME Typed, Owned, NEW c \in Caller, SaveUser(c)
  PROVE  Owned'
<1>1. PICK q : q = call[c]
  OBVIOUS
<1>2. PICK r : Becomes(c, r) /\ Is(r, "saveOrganization", q.kind, q.w, q.status, q.sub, NoSub,
                                   q.todo, q.name, q.closed)
  BY <1>1, SaveUserMove
<1>3. /\ c \in Admin /\ q.kind \in {"create", "cancel"} /\ q.pc = "saveUser"
      /\ \A a \in Admin : user'[a].sub =
              IF a = c THEN IF q.kind = "create" THEN q.sub ELSE NoSub ELSE user[a].sub
  BY <1>1, SaveUserMove
<1>4. UNCHANGED live
  BY DEF SaveUser, stripe
<1>5. PICK f : f = call'
  OBVIOUS
<1>6. \A d \in Caller : f[d] = IF d = c THEN r ELSE call[d]
  BY <1>2, <1>5, OthersStay
<1>7. Admin \subseteq Caller
  BY DEF Caller
<1>8. r.sub = q.sub /\ r.kind = q.kind /\ r.pc = "saveOrganization"
  BY <1>2 DEF Is
<1>9. NoSub \notin live
  BY BillingAssumption DEF Typed, Tables, NoSub, BillingAssumption
<1> SUFFICES ASSUME NEW d \in Admin
             PROVE /\ Creating(f[d]) =>
                        /\ f[d].sub \in live
                        /\ \A a \in Admin : user'[a].sub = f[d].sub => a = d
                        /\ \A a \in Admin : Creating(f[a]) /\ f[a].sub = f[d].sub => a = d
                   /\ f[d].kind = "cancel" =>
                        /\ f[d].pc # "saveOrganization" => user'[d].sub = f[d].sub
                        /\ f[d].pc # "cancel" => f[d].sub \notin live
  BY <1>4, <1>5 DEF Owned, Creating
<1>10. \A a \in Admin : /\ Creating(f[a]) <=> Creating(call[a])
                        /\ f[a].sub = call[a].sub /\ f[a].kind = call[a].kind
  BY <1>1, <1>3, <1>6, <1>7, <1>8 DEF Creating
<1>11. Creating(f[d]) =>
        /\ f[d].sub \in live
        /\ \A a \in Admin : Creating(f[a]) /\ f[a].sub = f[d].sub => a = d
  BY <1>10 DEF Owned
<1>12. ASSUME Creating(f[d]), NEW a \in Admin, user'[a].sub = f[d].sub PROVE a = d
  <2>1. CASE a # c
    BY <1>3, <1>10, <1>12, <2>1 DEF Owned
  <2>2. CASE a = c /\ q.kind = "create"
    <3>1. Creating(f[c]) /\ f[c].sub = f[d].sub
      BY <1>3, <1>6, <1>7, <1>8, <1>12, <2>2 DEF Creating
    <3> QED
      BY <1>3, <1>11, <1>12, <2>2, <3>1
  <2>3. CASE a = c /\ q.kind # "create"
    BY <1>3, <1>9, <1>11, <1>12, <2>3
  <2> QED
    BY <2>1, <2>2, <2>3
<1>13. f[d].kind = "cancel" =>
        /\ f[d].pc # "saveOrganization" => user'[d].sub = f[d].sub
        /\ f[d].pc # "cancel" => f[d].sub \notin live
  <2>1. CASE d = c
    BY <1>1, <1>3, <1>6, <1>7, <1>8, <2>1 DEF Owned
  <2>2. CASE d # c
    BY <1>3, <1>6, <1>7, <2>2 DEF Owned
  <2> QED
    BY <2>1, <2>2
<1> QED
  BY <1>11, <1>12, <1>13

\* Every step keeps the owners.
LEMMA OwnedNext == Typed /\ Owned /\ [Next]_vars => Owned'
<1> SUFFICES ASSUME Typed, Owned, [Next]_vars PROVE Owned'
  OBVIOUS
<1> USE DEF stripe, accounts
<1>1. CASE UNCHANGED <<live, user, call>>
  BY <1>1 DEF Owned, Creating
<1>2. ASSUME NEW w \in Workflow, SaveRuleName(w) PROVE Owned'
  BY <1>1, <1>2 DEF SaveRuleName
<1>3. ASSUME NEW c \in Caller, Step(c) PROVE Owned'
  <2>1. PICK q : q = call[c]
    OBVIOUS
  <2>2. CallOK(c, q)
    BY <2>1 DEF Typed
  <2>3. Idle.kind = "none"
    BY IdleShape DEF Is
  <2> DEFINE Quiet == UNCHANGED <<live, user>>
  <2>4. ASSUME Quiet, NEW r, Becomes(c, r),
               \/ r.kind \notin {"create", "cancel"}
               \/ /\ r.kind = q.kind /\ r.sub = q.sub
                  /\ q.pc \notin {"subscribe", "cancel", "saveOrganization"}
        PROVE  Owned'
    BY <2>1, <2>4, OwnedLike
  <2>5. CASE CreateSubscription(c)
    BY <2>5, OwnedCreate
  <2>6. CASE CancelSubscription(c)
    BY <2>6, OwnedCancel
  <2>7. CASE SaveUser(c)
    BY <2>7, OwnedSaveUser
  <2>8. CASE Subscribe(c) \/ Cancel(c)
    <3>1. Quiet
      BY <2>8 DEF Subscribe, Cancel
    <3>2. PICK r : /\ Becomes(c, r)
                   /\ \/ r.kind = "create" /\ r.pc = "subscribe"
                      \/ r.kind = "cancel" /\ r.pc = "cancel" /\ r.sub = user[c].sub
      BY <2>8, AdminMove
    <3>3. ~Creating(r)
      BY <3>2 DEF Creating
    <3> QED
      BY <2>1, <3>1, <3>2, <3>3, OwnedQuiet
  <2>9. CASE Throw(c)
    <3>1. Quiet
      BY <2>9 DEF Throw
    <3>2. PICK r : Becomes(c, r) /\ r.kind \notin {"create", "cancel"}
      BY <2>1, <2>3, <2>9, ThrowMove
    <3> QED
      BY <2>4, <3>1, <3>2
  <2>10. ASSUME q.pc \in {"get", "save", "switch"}
         PROVE  \/ NextWorkflow(q).kind \notin {"create", "cancel"}
                \/ /\ NextWorkflow(q).kind = q.kind /\ NextWorkflow(q).sub = q.sub
                   /\ q.pc \notin {"subscribe", "cancel", "saveOrganization"}
    BY <2>2, <2>3, <2>10, WorkflowDone DEF Is
  <2>11. CASE Swallow(c)
    <3>1. Quiet
      BY <2>11 DEF Swallow
    <3>2. PICK r : Becomes(c, r) /\ SwallowPlace(q, r)
      BY <2>1, <2>11, SwallowMove
    <3>3. CASE q.pc \in {"get", "save", "switch"} /\ r = NextWorkflow(q)
      BY <2>4, <2>10, <3>1, <3>2, <3>3
    <3>4. CASE q.pc = "targets" /\ r = NextRule(q)
      <4>1. r.kind \notin {"create", "cancel"}
        BY <2>2, <2>3, <3>4, RuleDone
      <4> QED
        BY <2>4, <3>1, <3>2, <4>1
    <3>5. CASE r.kind = q.kind /\ r.sub = q.sub /\ q.pc \in {"rule", "key", "rules", "gone"}
      BY <2>4, <3>1, <3>2, <3>5
    <3> QED
      BY <3>2, <3>3, <3>4, <3>5 DEF SwallowPlace, Is
  <2>12. CASE SwitchRule(c)
    <3>1. Quiet /\ Becomes(c, NextWorkflow(q)) /\ q.pc = "switch"
      BY <2>1, <2>12 DEF SwitchRule, At, Becomes
    <3> QED
      BY <2>4, <2>10, <3>1
  <2>13. CASE \/ Refuse(c) \/ Reject(c) \/ SaveOrganization(c) \/ Run(c) \/ SaveDeleted(c)
    <3>1. Quiet
      BY <2>13 DEF Refuse, Reject, SaveOrganization, Run, SaveDeleted
    <3>2. Becomes(c, Idle)
      BY <2>1, <2>13, RefuseMove, RejectMove, SaveOrganizationMove, RunMove, SaveDeletedMove
    <3> QED
      BY <2>3, <2>4, <3>1, <3>2
  <2>14. CASE \/ Trigger(c) \/ TimedTrigger(c) \/ Toggle(c) \/ Deploy(c) \/ Delete(c)
              \/ PutRule(c) \/ PutTargets(c) \/ GetOrganization(c) \/ CreateUsageRecord(c)
    <3>1. Quiet
      BY <2>14 DEF Trigger, TimedTrigger, Toggle, Deploy, Delete, PutRule, PutTargets,
                   GetOrganization, CreateUsageRecord
    <3>2. PICK r : Becomes(c, r) /\ r.kind \notin {"create", "cancel"}
      <4>1. CASE Trigger(c)
        BY <4>1, TriggerMove DEF Is
      <4>2. CASE TimedTrigger(c)
        BY <4>2, TimedMove DEF Is
      <4>3. CASE Toggle(c)
        BY <4>3, ToggleMove
      <4>4. CASE Deploy(c)
        BY <4>4, DeployMove
      <4>5. CASE Delete(c)
        BY <4>5, DeleteMove
      <4>6. CASE PutRule(c)
        BY <2>1, <4>6, PutRuleMove
      <4>7. CASE PutTargets(c)
        BY <2>1, <2>3, <4>7, PutTargetsMove
      <4>8. CASE GetOrganization(c)
        <5>1. q.kind \notin {"create", "cancel"}
          BY <2>1, <2>2, <4>8
             DEF GetOrganization, At, CallOK, KindOK, Ordering, Ending, Loop
        <5> QED
          BY <2>1, <4>8, <5>1, GetOrganizationMove DEF Is
      <4>9. CASE CreateUsageRecord(c)
        <5>1. q.kind \notin {"create", "cancel"}
          BY <2>1, <2>2, <4>9
             DEF CreateUsageRecord, At, CallOK, KindOK, Ordering, Ending, Loop
        <5> QED
          BY <2>1, <4>9, <5>1, CreateUsageRecordMove DEF Is
      <4> QED
        BY <2>14, <4>1, <4>2, <4>3, <4>4, <4>5, <4>6, <4>7, <4>8, <4>9
    <3> QED
      BY <2>4, <3>1, <3>2
  <2>15. CASE \/ CheckLimit(c) \/ List(c) \/ SwitchListed(c) \/ GetWorkflow(c)
              \/ SaveTriggerStatus(c) \/ SwitchKey(c) \/ DeleteRule(c)
    <3>1. Quiet
      BY <2>15 DEF CheckLimit, List, SwitchListed, GetWorkflow, SaveTriggerStatus, SwitchKey,
                   DeleteRule
    <3>2. q.pc \notin {"subscribe", "cancel", "saveOrganization"}
      BY <2>1, <2>15
         DEF CheckLimit, List, SwitchListed, GetWorkflow, SaveTriggerStatus, SwitchKey,
             DeleteRule, At
    <3>3. PICK r : Becomes(c, r) /\ r.kind = q.kind /\ r.sub = q.sub
      <4>1. CASE CheckLimit(c)
        BY <2>1, <4>1, CheckLimitMove DEF Is
      <4>2. CASE List(c)
        BY <2>1, <4>2, ListMove DEF Is
      <4>3. CASE SwitchListed(c)
        BY <2>1, <4>3, SwitchListedMove DEF Is
      <4>4. CASE GetWorkflow(c)
        BY <2>1, <4>4, GetWorkflowMove DEF Is
      <4>5. CASE SaveTriggerStatus(c)
        BY <2>1, <4>5, SaveTriggerStatusMove DEF Is
      <4>6. CASE SwitchKey(c)
        BY <2>1, <4>6, SwitchKeyMove DEF Is
      <4>7. CASE DeleteRule(c)
        BY <2>1, <4>7, DeleteRuleMove DEF Is
      <4> QED
        BY <2>15, <4>1, <4>2, <4>3, <4>4, <4>5, <4>6, <4>7
    <3> QED
      BY <2>4, <3>1, <3>2, <3>3
  <2> QED
    BY <1>3, <2>5, <2>6, <2>7, <2>8, <2>9, <2>11, <2>12, <2>13, <2>14, <2>15 DEF Step
<1>4. UNCHANGED vars => UNCHANGED <<live, user, call>>
  BY DEF vars
<1> QED
  BY <1>1, <1>2, <1>3, <1>4 DEF Next

-----------------------------------------------------------------------------
\* A trigger that closes the organization knows of no subscription.
Unbilled(r) == r.kind \in {"http", "timed"} /\ r.pc \in Ending => r.sub = NoSub

\* Nothing that createSubscription has opened is closed.
Opener == /\ UNCHANGED live /\ active' \subseteq active /\ (key => key')
          /\ \A w \in active' : trigger[w] = "enabled" => trigger'[w] = "enabled"

\* An organization is kept open by a step that closes nothing.
LEMMA OpenKept ==
  ASSUME Opener
  PROVE  /\ \A S : AllOpen(S) => AllOpen(S)'
         /\ \A d, p : OpenedBy(d, p) /\ user'[d].sub = user[d].sub => OpenedBy(d, p)'
<1>1. \A S : AllOpen(S) => AllOpen(S)'
  BY DEF AllOpen, FirstActive, Opener
<1>2. ASSUME NEW d, NEW p, OpenedBy(d, p), user'[d].sub = user[d].sub
      PROVE  OpenedBy(d, p)'
  <2>1. Left(p)' = Left(p)
    BY DEF Left
  <2>2. AllOpen(Left(p)) => AllOpen(Left(p))'
    BY <1>1, <2>1 DEF AllOpen, FirstActive
  <2> QED
    BY <1>2, <2>2 DEF OpenedBy, Opener
<1> QED
  BY <1>1, <1>2

\* The organization is not paid for: nobody is creating a subscription.
LEMMA OpeningUnpaid ==
  ASSUME Typed, NEW c \in Caller, NEW r, Becomes(c, r), Owned', live' = {},
         \A d \in Caller : Unbilled(call[d]), Unbilled(r)
  PROVE  Opening'
<1>1. PICK f : f = call'
  OBVIOUS
<1>2. \A d \in Caller : f[d] = IF d = c THEN r ELSE call[d]
  BY <1>1, OthersStay
<1>3. \A d \in Caller : Unbilled(f[d])
  BY <1>2
<1>4. \A d \in Admin : ~Creating(f[d])
  BY <1>1 DEF Owned, Creating
<1> QED
  BY <1>1, <1>3, <1>4 DEF Opening, Unbilled, Creating

\* A step that closes nothing.
LEMMA OpeningKept ==
  ASSUME Typed, Opening, ~excused, faults = instance.faults,
         NEW c \in Caller, NEW r, Becomes(c, r), Opener, UNCHANGED <<user, org>>,
         Unbilled(r), Creating(call[c]) => Creating(r),
         c \in Admin /\ Creating(r) => OpenedBy(c, r)'
  PROVE  Opening'
<1>1. PICK f : f = call'
  OBVIOUS
<1>2. \A d \in Caller : f[d] = IF d = c THEN r ELSE call[d]
  BY <1>1, OthersStay
<1>3. Admin \subseteq Caller
  BY DEF Caller
<1>4. \A d \in Caller : Unbilled(f[d])
  BY <1>2 DEF Opening, Unbilled
<1>5. \A s, t \in live' : s = t
  BY DEF Opening, Opener
<1>6. ASSUME NEW d \in Admin, Creating(f[d]) PROVE OpenedBy(d, call[d])'
  <2>1. PICK p : p = f[d]
    OBVIOUS
  <2>2. OpenedBy(d, p)'
    <3>1. CASE d = c
      BY <1>2, <1>3, <1>6, <2>1, <3>1
    <3>2. CASE d # c
      <4>1. p = call[d] /\ OpenedBy(d, p)
        BY <1>2, <1>3, <1>6, <2>1, <3>2 DEF Opening
      <4> QED
        BY <4>1, OpenKept
    <3> QED
      BY <3>1, <3>2
  <2>3. p = call'[d]
    BY <1>1, <2>1
  <2> QED
    BY <2>2, <2>3 DEF OpenedBy, Left
<1>7. ASSUME \A d \in Admin : ~Creating(f[d]), NEW s \in live' PROVE IsOpen(s)'
  <2>1. \A d \in Admin : ~Creating(call[d])
    BY <1>2, <1>3, <1>7
  <2>2. IsOpen(s)
    BY <2>1 DEF Opening, Opener
  <2> QED
    BY <2>2, OpenKept DEF IsOpen, Opener
<1> QED
  BY <1>1, <1>4, <1>5, <1>6, <1>7 DEF Opening, Unbilled, Creating

\* A subscription that is created is the only one, and nobody is closing.
LEMMA OpeningCreate ==
  ASSUME Typed, Owned, Opening, ~excused', faults = instance.faults, NEW c \in Caller,
         CreateSubscription(c)
  PROVE  Opening'
<1>1. PICK s : s = created'
  OBVIOUS
<1>2. PICK q : q = call[c]
  OBVIOUS
<1>3. PICK r : Becomes(c, r) /\ Is(r, "list", "create", q.w, q.status, s, NoSub, q.todo, q.name,
                                   q.closed)
  BY <1>1, <1>2, CreateSubscriptionMove
<1>4. live' = live \union {s} /\ c \in Admin
  BY <1>1, <1>2, CreateSubscriptionMove
<1>5. ~excused /\ live = {}
  BY DEF CreateSubscription
<1>6. PICK f : f = call'
  OBVIOUS
<1>7. \A d \in Caller : f[d] = IF d = c THEN r ELSE call[d]
  BY <1>3, <1>6, OthersStay
<1>8. Admin \subseteq Caller
  BY DEF Caller
<1>9. r.sub = s /\ r.kind = "create" /\ r.pc = "list"
  BY <1>3 DEF Is
<1>10. \A d \in Admin : Creating(f[d]) => d = c
  BY <1>5, <1>7, <1>8 DEF Owned
<1>11. Creating(f[c]) /\ f[c].pc = "list"
  BY <1>7, <1>9 DEF Creating
<1>12. \A d \in Caller : Unbilled(f[d])
  BY <1>5, <1>7, <1>9 DEF Opening, Unbilled
<1>13. \A x, y \in live' : x = y
  BY <1>4, <1>5
<1>14. call'[c].pc = "list"
  BY <1>6, <1>11
<1>15. OpenedBy(c, call[c])'
  BY <1>14 DEF OpenedBy
<1> QED
  BY <1>4, <1>6, <1>10, <1>11, <1>12, <1>13, <1>15 DEF Opening, Unbilled, Creating

\* Saving the user brings the opening one step on.
LEMMA OpeningSaveUser ==
  ASSUME Typed, Owned, Opening, ~excused', faults = instance.faults, NEW c \in Caller,
         SaveUser(c)
  PROVE  Opening'
<1>1. PICK q : q = call[c]
  OBVIOUS
<1>2. PICK r : Becomes(c, r) /\ Is(r, "saveOrganization", q.kind, q.w, q.status, q.sub, NoSub,
                                   q.todo, q.name, q.closed)
  BY <1>1, SaveUserMove
<1>3. /\ c \in Admin /\ q.kind \in {"create", "cancel"} /\ q.pc = "saveUser"
      /\ \A a \in Admin : user'[a].sub =
              IF a = c THEN IF q.kind = "create" THEN q.sub ELSE NoSub ELSE user[a].sub
  BY <1>1, SaveUserMove
<1>4. Opener /\ UNCHANGED org /\ ~excused
  BY DEF Opener, SaveUser, stripe, gates, history
<1>5. PICK f : f = call'
  OBVIOUS
<1>6. \A d \in Caller : f[d] = IF d = c THEN r ELSE call[d]
  BY <1>2, <1>5, OthersStay
<1>7. Admin \subseteq Caller
  BY DEF Caller
<1>8. r.sub = q.sub /\ r.kind = q.kind /\ r.pc = "saveOrganization" /\ r.todo = q.todo
  BY <1>2 DEF Is
<1>9. \A d \in Caller : Unbilled(f[d])
  BY <1>3, <1>4, <1>6, <1>8 DEF Opening, Unbilled
<1>10. \A x, y \in live' : x = y
  BY <1>4 DEF Opening, Opener
<1>11. ASSUME NEW d \in Admin, Creating(f[d]) PROVE OpenedBy(d, call[d])'
  <2>1. PICK p : p = f[d]
    OBVIOUS
  <2>2. OpenedBy(d, p)'
    <3>1. CASE d = c
      <4>1. p = r /\ q.kind = "create" /\ Creating(q)
        BY <1>3, <1>6, <1>7, <1>8, <1>11, <2>1, <3>1 DEF Creating
      <4>2. OpenedBy(c, q)
        BY <1>1, <1>3, <1>4, <4>1 DEF Opening
      <4>3. AllOpen(Left(q)) /\ key
        BY <1>3, <4>2 DEF OpenedBy
      <4>4. Left(p)' = Left(q)
        BY <1>3, <1>8, <4>1 DEF Left
      <4>5. AllOpen(Left(q)) => AllOpen(Left(p))'
        BY <1>4, <4>4 DEF AllOpen, FirstActive, Opener
      <4>6. user'[d].sub = p.sub
        BY <1>3, <1>8, <3>1, <4>1
      <4> QED
        BY <1>4, <1>8, <4>1, <4>3, <4>5, <4>6 DEF OpenedBy, Opener
    <3>2. CASE d # c
      <4>1. p = call[d] /\ OpenedBy(d, p) /\ user'[d].sub = user[d].sub
        BY <1>3, <1>4, <1>6, <1>7, <1>11, <2>1, <3>2 DEF Opening
      <4> QED
        BY <1>4, <4>1, OpenKept
    <3> QED
      BY <3>1, <3>2
  <2>3. p = call'[d]
    BY <1>5, <2>1
  <2> QED
    BY <2>2, <2>3 DEF OpenedBy, Left
<1>12. ASSUME \A d \in Admin : ~Creating(f[d]), NEW s \in live' PROVE IsOpen(s)'
  <2>1. \A d \in Admin : ~Creating(call[d])
    BY <1>1, <1>3, <1>6, <1>7, <1>8, <1>12 DEF Creating
  <2>2. IsOpen(s) /\ s \in live
    BY <1>4, <2>1 DEF Opening, Opener
  <2>3. q.kind = "cancel"
    BY <1>1, <1>3, <2>1 DEF Creating
  <2>4. user[c].sub # s
    BY <1>1, <1>3, <2>2, <2>3 DEF Owned
  <2>5. \E a \in Admin : user'[a].sub = s
    BY <1>3, <2>2, <2>4 DEF IsOpen
  <2> QED
    BY <1>4, <2>2, <2>5, OpenKept DEF IsOpen, Opener
<1> QED
  BY <1>5, <1>9, <1>10, <1>11, <1>12 DEF Opening, Unbilled, Creating

-----------------------------------------------------------------------------
\* A closing call at work on the loop, or at its end, finds nothing paid for.
LEMMA ClosingUnpaid ==
  ASSUME Typed, Opening, ~excused, faults = instance.faults, NEW c \in Caller, NEW q,
         q = call[c], q.pc \in Ending, Closing(q), ~ClosesPaid(q)
  PROVE  live = {}
BY DEF Opening, Typed, CallOK, Closing, ClosesPaid

\* Saving a trigger opens it for the opener; nobody else closes unexcused.
LEMMA OpeningSaveStatus ==
  ASSUME Typed, Owned, Owned', Opening, ~excused', faults = instance.faults, NEW c \in Caller,
         SaveTriggerStatus(c)
  PROVE  Opening'
<1>1. PICK q : q = call[c]
  OBVIOUS
<1> DEFINE w == Current(q.todo).w
<1>2. PICK r : Becomes(c, r) /\
        Is(r, "switch", q.kind, q.w, q.status, q.sub, q.rec, q.todo, q.name, q.closed)
  BY <1>1, SaveTriggerStatusMove
<1>3. /\ q.pc = "save" /\ UNCHANGED <<live, user, org, key, active>>
      /\ trigger' = [trigger EXCEPT ![w] = StatusOf(q)]
      /\ ~excused /\ ~ClosesPaid(q)
  BY <1>1 DEF SaveTriggerStatus, At, stripe, accounts
<1>4. CallOK(c, q) /\ Unbilled(q) /\ \A d \in Caller : Unbilled(call[d])
  BY <1>1, <1>3 DEF Typed, Opening, Unbilled
<1>5. Unbilled(r)
  BY <1>2, <1>3, <1>4 DEF Is, Unbilled, Ending, Loop
<1>6. CASE Closing(q)
  <2>1. live' = {}
    BY <1>1, <1>3, <1>6, ClosingUnpaid DEF Ending, Loop
  <2> QED
    BY <1>2, <1>4, <1>5, <2>1, OpeningUnpaid
<1>7. CASE ~Closing(q)
  <2>1. DOMAIN trigger = Workflow /\ active \subseteq Workflow
    BY DEF Typed, Tables
  <2>2. \A v \in Workflow : trigger'[v] = IF v = w THEN "enabled" ELSE trigger[v]
    BY <1>3, <1>7, <2>1 DEF StatusOf
  <2>3. Opener
    BY <1>3, <2>1, <2>2 DEF Opener
  <2>4. Creating(call[c]) <=> Creating(r)
    BY <1>1, <1>2, <1>3 DEF Is, Creating
  <2>5. ASSUME c \in Admin, Creating(r) PROVE OpenedBy(c, r)'
    <3>1. OpenedBy(c, q)
      BY <1>1, <1>3, <2>4, <2>5 DEF Opening
    <3>2. AllOpen(Left(q))
      BY <1>3, <3>1 DEF OpenedBy
    <3>3. Left(q) = {w} \union Left(r)
      <4>1. Names(q.todo) = {w} \union Names(Rest(q.todo))
        BY <1>3, <1>4, RestOfTodo DEF CallOK, Switching
      <4> QED
        BY <1>2, <1>3, <4>1 DEF Is, Left
    <3>4. Left(r)' = Left(r)
      BY DEF Left
    <3> HIDE DEF w
    <3>5. \A v \in FirstActive' \ Left(r) : trigger'[v] = "enabled"
      BY <1>3, <2>1, <2>2, <3>2, <3>3 DEF AllOpen, FirstActive
    <3>6. AllOpen(Left(r))'
      BY <3>4, <3>5 DEF AllOpen
    <3> QED
      BY <1>2, <3>6 DEF OpenedBy, Is
  <2> QED
    BY <1>2, <1>3, <1>5, <2>3, <2>4, <2>5, OpeningKept
<1> QED
  BY <1>6, <1>7

\* Switching the key opens it, likewise.
LEMMA OpeningSwitchKey ==
  ASSUME Typed, Owned, Owned', Opening, ~excused', faults = instance.faults, NEW c \in Caller,
         SwitchKey(c)
  PROVE  Opening'
<1>1. PICK q : q = call[c]
  OBVIOUS
<1>2. PICK r, p : /\ Becomes(c, r)
                  /\ Is(r, p, q.kind, q.w, q.status, q.sub, q.rec, q.todo, q.name, q.closed)
                  /\ p = IF q.kind \in {"http", "timed"} THEN "run" ELSE "saveUser"
  BY <1>1, SwitchKeyMove
<1>3. /\ q.pc = "key" /\ UNCHANGED <<live, user, org, active, trigger>>
      /\ key' = ~Closing(q) /\ ~excused /\ ~ClosesPaid(q)
  BY <1>1 DEF SwitchKey, At, stripe, accounts
<1>4. CallOK(c, q) /\ Unbilled(q) /\ \A d \in Caller : Unbilled(call[d])
  BY <1>1, <1>3 DEF Typed, Opening, Unbilled
<1>5. Unbilled(r)
  BY <1>2, <1>3, <1>4 DEF Is, Unbilled, Ending, Loop
<1>6. CASE Closing(q)
  <2>1. live' = {}
    BY <1>1, <1>3, <1>6, ClosingUnpaid DEF Ending
  <2> QED
    BY <1>2, <1>4, <1>5, <2>1, OpeningUnpaid
<1>7. CASE ~Closing(q)
  <2>1. Opener /\ key'
    BY <1>3, <1>7 DEF Opener
  <2>2. Creating(call[c]) => Creating(r)
    BY <1>1, <1>2, <1>3 DEF Is, Creating
  <2>3. ASSUME c \in Admin, Creating(r) PROVE OpenedBy(c, r)'
    <3>1. r.kind = "create" /\ r.pc = "saveUser" /\ r.todo = q.todo /\ Creating(q)
      BY <1>2, <1>3, <2>3 DEF Creating, Is
    <3>2. AllOpen(Left(q)) /\ Left(q) = Left(r)
      BY <1>1, <1>3, <2>3, <3>1 DEF Opening, OpenedBy, Left
    <3>3. AllOpen(Left(r))'
      <4>1. Left(r)' = Left(r)
        BY DEF Left
      <4> QED
        BY <1>3, <3>2, <4>1 DEF AllOpen, FirstActive
    <3> QED
      BY <2>1, <3>1, <3>3 DEF OpenedBy
  <2> QED
    BY <1>2, <1>3, <1>5, <2>1, <2>2, <2>3, OpeningKept
<1> QED
  BY <1>6, <1>7

\* Saving the organization completes the opening.
LEMMA OpeningSaveOrganization ==
  ASSUME Typed, Owned, Owned', Opening, ~excused', faults = instance.faults, NEW c \in Caller,
         SaveOrganization(c)
  PROVE  Opening'
<1>1. PICK q : q = call[c]
  OBVIOUS
<1>2. /\ c \in Admin /\ q.kind \in {"create", "cancel"} /\ q.pc = "saveOrganization"
      /\ Becomes(c, Idle)
  BY <1>1, SaveOrganizationMove
<1>3. /\ UNCHANGED <<live, user, key, active, trigger>> /\ ~excused /\ ~ClosesPaid(q)
      /\ org' = IF q.kind = "create" THEN q.sub ELSE NoSub
  BY <1>1 DEF SaveOrganization, stripe, gates
<1>4. Unbilled(Idle) /\ ~Creating(Idle) /\ \A d \in Caller : Unbilled(call[d])
  BY <1>3, IdleShape DEF Is, Unbilled, Creating, Opening
<1>5. CASE q.kind = "cancel"
  <2>1. live' = {}
    BY <1>3, <1>5 DEF ClosesPaid, Closing
  <2> QED
    BY <1>2, <1>4, <2>1, OpeningUnpaid
<1>6. CASE q.kind = "create"
  <2>1. PICK f : f = call'
    OBVIOUS
  <2>2. \A d \in Caller : f[d] = IF d = c THEN Idle ELSE call[d]
    BY <1>2, <2>1, OthersStay
  <2>3. Admin \subseteq Caller
    BY DEF Caller
  <2>4. \A d \in Caller : Unbilled(f[d])
    BY <1>4, <2>2
  <2>5. \A x, y \in live' : x = y
    BY <1>3 DEF Opening
  <2>6. Creating(q) /\ q.sub \in live /\ OpenedBy(c, q)
    BY <1>1, <1>2, <1>3, <1>6 DEF Creating, Owned, Opening
  <2>7. ASSUME NEW d \in Admin, Creating(f[d]) PROVE OpenedBy(d, call[d])'
    <3>1. PICK p : p = f[d]
      OBVIOUS
    <3>2. p = call[d] /\ OpenedBy(d, p)
      BY <1>3, <1>4, <2>2, <2>3, <2>7, <3>1 DEF Opening
    <3>3. Opener /\ UNCHANGED user
      BY <1>3 DEF Opener
    <3>4. OpenedBy(d, p)'
      BY <3>2, <3>3, OpenKept
    <3>5. p = call'[d]
      BY <2>1, <3>1
    <3> QED
      BY <3>4, <3>5 DEF OpenedBy, Left
  <2>8. ASSUME NEW s \in live' PROVE IsOpen(s)'
    <3>1. s = q.sub
      BY <1>3, <2>6 DEF Opening
    <3>2. org' = s /\ user'[c].sub = s /\ key'
      BY <1>2, <1>3, <1>6, <2>6, <3>1 DEF OpenedBy
    <3>3. Left(q) = {}
      BY <1>1, <1>2, NothingLeft DEF Typed, CallOK, Switching, Left
    <3>4. AllOpen({})
      BY <1>2, <2>6, <3>3 DEF OpenedBy
    <3>5. AllOpen({})'
      BY <1>3, <3>4 DEF AllOpen, FirstActive
    <3> QED
      BY <1>2, <3>2, <3>5 DEF IsOpen
  <2> QED
    BY <2>1, <2>4, <2>5, <2>7, <2>8 DEF Opening, Unbilled, Creating
<1> QED
  BY <1>2, <1>5, <1>6

-----------------------------------------------------------------------------
\* Cancelling leaves no subscription to be open for.
LEMMA OpeningCancel ==
  ASSUME Typed, Owned', Opening, ~excused, faults = instance.faults, NEW c \in Caller,
         CancelSubscription(c)
  PROVE  Opening'
<1>1. PICK q : q = call[c]
  OBVIOUS
<1>2. PICK r : Becomes(c, r) /\ Is(r, "list", "cancel", q.w, q.status, q.sub, NoSub, q.todo,
                                   q.name, q.closed)
  BY <1>1, CancelSubscriptionMove
<1>3. live' = live \ {q.sub} /\ q.sub \in live
  BY <1>1, CancelSubscriptionMove
<1>4. live' = {}
  BY <1>3 DEF Opening
<1>5. Unbilled(r) /\ \A d \in Caller : Unbilled(call[d])
  BY <1>2 DEF Is, Unbilled, Opening
<1> QED
  BY <1>2, <1>4, <1>5, OpeningUnpaid

\* createSubscription goes through its loop without opening or closing more.
LEMMA OpeningLoop ==
  ASSUME Typed, Opening, ~excused, faults = instance.faults, NEW c \in Caller,
         NEW q, q = call[c], NEW r, Becomes(c, r), Opener, UNCHANGED <<user, org, trigger>>,
         r.kind = q.kind, r.sub = q.sub, r.pc \in {"key"} \union Loop,
         \/ q.pc = "list" /\ Left(r) = FirstActive
         \/ q.pc \in Loop /\ Left(r) = Left(q)
  PROVE  Opening'
<1>1. Unbilled(r)
  BY DEF Opening, Unbilled, Ending
<1>2. Creating(call[c]) <=> Creating(r)
  BY DEF Creating, Loop
<1>3. ASSUME c \in Admin, Creating(r) PROVE OpenedBy(c, r)'
  <2>1. Left(r)' = Left(r)
    BY DEF Left
  <2>2. AllOpen(Left(r))
    <3>1. CASE Left(r) = FirstActive
      BY <3>1 DEF AllOpen
    <3>2. CASE Left(r) = Left(q) /\ q.pc \in Loop
      BY <1>2, <1>3, <3>2 DEF Opening, OpenedBy, Loop
    <3> QED
      BY <3>1, <3>2
  <2>3. AllOpen(Left(r))'
    BY <2>1, <2>2 DEF AllOpen, FirstActive, Opener
  <2> QED
    BY <2>3 DEF OpenedBy, Loop
<1> QED
  BY <1>1, <1>2, <1>3, OpeningKept

\* Every step brings an opening on, or keeps it.
LEMMA OpeningNext == Typed /\ Owned /\ Opening /\ [Next]_vars => Opening'
<1> SUFFICES ASSUME Typed, Owned, Opening, [Next]_vars, ~excused', faults' = instance'.faults
             PROVE  Opening'
  BY DEF Opening
<1>0. Owned'
  BY OwnedNext
<1> DEFINE Facts == <<live, user, org, key, trigger>>
<1> USE DEF gates, history, stripe, accounts
<1>1. CASE UNCHANGED <<Facts, active, excused, faults, instance, call>>
  BY <1>1 DEF Opening, OpenedBy, IsOpen, AllOpen, FirstActive, Left, Creating
<1>2. ASSUME NEW w \in Workflow, SaveRuleName(w) PROVE Opening'
  BY <1>1, <1>2 DEF SaveRuleName
<1>3. ASSUME NEW c \in Caller, Step(c) PROVE Opening'
  <2>1. PICK q : q = call[c]
    OBVIOUS
  <2>2. CallOK(c, q)
    BY <2>1 DEF Typed
  <2>3. ~Creating(Idle) /\ Unbilled(Idle)
    BY IdleShape DEF Is, Creating, Unbilled
  <2> DEFINE Quiet == /\ UNCHANGED Facts /\ active' \subseteq active
                      /\ ~excused /\ faults = instance.faults
  <2>4. Quiet => Opener
    BY DEF Opener
  <2>5. ASSUME Quiet, ~Creating(q), NEW r, Becomes(c, r), Unbilled(r), ~Creating(r)
        PROVE  Opening'
    BY <2>1, <2>4, <2>5, OpeningKept
  <2>6. CASE CreateSubscription(c)
    <3>1. faults = instance.faults
      BY <2>6 DEF CreateSubscription
    <3> QED
      BY <2>6, <3>1, OpeningCreate
  <2>7. CASE CancelSubscription(c)
    <3>1. faults = instance.faults /\ ~excused
      BY <2>7 DEF CancelSubscription
    <3> QED
      BY <1>0, <2>7, <3>1, OpeningCancel
  <2>8. CASE SaveUser(c)
    <3>1. faults = instance.faults
      BY <2>8 DEF SaveUser
    <3> QED
      BY <2>8, <3>1, OpeningSaveUser
  <2>9. CASE SaveOrganization(c)
    <3>1. faults = instance.faults
      BY <2>9 DEF SaveOrganization
    <3> QED
      BY <1>0, <2>9, <3>1, OpeningSaveOrganization
  <2>10. CASE SaveTriggerStatus(c)
    <3>1. faults = instance.faults
      BY <2>10 DEF SaveTriggerStatus
    <3> QED
      BY <1>0, <2>10, <3>1, OpeningSaveStatus
  <2>11. CASE SwitchKey(c)
    <3>1. faults = instance.faults
      BY <2>11 DEF SwitchKey
    <3> QED
      BY <1>0, <2>11, <3>1, OpeningSwitchKey
  <2>12. CASE Throw(c) \/ Swallow(c)
    BY <2>12, OneFault DEF Throw, Swallow
  <2>13. CASE List(c)
    <3>1. PICK r, p, t, b :
              /\ Becomes(c, r)
              /\ Is(r, p, q.kind, q.w, q.status, q.sub, q.rec, t, q.name, b)
              /\ \/ /\ p \in {"saveUser", "run"} /\ Closing(q) /\ t = q.todo /\ b = q.closed
                    /\ p = "run" => q.kind \in {"http", "timed"}
                 \/ p \in {"rule", "key"} /\ Names(t) = FirstActive /\ b
      BY <2>1, <2>13, ListMove
    <3>2. Quiet /\ q.pc = "list" /\ UNCHANGED trigger
      BY <2>1, <2>13 DEF List, At
    <3>3. CASE p \in {"saveUser", "run"} /\ Closing(q)
      <4>1. ~Creating(q) /\ ~Creating(r)
        BY <3>1, <3>3 DEF Is, Creating, Closing
      <4>2. Unbilled(r)
        BY <3>1, <3>3 DEF Is, Unbilled, Ending, Loop
      <4> QED
        BY <2>5, <3>1, <3>2, <4>1, <4>2
    <3>4. CASE p \in {"rule", "key"} /\ Names(t) = FirstActive
      <4>1. /\ r.kind = q.kind /\ r.sub = q.sub /\ r.pc \in {"key"} \union Loop
            /\ Left(r) = FirstActive
        BY <3>1, <3>4 DEF Is, Left, Loop
      <4> QED
        BY <2>1, <2>4, <3>1, <3>2, <4>1, OpeningLoop
    <3> QED
      BY <3>1, <3>3, <3>4
  <2>14. CASE SwitchListed(c) \/ GetWorkflow(c)
    <3>1. Quiet /\ q.pc \in {"rule", "get"}
      BY <2>1, <2>14 DEF SwitchListed, GetWorkflow, At
    <3>2. PICK r : /\ Becomes(c, r) /\ r.kind = q.kind /\ r.sub = q.sub /\ r.todo = q.todo
                   /\ r.pc \in {"get", "save"}
      <4>1. CASE SwitchListed(c)
        BY <2>1, <4>1, SwitchListedMove DEF Is
      <4>2. CASE GetWorkflow(c)
        BY <2>1, <4>2, GetWorkflowMove DEF Is
      <4> QED
        BY <2>14, <4>1, <4>2
    <3>3. Left(r) = Left(q) /\ r.pc \in {"key"} \union Loop /\ q.pc \in Loop
      BY <3>1, <3>2 DEF Left, Loop
    <3> QED
      BY <2>1, <2>4, <3>1, <3>2, <3>3, OpeningLoop
  <2>15. CASE SwitchRule(c)
    <3>1. Quiet /\ Becomes(c, NextWorkflow(q)) /\ q.pc = "switch"
      BY <2>1, <2>15 DEF SwitchRule, At, Becomes
    <3>2. CASE NextWorkflow(q) = Idle /\ q.kind \in {"open", "close"}
      <4>1. ~Creating(q)
        BY <3>2 DEF Creating
      <4> QED
        BY <2>3, <2>5, <3>1, <3>2, <4>1
    <3>3. CASE \E p, t : /\ Is(NextWorkflow(q), p, q.kind, q.w, q.status, q.sub, q.rec, t,
                               q.name, q.closed)
                         /\ p \in {"key", "rule"} /\ Names(t) = Names(Rest(q.todo))
      <4>1. PICK r : r = NextWorkflow(q)
        OBVIOUS
      <4>2. /\ Left(r) = Left(q) /\ r.kind = q.kind /\ r.sub = q.sub
            /\ r.pc \in {"key"} \union Loop /\ q.pc \in Loop
        BY <3>1, <3>3, <4>1 DEF Is, Left, Loop
      <4> QED
        BY <2>1, <2>4, <3>1, <4>1, <4>2, OpeningLoop
    <3> QED
      BY <2>2, <3>1, <3>2, <3>3, WorkflowDone
  <2>16. CASE \/ Trigger(c) \/ TimedTrigger(c) \/ Toggle(c) \/ Subscribe(c) \/ Cancel(c)
              \/ Deploy(c) \/ Delete(c)
    <3>1. Quiet
      <4>1. UNCHANGED <<Facts, active, excused, faults, instance>>
        BY <2>16 DEF Trigger, TimedTrigger, Toggle, Subscribe, Cancel, Deploy, Delete
      <4> QED
        BY <4>1
    <3>2. PICK r : /\ Becomes(c, r) /\ call[c].pc = "idle"
                   /\ \/ r.pc = "org" /\ r.kind \in {"http", "timed"}
                      \/ r.pc = "subscribe" /\ r.kind = "create"
                      \/ r.kind \in {"open", "close", "cancel", "deploy", "delete"}
      <4>1. CASE Trigger(c)
        BY <4>1, TriggerMove DEF Is
      <4>2. CASE TimedTrigger(c)
        BY <4>2, TimedMove DEF Is
      <4>3. CASE Toggle(c)
        BY <4>3, ToggleMove
      <4>4. CASE Subscribe(c) \/ Cancel(c)
        BY <4>4, AdminMove
      <4>5. CASE Deploy(c)
        BY <4>5, DeployMove
      <4>6. CASE Delete(c)
        BY <4>6, DeleteMove
      <4> QED
        BY <2>16, <4>1, <4>2, <4>3, <4>4, <4>5, <4>6
    <3>3. Unbilled(r) /\ ~Creating(r)
      BY <3>2 DEF Unbilled, Creating, Ending, Loop
    <3>4. ~Creating(q)
      BY <2>1, <3>2, IdleCarriesNothing DEF Creating
    <3> QED
      BY <2>5, <3>1, <3>2, <3>3, <3>4
  <2>17. CASE \/ GetOrganization(c) \/ CreateUsageRecord(c) \/ CheckLimit(c) \/ Refuse(c)
              \/ Run(c) \/ Reject(c) \/ PutRule(c) \/ PutTargets(c) \/ DeleteRule(c)
              \/ SaveDeleted(c)
    <3>1. Quiet
      <4>1. UNCHANGED <<Facts, faults, instance>>
        BY <2>17 DEF GetOrganization, CreateUsageRecord, CheckLimit, Refuse, Run, Reject,
                     PutRule, PutTargets, DeleteRule, SaveDeleted
      <4>2. active' \subseteq active
        BY <2>17 DEF GetOrganization, CreateUsageRecord, CheckLimit, Refuse, Run, Reject,
                     PutRule, PutTargets, DeleteRule, SaveDeleted
      <4>3. ~excused
        BY <2>17 DEF GetOrganization, CreateUsageRecord, CheckLimit, Refuse, Run, Reject,
                     PutRule, PutTargets, DeleteRule, SaveDeleted
      <4> QED
        BY <4>1, <4>2, <4>3
    <3>2. q.pc \in {"org", "report", "total", "run", "cancel", "rules", "targets", "gone",
                    "deleted"}
      BY <2>1, <2>17
         DEF GetOrganization, CreateUsageRecord, CheckLimit, Refuse, Run, Reject,
             PutRule, PutTargets, DeleteRule, SaveDeleted, At
    <3>3. q.kind # "create"
      BY <2>2, <3>2 DEF CallOK, KindOK, Ordering, Ending, Loop
    <3>4. PICK r : /\ Becomes(c, r)
                   /\ \/ r = Idle
                      \/ r.kind = q.kind /\ (r.pc \notin Ending \/ r.sub = NoSub)
                      \/ r.kind = "deploy"
      <4>1. CASE GetOrganization(c)
        <5>1. PICK r : Becomes(c, r) /\
                Is(r, IF org # NoSub THEN "report" ELSE "list", q.kind, q.w, q.status, org,
                   q.rec, q.todo, q.name, q.closed)
          BY <2>1, <4>1, GetOrganizationMove
        <5>2. r.kind = q.kind /\ (r.pc \notin Ending \/ r.sub = NoSub)
          BY <5>1 DEF Is, Ending, Loop
        <5> QED
          BY <5>1, <5>2
      <4>2. CASE CreateUsageRecord(c)
        BY <2>1, <4>2, CreateUsageRecordMove DEF Is, Ending, Loop
      <4>3. CASE CheckLimit(c)
        BY <2>1, <4>3, CheckLimitMove DEF Is, Ending, Loop
      <4>4. CASE Refuse(c) \/ Run(c) \/ Reject(c) \/ SaveDeleted(c)
        BY <2>1, <4>4, RefuseMove, RunMove, RejectMove, SaveDeletedMove
      <4>5. CASE PutRule(c)
        BY <2>1, <4>5, PutRuleMove
      <4>6. CASE PutTargets(c)
        BY <2>1, <4>6, PutTargetsMove
      <4>7. CASE DeleteRule(c)
        BY <2>1, <4>7, DeleteRuleMove DEF Is, Ending, Loop
      <4> QED
        BY <2>17, <4>1, <4>2, <4>3, <4>4, <4>5, <4>6, <4>7
    <3>5. ~Creating(q) /\ ~Creating(r) /\ Unbilled(r)
      BY <2>3, <3>3, <3>4 DEF Creating, Unbilled
    <3> QED
      BY <2>5, <3>1, <3>4, <3>5
  <2> QED
    BY <1>3, <2>6, <2>7, <2>8, <2>9, <2>10, <2>11, <2>12, <2>13, <2>14, <2>15, <2>16, <2>17
       DEF Step
<1>4. UNCHANGED vars => UNCHANGED <<Facts, active, excused, faults, instance, call>>
  BY DEF vars
<1> QED
  BY <1>1, <1>2, <1>3, <1>4 DEF Next

\* At the start nobody has subscribed.
LEMMA OpeningStart == Init => Owned /\ Opening
<1> SUFFICES ASSUME Init PROVE Owned /\ Opening
  OBVIOUS
<1>1. \A c \in Caller : call[c].kind = "none"
  BY IdleShape DEF Init, Is
<1>2. Admin \subseteq Caller /\ live = {}
  BY DEF Init, Caller
<1> QED
  BY <1>1, <1>2 DEF Owned, Opening, Creating

\* While an organization pays, nobody is at work, nothing failed and nobody closed
\* it rightfully, it is recorded and open: what the free executions closed was opened
\* again, whatever calls interleaved with createSubscription.
THEOREM PayingOrganizationIsOpen == Spec => []PaidIsOpen
<1>1. Init => Typed /\ Owned /\ Opening
  BY TypedStart, OpeningStart
<1>2. Typed /\ Owned /\ Opening /\ [Next]_vars => Typed' /\ Owned' /\ Opening'
  BY TypedNext, OwnedNext, OpeningNext
<1>3. Typed /\ Opening => PaidIsOpen
  <2> SUFFICES ASSUME Typed, Opening, AtRest, faults = instance.faults, ~excused, NEW s \in live
               PROVE  /\ org = s /\ \E a \in Admin : user[a].sub = s
                      /\ key /\ \A w \in active \ OtherPage : trigger[w] = "enabled"
    BY DEF PaidIsOpen
  <2>1. \A c \in Admin : ~Creating(call[c])
    BY IdleCarriesNothing DEF AtRest, At, Creating, Caller
  <2>2. IsOpen(s)
    BY <2>1 DEF Opening
  <2> QED
    BY <2>2 DEF IsOpen, AllOpen, FirstActive
<1> QED
  BY <1>1, <1>2, <1>3, PTL DEF Spec
=============================================================================
