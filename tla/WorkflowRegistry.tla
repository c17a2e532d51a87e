---------------------------- MODULE WorkflowRegistry ----------------------------
(***************************************************************************)
(* The workflows of one organization: createWorkflow, which looks a name up    *)
(* in all batches with two concurrent loops, opens a new batch when the last   *)
(* is full, and then writes the workflow, a version, its steps, their links     *)
(* and the two first-step references one after the other; and the search for   *)
(* workflows.  A batch is a partition of the table and a name is unique only   *)
(* within one.                                                                *)
(***************************************************************************)
EXTENDS WorkflowDesign

CONSTANTS
  Caller,     \* the users creating and searching workflows
  Name,       \* the workflow names
  Begins,     \* the pairs <<search, name>> where name begins with search
  BatchLimit, \* the workflows a batch should have
  Drawings,   \* what users draw
  Instances,  \* the instances explored: [calls, batches, workflows, names,
              \*   drawings, faults]
  MaxVersion  \* the bound on versions

ASSUME RegistryAssumption ==
  /\ BatchLimit \in Nat \ {0} /\ MaxVersion \in Nat
  /\ \A d \in Instances : /\ d.calls \in [Caller -> Nat] /\ d.batches \in Nat \ {0}
                          /\ d.workflows \subseteq (1..d.batches) \X Name
                          /\ d.names \subseteq Name /\ d.drawings \subseteq Drawings
                          /\ d.faults \in Nat

VARIABLES
  instance,   \* the instance
  calls,      \* the calls each caller may still make
  faults,     \* the awaits that may still reject
  call,       \* what each caller is doing
  batches,    \* TotalWLFBatches of the organization
  workflows,  \* <<batch, name>> -> the first step the triggers start at
  versions,   \* the versions, in the order of their creation
  steps,      \* version -> its steps by activity
  overtaken   \* history: a number of batches was saved over another one

tables == <<batches, workflows, versions, steps>>
vars == <<instance, calls, faults, call, tables, overtaken>>

NoKey == <<0, "none">>

Idle == [pc |-> "idle", kind |-> "none", name |-> "none", drawing |-> {}, total |-> 0,
         left |-> << >>, right |-> << >>, searched |-> 0, matched |-> {}, known |-> {},
         key |-> NoKey, number |-> 0, v |-> 0, todo |-> {}]

At(c, p) == call[c].pc = p
Goto(c, pc) == call' = [call EXCEPT ![c].pc = pc]
Finish(c) == call' = [call EXCEPT ![c] = Idle]
NothingStored == UNCHANGED <<instance, calls, faults, tables, overtaken>>

Init ==
  /\ instance \in Instances
  /\ calls = instance.calls /\ faults = instance.faults
  /\ call = [c \in Caller |-> Idle]
  /\ batches = instance.batches
  /\ workflows = [k \in instance.workflows |-> NoAid]
  /\ versions = << >> /\ steps = << >>
  /\ overtaken = FALSE

Begin(c, r) ==
  /\ At(c, "idle") /\ calls[c] > 0
  /\ calls' = [calls EXCEPT ![c] = @ - 1]
  /\ call' = [call EXCEPT ![c] = r]
  /\ UNCHANGED <<instance, faults, tables, overtaken>>

---------------------------------------------------------------------------
(* The search, by two loops that each read half of the batches. *)

\* Mutant of Searching: the second loop starts one batch too late.
SearchingShort(r) ==
  LET half == batches \div 2
      Loop(a, b) == [i \in 1..(b + 1 - a) |-> a + i - 1] IN
  [r EXCEPT !.total = batches, !.searched = 0,
            !.left = IF batches > 1 THEN Loop(1, half) ELSE <<1>>,
            !.right = IF batches > 1 THEN Loop(half + 2, batches) ELSE << >>,
            !.known = {k \in DOMAIN workflows : k[1] <= batches}]

\* The batches the two loops have to read, and what is stored in them now.
Searching(r) ==
  LET half == batches \div 2
      Loop(a, b) == [i \in 1..(b + 1 - a) |-> a + i - 1] IN
  [r EXCEPT !.total = batches, !.searched = 0,
            !.left = IF batches > 1 THEN Loop(1, half) ELSE <<1>>,
            !.right = IF batches > 1 THEN Loop(half + 1, batches) ELSE << >>,
            !.known = {k \in DOMAIN workflows : k[1] <= batches}]

\* A loop that has read its last batch resolves the search when both have.
LoopEnds(r) == r.searched + 1 = 2 \/ r.total = 1

\* getWorkflowByName: one batch is read; the first hit answers.
LookUp(c, side) ==
  LET r == call[c]
      hit == <<Head(r[side]), r.name>> \in DOMAIN workflows IN
  /\ At(c, "search") /\ r.kind = "create" /\ r[side] # << >>
  /\ call' = [call EXCEPT ![c] =
       IF hit THEN Idle
       ELSE IF Len(r[side]) > 1 THEN [r EXCEPT ![side] = Tail(@)]
       ELSE IF LoopEnds(r) THEN [r EXCEPT !.pc = "count", ![side] = << >>]
       ELSE [r EXCEPT !.searched = @ + 1, ![side] = << >>]]
  /\ NothingStored

\* searchWorklowsWithFilter: all batches are read, the matches are collected.
Filter(c, side) ==
  LET r == call[c]
      found == r.matched \union
               {k \in DOMAIN workflows : k[1] = Head(r[side]) /\ <<r.name, k[2]>> \in Begins} IN
  /\ At(c, "search") /\ r.kind = "search" /\ r[side] # << >>
  /\ call' = [call EXCEPT ![c] =
       IF Len(r[side]) > 1 THEN [r EXCEPT ![side] = Tail(@), !.matched = found]
       ELSE IF LoopEnds(r) THEN [r EXCEPT !.pc = "answer", ![side] = << >>, !.matched = found]
       ELSE [r EXCEPT !.searched = @ + 1, ![side] = << >>, !.matched = found]]
  /\ NothingStored

Answer(c) == At(c, "answer") /\ Finish(c) /\ NothingStored

GetWorkflowsOfAnOrg(c) ==
  \E s \in {p[1] : p \in Begins} :
    Begin(c, Searching([Idle EXCEPT !.pc = "search", !.kind = "search", !.name = s]))

---------------------------------------------------------------------------
(* createWorkflow. *)

CreateWorkflow(c) ==
  \E n \in instance.names, d \in instance.drawings :
    Begin(c, Searching([Idle EXCEPT !.pc = "search", !.kind = "create", !.name = n,
                                    !.drawing = d, !.number = 1]))

\* A new version: its number is one more than the versions there are.
CreateNextVersion(c) ==
  \E k \in DOMAIN workflows, d \in instance.drawings :
    Begin(c, [Idle EXCEPT !.pc = "types", !.kind = "create", !.name = k[2],
                          !.drawing = d, !.key = k,
                          !.number = Cardinality({i \in DOMAIN versions : versions[i].key = k}) + 1])

InBatch(b) == {k \in DOMAIN workflows : k[1] = b}

CountBatch(c) ==
  LET full == Cardinality(InBatch(call[c].total)) >= BatchLimit IN
  /\ At(c, "count")
  /\ call' = [call EXCEPT ![c].pc = IF full THEN "batches" ELSE "create",
                          ![c].total = IF full THEN @ + 1 ELSE @]
  /\ NothingStored

\* Mutant of SaveBatches: the number is not saved.
KeepBatches(c) ==
  /\ At(c, "batches")
  /\ Goto(c, "create")
  /\ NothingStored

SaveBatches(c) ==
  /\ At(c, "batches")
  /\ batches' = call[c].total
  /\ overtaken' = (overtaken \/ batches # call[c].total - 1)
  /\ Goto(c, "create")
  /\ UNCHANGED <<instance, calls, faults, workflows, versions, steps>>

\* Mutant of Create: the steps are written for a workflow of the first batch.
CreateInFirst(c) ==
  LET k == <<call[c].total, call[c].name>> IN
  /\ At(c, "create")
  /\ IF k \in DOMAIN workflows
     THEN Finish(c) /\ UNCHANGED workflows
     ELSE /\ workflows' = [x \in DOMAIN workflows \union {k} |->
                             IF x = k THEN NoAid ELSE workflows[x]]
          /\ call' = [call EXCEPT ![c].pc = "types", ![c].key = <<1, call[c].name>>]
  /\ UNCHANGED <<instance, calls, faults, batches, versions, steps, overtaken>>

\* The create is conditional: a key that exists makes it throw.
Create(c) ==
  LET k == <<call[c].total, call[c].name>> IN
  /\ At(c, "create")
  /\ IF k \in DOMAIN workflows
     THEN Finish(c) /\ UNCHANGED workflows
     ELSE /\ workflows' = [x \in DOMAIN workflows \union {k} |->
                             IF x = k THEN NoAid ELSE workflows[x]]
          /\ call' = [call EXCEPT ![c].pc = "types", ![c].key = k]
  /\ UNCHANGED <<instance, calls, faults, batches, versions, steps, overtaken>>

\* An unknown activity type throws, with the workflow already there.
CheckTypes(c) ==
  /\ At(c, "types")
  /\ IF ActivityTypesExist(call[c].drawing.states) THEN Goto(c, "version") ELSE Finish(c)
  /\ NothingStored

CreateVersion(c) ==
  LET r == call[c] IN
  /\ At(c, "version") /\ Len(versions) < MaxVersion
  /\ versions' = Append(versions, [key |-> r.key, number |-> r.number,
                                   drawing |-> r.drawing, faid |-> NoAid])
  /\ steps' = Append(steps, << >>)
  /\ call' = [call EXCEPT ![c] =
       IF DesignThrows(r.drawing) THEN Idle
       ELSE [r EXCEPT !.pc = "steps", !.v = Len(versions')]]
  /\ UNCHANGED <<instance, calls, faults, batches, workflows, overtaken>>

\* The places of the activities that are saved again, in their order.
OfType(drawing, type) == {i \in DOMAIN drawing.states : drawing.states[i].type = type}
Leading(drawing) == {i \in DOMAIN drawing.states : drawing.states[i].next # {}}

\* Mutant of Phase: the first step is referenced as soon as the steps are linked.
PhaseEarly(r) == IF r.todo # {} THEN r ELSE [r EXCEPT !.pc = "versionFaid"]

\* Where the call goes on once its list of activities is done.
Phase(r) ==
  LET approvals == OfType(r.drawing, "ManualApproval")
      conditions == OfType(r.drawing, "Condition") IN
  IF r.todo # {} THEN r
  ELSE IF r.pc = "links" /\ approvals # {}
       THEN [r EXCEPT !.pc = "approvals", !.todo = approvals]
  ELSE IF r.pc # "conditions" /\ conditions # {}
       THEN [r EXCEPT !.pc = "conditions", !.todo = conditions]
  ELSE [r EXCEPT !.pc = "versionFaid"]

CreateSteps(c) ==
  LET r == call[c] IN
  /\ At(c, "steps")
  /\ steps' = [steps EXCEPT ![r.v] = NewSteps(r.drawing, r.v)]
  /\ call' = [call EXCEPT ![c] = Phase([r EXCEPT !.pc = "links", !.todo = Leading(r.drawing)])]
  /\ UNCHANGED <<instance, calls, faults, batches, workflows, versions, overtaken>>

\* The step and the state of the drawing that is saved next.
Pending(c) == call[c].drawing.states[Min(call[c].todo)]
Stored(c) == steps[call[c].v]

SaveStep(c, pc, step) ==
  LET r == call[c] IN
  /\ At(c, pc)
  /\ steps' = [steps EXCEPT ![r.v][Pending(c).id] = step]
  /\ call' = [call EXCEPT ![c] = Phase([r EXCEPT !.todo = @ \ {Min(@)}])]
  /\ UNCHANGED <<instance, calls, faults, batches, workflows, versions, overtaken>>

LinkStep(c) ==
  SaveStep(c, "links", [Stored(c)[Pending(c).id] EXCEPT !.naid = NextAids(Stored(c), Pending(c))])

SaveApproval(c) == SaveStep(c, "approvals", Approval(Stored(c), Pending(c)))

SaveConditional(c) == SaveStep(c, "conditions", Conditional(Stored(c), Pending(c)))

Faid(r) == Aid(CHOOSE s \in Range(r.drawing.states) : s.id = r.drawing.start, r.v)

SaveVersionFaid(c) ==
  LET r == call[c] IN
  /\ At(c, "versionFaid")
  /\ versions' = [versions EXCEPT ![r.v].faid = Faid(r)]
  /\ Goto(c, "workflowFaid")
  /\ UNCHANGED <<instance, calls, faults, batches, workflows, steps, overtaken>>

\* The triggers of the workflow start at this version from now on.
SaveWorkflowFaid(c) ==
  LET r == call[c] IN
  /\ At(c, "workflowFaid")
  /\ workflows' = [workflows EXCEPT ![r.key] = Faid(r)]
  /\ Finish(c)
  /\ UNCHANGED <<instance, calls, faults, batches, versions, steps, overtaken>>

\* An await rejects, unprocessed steps of the batch are reported, or the task
\* stops: the call ends where it is.
Fail(c) ==
  /\ faults > 0 /\ faults' = faults - 1
  /\ ~At(c, "idle")
  /\ Finish(c)
  /\ UNCHANGED <<instance, calls, tables, overtaken>>

Step(c) ==
  \/ CreateWorkflow(c) \/ CreateNextVersion(c) \/ GetWorkflowsOfAnOrg(c)
  \/ \E side \in {"left", "right"} : LookUp(c, side) \/ Filter(c, side)
  \/ Answer(c) \/ CountBatch(c) \/ SaveBatches(c) \/ Create(c) \/ CheckTypes(c)
  \/ CreateVersion(c) \/ CreateSteps(c) \/ LinkStep(c) \/ SaveApproval(c)
  \/ SaveConditional(c) \/ SaveVersionFaid(c) \/ SaveWorkflowFaid(c) \/ Fail(c)

Next == \E c \in Caller : Step(c)

Spec == Init /\ [][Next]_vars

---------------------------------------------------------------------------
\* The state is well formed, and every version and every caller that is past
\* the creation of its workflow belongs to a stored workflow.
TypeOK ==
  /\ batches \in Nat \ {0}
  /\ DOMAIN workflows \subseteq (Nat \ {0}) \X Name
  /\ DOMAIN steps = DOMAIN versions
  /\ \A i \in DOMAIN versions : versions[i].key \in DOMAIN workflows
  /\ \A c \in Caller :
       /\ call[c].pc \in {"types", "version", "steps", "links", "approvals", "conditions",
                          "versionFaid", "workflowFaid"} => call[c].key \in DOMAIN workflows
       /\ call[c].todo # {} <=> call[c].pc \in {"links", "approvals", "conditions"}

\* The two loops of a search together miss nothing that was stored when the
\* search began: no call goes on to create a name it should have found
\* (getWorkflowByName), and a filter's answer has every match
\* (searchWorklowsWithFilter).
SearchMissesNothing ==
  \A c \in Caller :
    LET r == call[c] IN
    /\ At(c, "count") => \A k \in r.known : k[2] # r.name
    /\ At(c, "answer") => {k \in r.known : <<r.name, k[2]>> \in Begins} \subseteq r.matched

\* Every workflow lies in a batch the organization counts, so that it can be
\* found again, unless a caller saved a number of batches that others had
\* changed since it read it.
StoredIsReachable ==
  ~overtaken => \A k \in DOMAIN workflows : k[1] <= batches

\* The step the triggers of a workflow start at belongs to a version that is
\* whole: all links, approvals, conditions and the canvas as drawn.  (With
\* an AID the client sent along, versions share it and a trigger can find the
\* step of any of them: trigger, getWorkflowStepByAid.)
TriggersAreWhole ==
  \A k \in DOMAIN workflows, v \in DOMAIN versions :
    LET d == versions[v].drawing IN
    /\ workflows[k] # NoAid
    /\ \E id \in DOMAIN steps[v] : steps[v][id].aid = workflows[k] /\ workflows[k][3] = v
    => Whole(d, steps[v])
=============================================================================
