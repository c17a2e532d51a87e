----------------------------- MODULE WorkflowDesign -----------------------------
(***************************************************************************)
(* How createWorkflow turns what a user drew into the steps of a version.     *)
(* A drawing has the activities (States) in order, the activity it starts at,  *)
(* and the elements of the canvas (Design): nodes and edges.  Activities name  *)
(* each other; steps refer to each other by AID.                              *)
(***************************************************************************)
EXTENDS Naturals, Sequences, FiniteSets, SequencesExt

Unset == "unset"

ActivityTypes == {"HTTP", "Email", "ManualApproval", "Condition"}

\* An activity: the names it leads to, and the ones its settings mention.
Activity(id, type, next, first, second, aid) ==
  [id |-> id, type |-> type, next |-> next, first |-> first, second |-> second, aid |-> aid]

Node(id) == [id |-> id, source |-> Unset, target |-> Unset]
Edge(a, b) == [id |-> a \o ">" \o b, source |-> a, target |-> b]

ActivityTypesExist(states) == \A i \in DOMAIN states : states[i].type \in ActivityTypes

\* The AID the client sent along, or a new one.
Aid(state, v) ==
  IF state.aid = Unset THEN <<"aid", state.id, v>> ELSE <<"aid", state.aid, 0>>

NoAid == <<"none", Unset, 0>>

\* What a setting holds before it is turned into an AID.
Named(name) == <<"name", name, 0>>

First(seq, Test(_)) == SelectSeq(seq, Test)[1]
Occurs(seq, Test(_)) == SelectSeq(seq, Test) # << >>

\* The canvas elements a step keeps: its node, its outgoing edges, and the
\* Start and End of the drawing when it is next to them.
GetDesign(design, state) ==
  LET IsNode(e) == e.id = state.id
      Leaves(e) == e.source = state.id
      IsStart(e) == e.id = "Start"
      IsEnd(e) == e.id = "End"
      FromStart(e) == e.source = "Start"
      ToEnd(e) == e.target = "End"
      Own == <<First(design, IsNode)>> \o SelectSeq(design, Leaves)
      Opening == IF Occurs(design, IsStart) /\ First(design, FromStart).target = state.id
                 THEN <<First(design, IsStart), First(design, FromStart)>> ELSE << >>
      Ending == IF Occurs(design, IsEnd) /\ First(design, ToEnd).source = state.id
                THEN <<First(design, IsEnd)>> ELSE << >>
  IN IF Occurs(design, IsNode) /\ Occurs(design, Leaves)
     THEN Own \o Opening \o Ending ELSE << >>

\* A Start without an edge or an End nothing leads to makes getDesign throw,
\* unless no activity of the drawing has a node and an edge.
DesignThrows(drawing) ==
  LET Has(id) == \E i \in DOMAIN drawing.design : drawing.design[i].id = id IN
  /\ \E i \in DOMAIN drawing.states :
       LET id == drawing.states[i].id IN
       Has(id) /\ \E j \in DOMAIN drawing.design : drawing.design[j].source = id
  /\ \/ Has("Start") /\ \A i \in DOMAIN drawing.design : drawing.design[i].source # "Start"
     \/ Has("End") /\ \A i \in DOMAIN drawing.design : drawing.design[i].target # "End"

\* The step of an activity as it is first stored; it leads nowhere yet.
NewStep(drawing, state, v) ==
  [aid |-> Aid(state, v), naid |-> {}, design |-> GetDesign(drawing.design, state),
   first |-> Named(state.first), second |-> Named(state.second)]

NewSteps(drawing, v) ==
  [id \in {drawing.states[i].id : i \in DOMAIN drawing.states} |->
     NewStep(drawing, CHOOSE s \in Range(drawing.states) : s.id = id, v)]

\* The AIDs of the steps an activity leads to.
NextAids(steps, state) == {steps[id].aid : id \in DOMAIN steps \cap state.next}

\* The approve and reject steps by AID; a name no step has is kept.
Approval(steps, state) ==
  LET AidOf(name) == IF name \in DOMAIN steps THEN steps[name].aid ELSE Named(name) IN
  [steps[state.id] EXCEPT !.first = AidOf(state.first), !.second = AidOf(state.second)]

\* The default and the chosen step by AID; a name no step has is dropped.
Conditional(steps, state) ==
  LET AidOf(name) == IF name \in DOMAIN steps THEN steps[name].aid ELSE NoAid IN
  [steps[state.id] EXCEPT !.first = AidOf(state.first), !.second = AidOf(state.second)]

\* What getWorkflowVersionDetails gives back: the canvas of all the steps, in
\* the order the steps are read (here the order of the activities).
Details(drawing, steps) ==
  FlattenSeq([i \in DOMAIN drawing.states |-> steps[drawing.states[i].id].design])

---------------------------------------------------------------------------
(* What a version has to be. *)

\* Every activity leads to exactly the activities drawn after it, its settings
\* name them by AID, and the whole canvas comes back once.
Whole(drawing, steps) ==
  /\ \A s \in Range(drawing.states) :
       /\ steps[s.id].naid = {steps[id].aid : id \in s.next}
       /\ s.type \in {"ManualApproval", "Condition"} =>
            /\ steps[s.id].first = steps[s.first].aid
            /\ steps[s.id].second = steps[s.second].aid
  /\ Range(Details(drawing, steps)) = Range(drawing.design)
  /\ Len(Details(drawing, steps)) = Len(drawing.design)
=============================================================================
