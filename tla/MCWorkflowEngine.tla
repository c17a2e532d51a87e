--------------------------- MODULE MCWorkflowEngine ---------------------------
(***************************************************************************)
(* Small workflows for the step engine, and the properties that speak about *)
(* one of them.                                                             *)
(***************************************************************************)
EXTENDS WorkflowEngine

CONSTANTS Consumers, Throws, Crashes, Losses, Users, Messages, Executions

Budgets == [throws |-> Throws, crashes |-> Crashes, losses |-> Losses, users |-> Users]
Msgs == 1 .. Messages
Execs == 1 .. Executions

NoFunction == [s \in {} |-> None]

-------------------------------------------------------------------------------
\* A step, then two branches; one of them forks again.
NestedStep == {"a", "fork", "b", "fork2", "c", "d", "join2", "join", "after", "end"}
NestedT == [s \in NestedStep |->
  CASE s \in {"fork", "fork2"} -> "Parallel Start"
    [] s \in {"join", "join2"} -> "Parallel End"
    [] s = "end"               -> "End"
    [] OTHER                   -> "Action"]
NestedNext == [s \in NestedStep |->
  CASE s = "a"     -> <<"fork">>
    [] s = "fork"  -> <<"b", "fork2">>
    [] s = "b"     -> <<"join">>
    [] s = "fork2" -> <<"c", "d">>
    [] s = "c"     -> <<"join2">>
    [] s = "d"     -> <<"join2">>
    [] s = "join2" -> <<"join">>
    [] s = "join"  -> <<"after">>
    [] s = "after" -> <<"end">>
    [] s = "end"   -> << >>]
NestedFirst == <<"a">>

\* How many branches are open at each step; there is no loop.
NestedDepth == [s \in NestedStep |->
  CASE s \in {"b", "fork2", "join"} -> 1
    [] s \in {"c", "d", "join2"}    -> 2
    [] OTHER                        -> 0]
NestedLoops == [s \in NestedStep |-> {}]

\* This workflow is one that the theorems about joins speak of.
ASSUME NestedIsWellNested ==
  Step = NestedStep => WellNested(NestedDepth, NestedLoops)

\* Three branches of one step each.
FlatStep == {"fork", "b", "c", "d", "join", "after"}
FlatT == [s \in FlatStep |->
  CASE s = "fork"  -> "Parallel Start"
    [] s = "join"  -> "Parallel End"
    [] OTHER       -> "Action"]
FlatNext == [s \in FlatStep |->
  CASE s = "fork"              -> <<"b", "c", "d">>
    [] s \in {"b", "c", "d"}   -> <<"join">>
    [] s = "join"              -> <<"after">>
    [] OTHER                   -> << >>]
FlatFirst == <<"fork">>

\* A step, then two branches, of two steps and of one.
PairStep == {"a"} \union FlatStep
PairT == [s \in PairStep |-> IF s = "a" THEN "Action" ELSE FlatT[s]]
PairNext == [s \in PairStep |->
  CASE s = "a"    -> <<"fork">>
    [] s = "fork" -> <<"b", "c">>
    [] s = "b"    -> <<"d">>
    [] OTHER      -> FlatNext[s]]
PairFirst == <<"a">>

-------------------------------------------------------------------------------
\* A condition leads to one step of every other kind.
MixedStep ==
  {"choose", "stop", "ignore", "exit", "other", "loop", "body", "again", "left",
   "sub", "inner", "innerEnd", "resumed", "approve", "ask", "wait", "good", "bad", "end"}
MixedT == [s \in MixedStep |->
  CASE s = "choose"                               -> "Condition"
    [] s \in {"stop", "ignore", "exit", "other"} -> "Web Service"
    [] s = "loop"                                 -> "Start Loop"
    [] s = "again"                                -> "End Loop"
    [] s = "sub"                                  -> "SubWorkflow"
    [] s = "approve"                              -> "Manual Approval"
    [] s = "ask"                                  -> "External"
    [] s = "wait"                                 -> "Delay"
    [] s \in {"end", "innerEnd"}                  -> "End"
    [] OTHER                                      -> "Action"]
MixedNext == [s \in MixedStep |->
  CASE s = "choose" -> <<"stop", "ignore", "exit", "other", "loop", "sub",
                         "approve", "ask", "wait">>
    [] s \in {"stop", "exit", "other", "approve"} -> <<"good", "bad">>
    [] s = "ignore" -> <<"good">>
    [] s = "loop"   -> <<"body">>
    [] s = "body"   -> <<"again">>
    [] s = "again"  -> <<"left">>
    [] s = "inner"  -> <<"innerEnd">>
    [] s = "sub"    -> <<"resumed">>
    [] s \in {"end", "innerEnd"} -> << >>
    [] OTHER        -> <<"end">>]
MixedFirst == <<"choose">>
MixedNLoop == [s \in {"loop"} |-> 3]
MixedErrorAction == [stop |-> "STOP", ignore |-> "IGNORE", exit |-> "EXIT-PATH",
                     other |-> "CONTINUE"]
MixedDefaultNext == [s \in {"stop", "ignore", "exit", "other"} |-> "bad"]
MixedSubFirst == [s \in {"sub"} |-> <<"inner">>]
MixedOnDecision == [s \in {"approve"} |-> [approve |-> "good", reject |-> "bad"]]

\* The same without the sub-workflow.
AloneStep == MixedStep \ {"sub", "inner", "innerEnd", "resumed"}
AloneNext == [s \in AloneStep |->
  IF s = "choose"
  THEN <<"stop", "ignore", "exit", "other", "loop", "approve", "ask", "wait">>
  ELSE MixedNext[s]]

-------------------------------------------------------------------------------
\* The steps that lead to each step.
Upstream ==
  LET Before(S) == {p \in Step : ToSet(NAID[p]) \cap S # {}}
  IN [s \in Step |->
        LET up[n \in Nat] ==
              IF n = 0 THEN Before({s})
              ELSE LET u == up[n - 1] IN u \union Before(u)
        IN up[Cardinality(Step)]]

\* In a workflow without choices, a step's activity reads a state that holds
\* the result of every step on the way to it, on all branches: no concurrent
\* save of STE has dropped one.
ResultsVisible ==
  \A c \in Consumer : At(c, "perform") /\ Here(c) # "Parallel End" =>
    {p \in Upstream[Body(c).step] : Produces(p)} \subseteq worker[c].ste
==============================================================================
