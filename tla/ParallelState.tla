---------------------------- MODULE ParallelState ----------------------------
(***************************************************************************)
(* The PARALLEL list of a workflow execution and the parallelIndex /        *)
(* parallelIndexes fields of a step message: the pure part of               *)
(* Workflow.updateParallelStatus and Workflow.updateParallelFinished.       *)
(*                                                                          *)
(* Indices are shifted by one: index 1 here is index 0 of the code, which   *)
(* is also the value a message without a parallelIndex is given.            *)
(***************************************************************************)
EXTENDS Naturals, Sequences, FiniteSets

ParallelEntry == [active: BOOLEAN, total: Nat, finished: Nat]

DefaultIndex == 1

\* Mutant of Fork: the last branch is not counted.
ForkShort(P, branches) ==
  Append(P, [active |-> TRUE, total |-> branches - 1, finished |-> 0])

\* Parallel Start pushes an entry that counts one branch per next activity.
Fork(P, branches) ==
  Append(P, [active |-> TRUE, total |-> branches, finished |-> 0])

\* Parallel End counts the branch it ends; an unknown index changes nothing.
Arrive(P, i) == [P EXCEPT ![i].finished = @ + 1]

\* Mutants of JoinReady: one branch too early; the first branch decides; the
\* flag is ignored and the count compared with >=.
JoinReadyEarly(P, i) == P[i].active /\ P[i].finished + 1 >= P[i].total
JoinReadyFirst(P, i) == P[i].active
JoinReadyAgain(P, i) == P[i].finished >= P[i].total

\* The test that decides whether the step after the Parallel End is emitted.
JoinReady(P, i) == P[i].active /\ P[i].finished = P[i].total

\* The join is closed before its successor is emitted.
Complete(P, i) == [P EXCEPT ![i].active = FALSE]

\* Mutant of Enclosing: the scope that was joined is kept.
EnclosingKept(idxs, i) == idxs

\* The scopes that enclose scope i, outermost first.
Enclosing(idxs, i) ==
  LET kept == {k \in DOMAIN idxs : idxs[k] # i}
      upTo(k) == Cardinality({j \in kept : j <= k})
  IN [n \in 1 .. Cardinality(kept) |-> idxs[CHOOSE k \in kept : upTo(k) = n]]

\* parallelIndex after a join: the innermost remaining scope, or the default.
Innermost(idxs) == IF idxs = << >> THEN DefaultIndex ELSE idxs[Len(idxs)]
==============================================================================
