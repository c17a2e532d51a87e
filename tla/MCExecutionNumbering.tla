------------------------ MODULE MCExecutionNumbering ------------------------
(***************************************************************************)
(* A few callers and numbers for the numbering of executions.               *)
(***************************************************************************)
EXTENDS ExecutionNumbering

CONSTANT MaxNumber

Numbers == 1 .. MaxNumber

\* The executions 1 .. t are shown once by the pages of either order.
ASSUME PagesShowAll ==
  \A t \in 0 .. 7, size \in 1 .. 4 : \A n \in 1 .. t :
    /\ Cardinality({p \in 1 .. 9 : n \in AscendingPage(t, p, size)}) = 1
    /\ Cardinality({p \in 1 .. 9 : n \in DescendingPage(t, p, size)}) = 1
==============================================================================
