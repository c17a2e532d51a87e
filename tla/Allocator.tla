------------------------------- MODULE Allocator -------------------------------
(***************************************************************************)
(* What the numbering of executions promises: a number is granted to one    *)
(* caller at a time, and is free again only when its record is deleted.     *)
(***************************************************************************)
CONSTANTS Caller, Number

VARIABLE granted  \* the numbers in use -> the caller each was granted to

Init == granted = << >>

Grant ==
  \E c \in Caller, n \in Number \ DOMAIN granted :
    granted' = [k \in DOMAIN granted \union {n} |-> IF k = n THEN c ELSE granted[k]]

Withdraw ==
  \E n \in DOMAIN granted :
    granted' = [k \in DOMAIN granted \ {n} |-> granted[k]]

Spec == Init /\ [][Grant \/ Withdraw]_granted
==============================================================================
