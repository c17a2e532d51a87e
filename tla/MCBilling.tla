------------------------------- MODULE MCBilling -------------------------------
(* An organization that subscribes and cancels while its HTTP trigger is      *)
(* called, and one whose timed triggers are deployed, opened and closed while  *)
(* their rules fire. *)
EXTENDS Billing, TLC

CONSTANTS h1, h2, k, a, e1, e2, w1, w2, w3, ra, rb, rc

Https == {h1, h2}
Consumers == {k}
Admins == {a}
Editors == {e1, e2}

Page == <<w1, w3>>
Others == {w2}

\* Two versions of one workflow, the first with two next steps.
Deployed == w1 :> << <<ra, rb>>, <<rc>> >> @@ w2 :> << >> @@ w3 :> << >>

\* The callers of each instance and how often they call.
Calls(f) == [c \in Caller |-> IF c \in DOMAIN f THEN f[c] ELSE 0]

Paying == [calls |-> Calls(h1 :> 2 @@ h2 :> 1 @@ a :> 2), called |-> {w1},
           executions |-> 3, limit |-> {}, faults |-> 0]

Limited == [calls |-> Calls(h1 :> 3 @@ a :> 2), called |-> {w1, w2},
            executions |-> 3, limit |-> {2}, faults |-> 1]

Scheduled == [calls |-> Calls(k :> 1 @@ e1 :> 2 @@ e2 :> 1), called |-> {w1},
              executions |-> 4, limit |-> {}, faults |-> 0]

Failing == [calls |-> Calls(k :> 2 @@ e1 :> 2), called |-> {w1, w3},
            executions |-> 3, limit |-> {}, faults |-> 1]

InstanceSet == {Paying, Limited, Scheduled, Failing}
=============================================================================
