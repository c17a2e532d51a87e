--------------------------- MODULE MCWorkflowRegistry ---------------------------
(* Two users create workflows and versions; three batches are searched while   *)
(* two users fill them. *)
EXTENDS WorkflowRegistry, TLC

CONSTANTS p, q

Callers == {p, q}

Names == {"orders", "orders-eu", "bills", "stock"}
NamePrefixes == {<<n, n>> : n \in Names} \union {<<"orders", "orders-eu">>}

Canvas(ids, edges) ==
  <<Node("Start"), Edge("Start", ids[1])>> \o [i \in DOMAIN ids |-> Node(ids[i])]
    \o edges \o <<Node("End")>>

Approve == [start |-> "a",
  states |-> <<Activity("a", "HTTP", {"b"}, Unset, Unset, Unset),
               Activity("b", "ManualApproval", {"c", "d"}, "c", "d", Unset),
               Activity("c", "Email", {}, Unset, Unset, Unset),
               Activity("d", "Email", {}, Unset, Unset, Unset)>>,
  design |-> Canvas(<<"a", "b", "c", "d">>,
    <<Edge("a", "b"), Edge("b", "c"), Edge("b", "d"), Edge("c", "End"), Edge("d", "End")>>)]

\* The client sends the AID of the trigger along.
Choose == [start |-> "a",
  states |-> <<Activity("a", "HTTP", {"b"}, Unset, Unset, "kept"),
               Activity("b", "Condition", {"c", "a"}, "c", "a", Unset),
               Activity("c", "Email", {}, Unset, Unset, Unset)>>,
  design |-> Canvas(<<"a", "b", "c">>,
    <<Edge("a", "b"), Edge("b", "c"), Edge("b", "a"), Edge("c", "End")>>)]

Unknown == [start |-> "a",
  states |-> <<Activity("a", "Telegram", {}, Unset, Unset, Unset)>>,
  design |-> Canvas(<<"a">>, <<Edge("a", "End")>>)]

\* Nothing leads to the End.
Open == [start |-> "a",
  states |-> <<Activity("a", "HTTP", {"b"}, Unset, Unset, Unset),
               Activity("b", "Email", {}, Unset, Unset, Unset)>>,
  design |-> Canvas(<<"a", "b">>, <<Edge("a", "b")>>)]

DrawingSet == {Approve, Choose, Unknown, Open}

Versioning == [calls |-> p :> 2 @@ q :> 1, batches |-> 1, workflows |-> {},
               names |-> {"orders"}, drawings |-> {Approve, Choose}, faults |-> 0]

Failing == [calls |-> p :> 2 @@ q :> 0, batches |-> 1, workflows |-> {},
            names |-> {"orders"}, drawings |-> DrawingSet, faults |-> 1]

\* The last batch is full.
Filling == [calls |-> p :> 2 @@ q :> 2, batches |-> 3, workflows |-> {<<1, "bills">>, <<3, "orders-eu">>},
            names |-> Names, drawings |-> {Unknown}, faults |-> 0]

InstanceSet == {Versioning, Failing, Filling}
=============================================================================
