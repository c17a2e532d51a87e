----------------------------- MODULE MCIntegrations -----------------------------
(***************************************************************************)
(* What the activities need to reach other systems.  The two services share   *)
(* no state, so that a behaviour is of one of them: the plan without kinds     *)
(* leaves the handlers idle while two tasks and three flows obtain the tokens  *)
(* of four clients that differ in grant and provider; the others leave the     *)
(* logins alone, for the queries of every driver by two handlers and for every *)
(* small input of Matching Data.                                               *)
(***************************************************************************)
EXTENDS OAuthLogin, DataActivities, TLC

CONSTANTS t1, t2, f1, f2, f3, xero, shopify, square, custom, none, w1, w2

Tasks == {t1, t2}
Flows == {f1, f2, f3}
Clients == {xero, shopify, square, custom}
Grants == xero :> "pkce" @@ shopify :> "code" @@ square :> "credentials" @@ custom :> "password"
Echoing == {xero, square, custom}
Rotates == {xero}
Seeds == {xero}

Workers == {w1, w2}

Two == 1 .. 2
Short(n) == UNION {[1 .. m -> Row] : m \in 0 .. n}
SmallLists == {<<a, c>> : a \in Short(2), c \in Short(2)}
              \union {<<a, b, c>> : a \in Short(2), b \in Short(1), c \in Short(2)}
              \union {<<a, b, b, c>> : a \in Short(1), b \in Short(1), c \in Short(1)}

LoggingIn == [kinds |-> {}, activities |-> 0]
Querying == [kinds |-> {"query"}, activities |-> 4]
Comparing == [kinds |-> {"matching"}, activities |-> 1]
AllPlans == {LoggingIn, Querying, Comparing}

\* {{a.b}} and {{getInvoices.response.body}}
Lengths == {7, 31}

IntegrationsInit == Init /\ DataInit

IntegrationsNext ==
  \/ plan = LoggingIn /\ Next /\ UNCHANGED dataVars
  \/ plan # LoggingIn /\ DataNext /\ UNCHANGED vars

IntegrationsSpec == IntegrationsInit /\ [][IntegrationsNext]_<<vars, dataVars>>

Symmetry == Permutations(Tasks) \union Permutations(Flows) \union Permutations(Workers)
=============================================================================
