------------------------------ MODULE OAuthProofs ------------------------------
(***************************************************************************)
(* Proofs about logins and refreshes, for any tasks, flows, clients, grants,   *)
(* providers and restarts: what a login needs is still there unless the login    *)
(* was disturbed, and so a token is stored for the client it was issued to.       *)
(***************************************************************************)
EXTENDS OAuthLogin, TLAPS

TokenSet == [owner : Client, n : Nat]

Shape ==
  /\ DOMAIN flow = Flow
  /\ clientIssuer \in [Task -> Client \union {None}]
  /\ testClient \in [Task -> Client \union {None}]
  /\ codeVerifier \in [Task -> Flow \union {None}]
  /\ token \in [Client -> TokenSet \union {None}]
  /\ issued \in Nat

Fields == {"pc", "client", "task", "issuer", "verifier", "target", "from", "got", "disturbed"}

Returning == {"consent", "callback"}
Storing == {"find", "create", "update"}

\* A refresh under way, with a token; a client without one is refused.
Refreshes(r) == r.pc \in {"refresh", "save"} \/ (r.pc = "ask" /\ r.from # None)

\* A token k at client x is its own, or a login of its owner was disturbed.
Explained(x, k) ==
  k.owner # x => /\ k.owner \notin Echo
                 /\ \E g \in Flow : flow[g].client = k.owner /\ flow[g].disturbed

\* What is known of a flow by where it is.
FlowType(r) ==
  /\ Fields \subseteq DOMAIN r /\ r.disturbed \in BOOLEAN
  /\ r.pc = "idle" => ~r.disturbed
  /\ r.pc # "idle" => r.client \in Client /\ r.task \in Task

\* A login that nobody disturbed finds what it left.
Kept(f, r) ==
  /\ r.pc \in Returning /\ ~r.disturbed =>
       /\ clientIssuer[r.task] = r.client /\ codeVerifier[r.task] = f
       /\ testClient[r.task] = r.client
  /\ r.pc = "exchange" /\ ~r.disturbed =>
       /\ r.issuer = r.client /\ r.verifier = f
       /\ testClient[r.task] = r.client
  /\ r.pc = "lost" => r.disturbed

\* The token a flow is about to store has a reason to go where it goes.
Carries(r) ==
  /\ r.pc \in {"connect", "grant"} => r.target = r.client
  /\ r.pc \in Storing =>
       /\ r.got \in TokenSet /\ r.target \in Client /\ r.got.owner = r.client
       /\ r.target # r.client => r.client \notin Echo /\ r.disturbed
  /\ Refreshes(r) =>
       r.from \in TokenSet /\ r.target = r.client /\ Explained(r.client, r.from)
  /\ r.pc = "save" => r.got \in TokenSet /\ Explained(r.client, r.got)
  /\ r.pc = "error" => r.target \in Client /\ token[r.target] # None

Good(f) == FlowType(flow[f]) /\ Kept(f, flow[f]) /\ Carries(flow[f])

LoginInv ==
  /\ Shape
  /\ \A f \in Flow : Good(f)
  /\ \A x \in Client : token[x] # None => Explained(x, token[x])

-------------------------------------------------------------------------------
(* Steps of one flow that leave the fields of the tasks alone. *)

\* No flow forgets that it was disturbed, or whose login it is.
Remembers ==
  \A g \in Flow : flow[g].disturbed => flow'[g].disturbed /\ flow'[g].client = flow[g].client

LEMMA StillExplained ==
  ASSUME Remembers, NEW x, NEW k, Explained(x, k) PROVE Explained(x, k)'
  BY DEF Remembers, Explained

\* Tokens are never removed.
TokensStay == \A x \in Client : token[x] # None => token'[x] # None

LEMMA OneFlow ==
  ASSUME LoginInv, NEW f \in Flow, NEW r, flow' = [flow EXCEPT ![f] = r],
         UNCHANGED service, TokensStay, Shape',
         FlowType(r), Kept(f, r), Carries(flow[f])',
         flow[f].disturbed => r.disturbed /\ r.client = flow[f].client,
         \A x \in Client : token'[x] # None /\ token'[x] # token[x] => Explained(x, token[x])'
  PROVE  LoginInv'
<1>1. flow'[f] = r /\ \A g \in Flow \ {f} : flow'[g] = flow[g]
  BY DEF LoginInv, Shape
<1>2. Remembers
  BY <1>1 DEF Remembers
<1>3. ASSUME NEW g \in Flow PROVE Good(g)'
  <2>1. CASE g = f
    <3>1. FlowType(flow[f])' /\ Kept(f, flow[f])'
      BY <1>1 DEF FlowType, Kept, service
    <3> QED
      BY <2>1, <3>1 DEF Good
  <2>2. CASE g # f
    <3>1. flow'[g] = flow[g] /\ Good(g)
      BY <1>1, <2>2 DEF LoginInv
    <3>2. FlowType(flow[g])' /\ Kept(g, flow[g])'
      BY <3>1 DEF Good, FlowType, Kept, service
    <3>3. Carries(flow[g])'
      <4>1. \A x, k : Explained(x, k) => Explained(x, k)'
        BY <1>2, StillExplained
      <4> QED
        BY <3>1, <4>1 DEF Good, Carries, TokensStay
    <3> QED
      BY <3>2, <3>3 DEF Good
  <2> QED
    BY <2>1, <2>2
<1>4. ASSUME NEW x \in Client, token'[x] # None PROVE Explained(x, token[x])'
  <2>1. CASE token'[x] = token[x]
    <3>1. Explained(x, token[x])
      BY <1>4, <2>1 DEF LoginInv
    <3> QED
      BY <1>2, <2>1, <3>1, StillExplained DEF Explained, Remembers
  <2> QED
    BY <1>4, <2>1
<1> QED
  BY <1>3, <1>4 DEF LoginInv

\* The same for a step that leaves the tokens alone too.
LEMMA OneFlowOnly ==
  ASSUME LoginInv, NEW f \in Flow, NEW r, flow' = [flow EXCEPT ![f] = r],
         UNCHANGED <<service, token>>, issued' \in Nat,
         FlowType(r), Kept(f, r), Carries(r),
         flow[f].disturbed => r.disturbed /\ r.client = flow[f].client
  PROVE  LoginInv'
<1>1. flow'[f] = r /\ \A g \in Flow \ {f} : flow'[g] = flow[g]
  BY DEF LoginInv, Shape
<1>2. Remembers
  BY <1>1 DEF Remembers
<1>3. Shape'
  BY DEF LoginInv, Shape, service
<1>4. Carries(flow[f])'
  <2>1. \A x, k : Explained(x, k) => Explained(x, k)'
    BY <1>2, StillExplained
  <2> QED
    BY <1>1, <2>1 DEF Carries
<1> QED
  BY <1>3, <1>4, OneFlow DEF TokensStay

LEMMA TokenIsTyped == ASSUME NEW x \in Client, NEW n \in Nat
                      PROVE  Token(x, n) \in TokenSet /\ Token(x, n).owner = x
  BY DEF Token, TokenSet

LEMMA NoneIsNoToken == None \notin TokenSet /\ None \notin Client /\ None \notin Flow
  BY OAuthAssumption DEF TokenSet

LEMMA ConnectKeeps == ASSUME LoginInv, NEW f \in Flow, Connect(f) PROVE LoginInv'
<1>1. PICK x \in Client, t \in Task :
        flow' = [flow EXCEPT ![f] = [Idle EXCEPT !.pc = "connect", !.kind = "login",
                                                 !.client = x, !.task = t, !.target = x]]
  BY DEF Connect
<1> DEFINE r == [Idle EXCEPT !.pc = "connect", !.kind = "login",
                             !.client = x, !.task = t, !.target = x]
<1>2. FlowType(r) /\ r.pc = "connect"
  BY DEF FlowType, Idle, Fields
<1>5. r.target = r.client
  BY DEF Idle
<1>3. ~flow[f].disturbed
  BY DEF LoginInv, Good, FlowType, Connect, At
<1> HIDE DEF r
<1>4. Kept(f, r) /\ Carries(r)
  BY <1>2, <1>5 DEF Kept, Carries, Returning, Storing, Refreshes
<1> QED
  BY <1>1, <1>2, <1>3, <1>4, OneFlowOnly DEF Connect, LoginInv, Shape, provider, r

LEMMA GrantKeeps == ASSUME LoginInv, NEW f \in Flow, GrantToken(f) PROVE LoginInv'
<1> DEFINE q == flow[f]
           k == Token(q.client, issued + 1)
           r == [q EXCEPT !.pc = "find", !.got = k]
<1>1. Good(f) /\ q.pc = "grant" /\ flow' = [flow EXCEPT ![f] = r]
  BY DEF GrantToken, LoginInv, At
<1>2. k \in TokenSet /\ k.owner = q.client
  BY <1>1, TokenIsTyped DEF LoginInv, Shape, Good, FlowType
<1> HIDE DEF k
<1>3. FlowType(r) /\ Kept(f, r) /\ Carries(r) /\ r.disturbed = q.disturbed /\ r.client = q.client
  BY <1>1, <1>2 DEF Good, FlowType, Fields, Kept, Carries, Returning, Storing, Refreshes
<1>4. issued' \in Nat
  BY DEF GrantToken, Issue, LoginInv, Shape
<1> HIDE DEF r
<1> QED
  BY <1>1, <1>3, <1>4, OneFlowOnly DEF GrantToken

LEMMA ConsentKeeps == ASSUME LoginInv, NEW f \in Flow, Consent(f) PROVE LoginInv'
<1> DEFINE q == flow[f]
<1>1. PICK t \in Task :
        flow' = [flow EXCEPT ![f].pc = "callback", ![f].task = t,
                             ![f].disturbed = @ \/ t # flow[f].task]
  BY DEF Consent
<1> DEFINE r == [q EXCEPT !.pc = "callback", !.task = t, !.disturbed = @ \/ t # q.task]
<1>2. Good(f) /\ q.pc = "consent" /\ flow' = [flow EXCEPT ![f] = r]
  BY <1>1 DEF Consent, LoginInv, At, Shape
<1>3. /\ r.pc = "callback" /\ r.task = t /\ r.client = q.client
      /\ r.disturbed = (q.disturbed \/ t # q.task) /\ Fields \subseteq DOMAIN r
  BY <1>2 DEF Good, FlowType, Fields
<1> HIDE DEF r
<1>4. FlowType(r)
  BY <1>2, <1>3 DEF Good, FlowType
<1>5. Kept(f, r) /\ Carries(r)
  BY <1>2, <1>3 DEF Good, FlowType, Kept, Carries, Returning, Storing, Refreshes
<1> QED
  BY <1>2, <1>3, <1>4, <1>5, OneFlowOnly DEF Consent, LoginInv, Shape, provider

LEMMA CallbackKeeps == ASSUME LoginInv, NEW f \in Flow, Callback(f) PROVE LoginInv'
<1> DEFINE q == flow[f]
           t == q.task
           r == [q EXCEPT !.pc = IF clientIssuer[t] = None THEN "lost" ELSE "exchange",
                          !.issuer = clientIssuer[t], !.verifier = codeVerifier[t]]
<1>1. Good(f) /\ q.pc = "callback" /\ flow' = [flow EXCEPT ![f] = r]
  BY DEF Callback, LoginInv, At, Shape
<1>2. /\ r.pc = IF clientIssuer[t] = None THEN "lost" ELSE "exchange"
      /\ r.task = t /\ r.client = q.client /\ r.disturbed = q.disturbed
      /\ r.issuer = clientIssuer[t] /\ r.verifier = codeVerifier[t]
      /\ Fields \subseteq DOMAIN r
  BY <1>1 DEF Good, FlowType, Fields
<1> HIDE DEF r
<1>3. FlowType(r)
  BY <1>1, <1>2 DEF Good, FlowType
<1>4. Kept(f, r) /\ Carries(r)
  BY <1>1, <1>2, NoneIsNoToken DEF Good, FlowType, Kept, Carries, Returning, Storing, Refreshes
<1> QED
  BY <1>1, <1>2, <1>3, <1>4, OneFlowOnly DEF Callback, LoginInv, Shape, provider

LEMMA ExchangeKeeps == ASSUME LoginInv, NEW f \in Flow, OAuthCallback(f) PROVE LoginInv'
<1> DEFINE q == flow[f]
<1>1. Good(f) /\ q.pc = "exchange"
  BY DEF OAuthCallback, LoginInv, At
<1>2. CASE Accepted(f)
  <2> DEFINE k == Token(q.client, issued + 1)
             r == [q EXCEPT !.pc = IF Target(q) = None THEN "lost" ELSE "find",
                            !.target = Target(q), !.got = k]
  <2>1. flow' = [flow EXCEPT ![f] = r] /\ issued' \in Nat
    BY <1>2 DEF OAuthCallback, Issue, LoginInv, Shape
  <2>2. k \in TokenSet /\ k.owner = q.client
    BY <1>1, TokenIsTyped DEF LoginInv, Shape, Good, FlowType
  <2> HIDE DEF k
  <2>3. /\ r.pc = IF Target(q) = None THEN "lost" ELSE "find"
        /\ r.task = q.task /\ r.client = q.client /\ r.disturbed = q.disturbed
        /\ r.target = Target(q) /\ r.got = k /\ Fields \subseteq DOMAIN r
    BY <1>1 DEF Good, FlowType, Fields
  <2> HIDE DEF r
  <2>4. FlowType(r)
    BY <1>1, <2>3 DEF Good, FlowType
  <2>5. Target(q) \in Client \union {None}
        /\ (Target(q) # q.client => q.client \notin Echo /\ q.disturbed)
    BY <1>1 DEF Target, Good, FlowType, Kept, LoginInv, Shape
  <2>6. Kept(f, r) /\ Carries(r)
    BY <1>1, <2>2, <2>3, <2>5, NoneIsNoToken
       DEF Good, FlowType, Kept, Carries, Returning, Storing, Refreshes
  <2> QED
    BY <2>1, <2>3, <2>4, <2>6, OneFlowOnly DEF OAuthCallback
<1>3. CASE ~Accepted(f)
  <2> DEFINE r == [q EXCEPT !.pc = "lost"]
  <2>1. flow' = [flow EXCEPT ![f] = r] /\ issued' \in Nat
    BY <1>3 DEF OAuthCallback, LoginInv, Shape, provider
  <2>2. /\ r.pc = "lost" /\ r.task = q.task /\ r.client = q.client
        /\ r.disturbed = q.disturbed /\ Fields \subseteq DOMAIN r
    BY <1>1 DEF Good, FlowType, Fields
  <2>3. q.disturbed
    BY <1>1, <1>3 DEF Accepted, Good, FlowType, Kept
  <2> HIDE DEF r
  <2>4. FlowType(r) /\ Kept(f, r) /\ Carries(r)
    BY <1>1, <2>2, <2>3 DEF Good, FlowType, Kept, Carries, Returning, Storing, Refreshes
  <2> QED
    BY <2>1, <2>2, <2>4, OneFlowOnly DEF OAuthCallback
<1> QED
  BY <1>2, <1>3

LEMMA FindKeeps == ASSUME LoginInv, NEW f \in Flow, FindToken(f) PROVE LoginInv'
<1> DEFINE q == flow[f]
           r == [q EXCEPT !.pc = IF token[q.target] = None THEN "create" ELSE "update"]
<1>1. Good(f) /\ q.pc = "find" /\ flow' = [flow EXCEPT ![f] = r]
  BY DEF FindToken, LoginInv, At, Shape
<1>2. /\ r.pc \in {"create", "update"}
      /\ r.task = q.task /\ r.client = q.client /\ r.disturbed = q.disturbed
      /\ r.target = q.target /\ r.got = q.got /\ Fields \subseteq DOMAIN r
  BY <1>1 DEF Good, FlowType, Fields
<1> HIDE DEF r
<1>3. FlowType(r)
  BY <1>1, <1>2 DEF Good, FlowType
<1>4. Kept(f, r) /\ Carries(r)
  BY <1>1, <1>2 DEF Good, Kept, Carries, Returning, Storing, Refreshes
<1> QED
  BY <1>1, <1>2, <1>3, <1>4, OneFlowOnly DEF FindToken, LoginInv, Shape, provider

\* A flow that stores its token and is done.
LEMMA StoreKeeps ==
  ASSUME LoginInv, NEW f \in Flow, NEW x \in Client,
         Store(x, flow[f].got), flow' = [flow EXCEPT ![f].pc = "done"],
         UNCHANGED <<service, provider>>, flow[f].pc # "idle",
         flow[f].got \in TokenSet, Explained(x, flow[f].got)
  PROVE  LoginInv'
<1> DEFINE q == flow[f]
           r == [q EXCEPT !.pc = "done"]
<1>1. Good(f) /\ flow' = [flow EXCEPT ![f] = r] /\ token' = [token EXCEPT ![x] = q.got]
  BY DEF LoginInv, Shape, Store
<1>2. /\ r.pc = "done" /\ r.task = q.task /\ r.client = q.client
      /\ r.disturbed = q.disturbed /\ Fields \subseteq DOMAIN r
  BY <1>1 DEF Good, FlowType, Fields
<1> HIDE DEF r
<1>3. flow'[f] = r /\ \A g \in Flow \ {f} : flow'[g] = flow[g]
  BY <1>1 DEF LoginInv, Shape
<1>4. Remembers
  BY <1>2, <1>3 DEF Remembers
<1>5. FlowType(r) /\ Kept(f, r) /\ Carries(flow[f])'
  <2>1. FlowType(r) /\ Kept(f, r)
    BY <1>1, <1>2 DEF Good, FlowType, Kept, Returning
  <2>2. Carries(flow[f])'
    BY <1>2, <1>3 DEF Carries, Storing, Refreshes
  <2> QED
    BY <2>1, <2>2
<1>6. Shape'
  BY <1>1 DEF LoginInv, Shape, service, provider
<1>7. TokensStay
  BY <1>1, NoneIsNoToken DEF TokensStay, LoginInv, Shape
<1>8. \A y \in Client : token'[y] # None /\ token'[y] # token[y] => Explained(y, token[y])'
  <2>1. SUFFICES ASSUME NEW y \in Client, token'[y] # token[y] PROVE Explained(y, token[y])'
    OBVIOUS
  <2>2. y = x /\ token'[y] = q.got
    BY <1>1, <2>1 DEF LoginInv, Shape
  <2> QED
    BY <1>4, <2>2 DEF Explained, Remembers
<1> QED
  BY <1>1, <1>2, <1>5, <1>6, <1>7, <1>8, OneFlow

LEMMA UpdateKeeps == ASSUME LoginInv, NEW f \in Flow, UpdateToken(f) PROVE LoginInv'
<1>1. Good(f) /\ flow[f].pc = "update"
  BY DEF UpdateToken, LoginInv, At
<1>2. flow[f].got \in TokenSet /\ flow[f].target \in Client
      /\ Explained(flow[f].target, flow[f].got)
  BY <1>1 DEF Good, Carries, Storing, Explained
<1> QED
  BY <1>1, <1>2, StoreKeeps DEF UpdateToken

LEMMA CreateKeeps == ASSUME LoginInv, NEW f \in Flow, CreateToken(f) PROVE LoginInv'
<1> DEFINE q == flow[f]
<1>1. Good(f) /\ q.pc = "create"
  BY DEF CreateToken, LoginInv, At
<1>2. q.got \in TokenSet /\ q.target \in Client /\ Explained(q.target, q.got)
  BY <1>1 DEF Good, Carries, Storing, Explained
<1>3. CASE token[q.target] = None
  BY <1>1, <1>2, <1>3, StoreKeeps DEF CreateToken
<1>4. CASE token[q.target] # None
  <2> DEFINE r == [q EXCEPT !.pc = "error"]
  <2>1. flow' = [flow EXCEPT ![f] = r] /\ token' = token /\ UNCHANGED <<service, provider>>
    BY <1>4 DEF CreateToken
  <2>2. /\ r.pc = "error" /\ r.task = q.task /\ r.client = q.client /\ r.target = q.target
        /\ r.disturbed = q.disturbed /\ Fields \subseteq DOMAIN r
    BY <1>1 DEF Good, FlowType, Fields
  <2> HIDE DEF r
  <2>3. FlowType(r) /\ Kept(f, r) /\ Carries(r)
    BY <1>1, <1>2, <1>4, <2>2 DEF Good, FlowType, Kept, Carries, Returning, Storing, Refreshes
  <2> QED
    BY <2>1, <2>2, <2>3, OneFlowOnly DEF LoginInv, Shape, provider
<1> QED
  BY <1>3, <1>4

-------------------------------------------------------------------------------
(* Refreshes. *)

LEMMA ReadKeeps == ASSUME LoginInv, NEW f \in Flow, ReadToken(f) PROVE LoginInv'
<1>1. PICK x \in Client, t \in Task :
        flow' = [flow EXCEPT ![f] = [Idle EXCEPT !.pc = "ask", !.kind = "refresh",
                   !.client = x, !.task = t, !.target = x, !.from = token[x]]]
  BY DEF ReadToken
<1> DEFINE r == [Idle EXCEPT !.pc = "ask", !.kind = "refresh",
                   !.client = x, !.task = t, !.target = x, !.from = token[x]]
<1>2. /\ r.pc = "ask" /\ r.task = t /\ r.client = x /\ r.target = x /\ r.from = token[x]
      /\ r.disturbed = FALSE /\ Fields \subseteq DOMAIN r
  BY DEF Idle, Fields
<1>3. ~flow[f].disturbed
  BY DEF LoginInv, Good, FlowType, ReadToken, At
<1> HIDE DEF r
<1>4. FlowType(r) /\ Kept(f, r) /\ Carries(r)
  BY <1>1, <1>2 DEF FlowType, Kept, Carries, Returning, Storing, Refreshes, LoginInv, Shape
<1> QED
  BY <1>1, <1>3, <1>4, OneFlowOnly DEF ReadToken, LoginInv, Shape, provider, r

LEMMA RefreshKeeps == ASSUME LoginInv, NEW f \in Flow, Refresh(f) PROVE LoginInv'
<1> DEFINE q == flow[f]
           new == Token(q.client, issued + 1)
<1>1. Good(f) /\ q.pc = "refresh" /\ q.client \in Client
  BY DEF Refresh, LoginInv, At, Good, FlowType
<1>2. new \in TokenSet /\ new.owner = q.client
  BY <1>1, TokenIsTyped DEF LoginInv, Shape
<1>3. /\ issued' \in Nat /\ UNCHANGED <<service, token>>
      /\ \/ flow' = [flow EXCEPT ![f] = [q EXCEPT !.pc = "save", !.got = new]]
         \/ flow' = [flow EXCEPT ![f] = [q EXCEPT !.pc = "save", !.got = q.from]]
         \/ flow' = [flow EXCEPT ![f] = [q EXCEPT !.pc = "refused"]]
  <2>1. issued' \in Nat /\ UNCHANGED <<service, token>>
    BY DEF Refresh, Issue, LoginInv, Shape, provider
  <2>2. \/ flow' = [flow EXCEPT ![f].pc = "save", ![f].got = new]
        \/ flow' = [flow EXCEPT ![f].pc = "save", ![f].got = q.from]
        \/ flow' = [flow EXCEPT ![f].pc = "refused"]
    BY DEF Refresh
  <2> QED
    BY <2>1, <2>2
<1> HIDE DEF new
<1>4. ASSUME NEW k, k \in TokenSet, Explained(q.client, k),
             flow' = [flow EXCEPT ![f] = [q EXCEPT !.pc = "save", !.got = k]]
      PROVE  LoginInv'
  <2> DEFINE r == [q EXCEPT !.pc = "save", !.got = k]
  <2>1. /\ r.pc = "save" /\ r.task = q.task /\ r.client = q.client /\ r.target = q.target
        /\ r.from = q.from /\ r.got = k
        /\ r.disturbed = q.disturbed /\ Fields \subseteq DOMAIN r
    BY <1>1 DEF Good, FlowType, Fields
  <2> HIDE DEF r
  <2>2. FlowType(r) /\ Kept(f, r)
    BY <1>1, <2>1 DEF Good, FlowType, Kept, Returning
  <2>3. Carries(r)
    BY <1>1, <1>4, <2>1 DEF Good, Carries, Storing, Refreshes
  <2> QED
    BY <1>3, <1>4, <2>1, <2>2, <2>3, OneFlowOnly DEF r
<1>5. CASE flow' = [flow EXCEPT ![f] = [q EXCEPT !.pc = "refused"]]
  <2> DEFINE r == [q EXCEPT !.pc = "refused"]
  <2>1. /\ r.pc = "refused" /\ r.task = q.task /\ r.client = q.client
        /\ r.disturbed = q.disturbed /\ Fields \subseteq DOMAIN r
    BY <1>1 DEF Good, FlowType, Fields
  <2> HIDE DEF r
  <2>2. FlowType(r) /\ Kept(f, r) /\ Carries(r)
    BY <1>1, <2>1 DEF Good, FlowType, Kept, Carries, Returning, Storing, Refreshes
  <2> QED
    BY <1>3, <1>5, <2>1, <2>2, OneFlowOnly DEF r
<1>6. Explained(q.client, new)
  BY <1>2 DEF Explained
<1>7. q.from \in TokenSet /\ Explained(q.client, q.from)
  BY <1>1 DEF Good, Carries, Refreshes
<1> QED
  BY <1>2, <1>3, <1>4, <1>5, <1>6, <1>7

LEMMA SaveKeeps == ASSUME LoginInv, NEW f \in Flow, SaveRefreshed(f) PROVE LoginInv'
<1>1. Good(f) /\ flow[f].pc = "save"
  BY DEF SaveRefreshed, LoginInv, At
<1>2. flow[f].got \in TokenSet /\ flow[f].client \in Client
      /\ Explained(flow[f].client, flow[f].got)
  BY <1>1 DEF Good, Carries, FlowType
<1> QED
  BY <1>1, <1>2, StoreKeeps DEF SaveRefreshed

-------------------------------------------------------------------------------
(* Steps that overwrite the fields of a task. *)

\* Others keep all but the mark of having been disturbed.
Others(f, t) ==
  \A g \in Flow \ {f} :
    flow'[g] = [flow[g] EXCEPT !.disturbed = @ \/ Waiting(g, t)]

LEMMA Overwritten ==
  ASSUME LoginInv, NEW f \in Flow, NEW t \in Task, NEW r, Overwrite(f, t, r),
         \A u \in Task \ {t} : /\ clientIssuer'[u] = clientIssuer[u]
                               /\ codeVerifier'[u] = codeVerifier[u]
                               /\ testClient'[u] = testClient[u],
         Shape', token' = token,
         FlowType(r), Kept(f, flow[f])', Carries(r),
         flow[f].disturbed => r.disturbed /\ r.client = flow[f].client
  PROVE  LoginInv'
<1>1. flow'[f] = r /\ Others(f, t)
  BY DEF Overwrite, LoginInv, Shape, Others
<1>2. ASSUME NEW g \in Flow \ {f}
      PROVE  /\ Fields \subseteq DOMAIN flow'[g]
             /\ \A x \in Fields \ {"disturbed"} : flow'[g][x] = flow[g][x]
             /\ flow'[g].disturbed = (flow[g].disturbed \/ Waiting(g, t))
             /\ flow'[g].disturbed \in BOOLEAN
  BY <1>1 DEF Others, LoginInv, Good, FlowType, Fields
<1>3. ASSUME NEW g \in Flow \ {f}
      PROVE  /\ flow'[g].pc = flow[g].pc /\ flow'[g].client = flow[g].client
             /\ flow'[g].task = flow[g].task /\ flow'[g].issuer = flow[g].issuer
             /\ flow'[g].verifier = flow[g].verifier /\ flow'[g].target = flow[g].target
             /\ flow'[g].from = flow[g].from /\ flow'[g].got = flow[g].got
  BY <1>2 DEF Fields
<1>4. Remembers
  BY <1>1, <1>2, <1>3 DEF Remembers
<1>5. \A x, k : Explained(x, k) => Explained(x, k)'
  BY <1>4, StillExplained
<1>6. ASSUME NEW g \in Flow PROVE Good(g)'
  <2>1. CASE g = f
    <3>1. FlowType(flow[f])' /\ Kept(f, flow[f])'
      BY <1>1 DEF FlowType
    <3>2. Carries(flow[f])'
      BY <1>1, <1>5 DEF Carries
    <3> QED
      BY <2>1, <3>1, <3>2 DEF Good
  <2>2. CASE g # f
    <3>1. Good(g)
      BY DEF LoginInv
    <3>2. FlowType(flow[g])'
      BY <1>2, <1>3, <2>2, <3>1 DEF Good, FlowType, Waiting
    <3>3. Kept(g, flow[g])'
      <4>1. CASE flow[g].task = t
        BY <1>2, <1>3, <2>2, <3>1, <4>1 DEF Good, Kept, Waiting, Returning
      <4>2. CASE flow[g].task # t
        BY <1>2, <1>3, <2>2, <3>1, <4>2 DEF Good, FlowType, Kept, Waiting, Returning
      <4> QED
        BY <4>1, <4>2
    <3>4. Carries(flow[g])'
      BY <1>2, <1>3, <1>5, <2>2, <3>1 DEF Good, Carries, Refreshes
    <3> QED
      BY <3>2, <3>3, <3>4 DEF Good
  <2> QED
    BY <2>1, <2>2
<1>7. ASSUME NEW x \in Client, token'[x] # None PROVE Explained(x, token[x])'
  <2>1. Explained(x, token[x])
    BY <1>7 DEF LoginInv
  <2> QED
    BY <1>4, <2>1 DEF Explained, Remembers
<1> QED
  BY <1>6, <1>7 DEF LoginInv

LEMMA GetClientKeeps == ASSUME LoginInv, NEW f \in Flow, GetClient(f) PROVE LoginInv'
<1> DEFINE q == flow[f]
           r == [q EXCEPT !.pc = IF Browser(q.client) THEN "consent" ELSE "grant"]
<1>1. Good(f) /\ q.pc = "connect" /\ Overwrite(f, q.task, r)
  BY DEF GetClient, LoginInv, At
<1>2. q.client \in Client /\ q.task \in Task
  BY <1>1 DEF Good, FlowType
<1>3. /\ r.pc = IF Browser(q.client) THEN "consent" ELSE "grant"
      /\ r.task = q.task /\ r.client = q.client /\ r.target = q.target
      /\ r.disturbed = q.disturbed /\ Fields \subseteq DOMAIN r
  BY <1>1 DEF Good, FlowType, Fields
<1> HIDE DEF r
<1>4. /\ clientIssuer' = [clientIssuer EXCEPT ![q.task] = q.client]
      /\ testClient' = [testClient EXCEPT ![q.task] = q.client]
      /\ codeVerifier' = IF Browser(q.client) THEN [codeVerifier EXCEPT ![q.task] = f]
                         ELSE codeVerifier
  BY DEF GetClient
<1>5. flow'[f] = r /\ DOMAIN flow' = Flow
  BY <1>1 DEF Overwrite
<1>6. Shape'
  BY <1>2, <1>4, <1>5 DEF GetClient, LoginInv, Shape, provider
<1>7. FlowType(r) /\ Carries(r)
  BY <1>1, <1>3 DEF Good, FlowType, Carries, Storing, Refreshes
<1>8. Kept(f, flow[f])'
  BY <1>2, <1>3, <1>4, <1>5 DEF Kept, Returning, LoginInv, Shape
<1>9. \A u \in Task \ {q.task} : /\ clientIssuer'[u] = clientIssuer[u]
                                  /\ codeVerifier'[u] = codeVerifier[u]
                                  /\ testClient'[u] = testClient[u]
  BY <1>4 DEF LoginInv, Shape
<1>10. token' = token
  BY DEF GetClient
<1> QED
  BY <1>1, <1>2, <1>3, <1>6, <1>7, <1>8, <1>9, <1>10, Overwritten

LEMMA AskKeeps == ASSUME LoginInv, NEW f \in Flow, AskRefresh(f) PROVE LoginInv'
<1> DEFINE q == flow[f]
           r == [q EXCEPT !.pc = IF q.from = None THEN "refused" ELSE "refresh"]
<1>1. Good(f) /\ q.pc = "ask" /\ Overwrite(f, q.task, r)
  BY DEF AskRefresh, LoginInv, At
<1>2. q.client \in Client /\ q.task \in Task
  BY <1>1 DEF Good, FlowType
<1>3. /\ r.pc = IF q.from = None THEN "refused" ELSE "refresh"
      /\ r.task = q.task /\ r.client = q.client /\ r.target = q.target
      /\ r.from = q.from /\ r.disturbed = q.disturbed /\ Fields \subseteq DOMAIN r
  BY <1>1 DEF Good, FlowType, Fields
<1> HIDE DEF r
<1>4. /\ clientIssuer' = [clientIssuer EXCEPT ![q.task] = q.client]
      /\ UNCHANGED <<testClient, codeVerifier, token, issued>>
  BY DEF AskRefresh, provider
<1>5. flow'[f] = r /\ DOMAIN flow' = Flow
  BY <1>1 DEF Overwrite
<1>6. Shape'
  BY <1>2, <1>4, <1>5 DEF LoginInv, Shape
<1>7. FlowType(r) /\ Carries(r) /\ Kept(f, flow[f])'
  BY <1>1, <1>3, <1>5 DEF Good, FlowType, Carries, Kept, Returning, Storing, Refreshes
<1>8. \A u \in Task \ {q.task} : /\ clientIssuer'[u] = clientIssuer[u]
                                  /\ codeVerifier'[u] = codeVerifier[u]
                                  /\ testClient'[u] = testClient[u]
  BY <1>4 DEF LoginInv, Shape
<1> QED
  BY <1>1, <1>2, <1>3, <1>4, <1>6, <1>7, <1>8, Overwritten

\* Whoever waits for the fields of the task is disturbed; whoever it handles is killed.
LEMMA RestartKeeps == ASSUME LoginInv, NEW t \in Task, Restart(t) PROVE LoginInv'
<1> DEFINE dying == {f \in Flow : /\ flow[f].task = t
                                  /\ flow[f].pc \notin Ended \union {"idle", "consent"}}
<1>1. /\ clientIssuer' = [clientIssuer EXCEPT ![t] = None]
      /\ codeVerifier' = [codeVerifier EXCEPT ![t] = None]
      /\ testClient' = [testClient EXCEPT ![t] = None]
      /\ token' = [x \in Client |-> IF x \in Seeded THEN Seed(x) ELSE token[x]]
      /\ issued' = issued
      /\ flow' = [f \in Flow |->
                    IF f \in dying THEN [flow[f] EXCEPT !.pc = "killed"]
                    ELSE [flow[f] EXCEPT !.disturbed = @ \/ Waiting(f, t)]]
  BY DEF Restart, provider
<1>2. ASSUME NEW f \in Flow
      PROVE  /\ Fields \subseteq DOMAIN flow'[f]
             /\ \A x \in Fields \ {"disturbed", "pc"} : flow'[f][x] = flow[f][x]
             /\ flow'[f].disturbed \in BOOLEAN
             /\ flow[f].disturbed => flow'[f].disturbed
             /\ IF f \in dying THEN flow'[f].pc = "killed"
                ELSE /\ flow'[f].pc = flow[f].pc
                     /\ flow'[f].disturbed = (flow[f].disturbed \/ Waiting(f, t))
  <2>1. Fields \subseteq DOMAIN flow[f] /\ flow[f].disturbed \in BOOLEAN
    BY DEF LoginInv, Good, FlowType
  <2> HIDE DEF dying
  <2>2. CASE f \in dying
    BY <1>1, <2>1, <2>2 DEF Fields
  <2>3. CASE f \notin dying
    BY <1>1, <2>1, <2>3 DEF Fields
  <2> QED
    BY <2>2, <2>3
<1>3. ASSUME NEW f \in Flow
      PROVE  /\ flow'[f].client = flow[f].client
             /\ flow'[f].task = flow[f].task /\ flow'[f].issuer = flow[f].issuer
             /\ flow'[f].verifier = flow[f].verifier /\ flow'[f].target = flow[f].target
             /\ flow'[f].from = flow[f].from /\ flow'[f].got = flow[f].got
  BY <1>2 DEF Fields
<1>4. \A x \in Client : Seed(x) \in TokenSet /\ Seed(x).owner = x /\ Seed(x) # None
  BY TokenIsTyped, NoneIsNoToken DEF Seed
<1>5. Shape'
  BY <1>1, <1>4 DEF LoginInv, Shape
<1>6. Remembers
  BY <1>2, <1>3 DEF Remembers
<1>7. \A x, k : Explained(x, k) => Explained(x, k)'
  BY <1>6, StillExplained
<1>8. \A x \in Client : token[x] # None => token'[x] # None
  BY <1>1, <1>4
<1>9. ASSUME NEW f \in Flow PROVE Good(f)'
  <2>1. Good(f)
    BY DEF LoginInv
  <2>2. FlowType(flow[f])'
    BY <1>2, <1>3, <2>1 DEF Good, FlowType, Waiting, Ended
  <2>3. CASE f \in dying
    <3>1. Kept(f, flow[f])' /\ Carries(flow[f])'
      BY <1>2, <2>3 DEF Kept, Carries, Returning, Storing, Refreshes
    <3> QED
      BY <2>2, <3>1 DEF Good
  <2>4. CASE f \notin dying
    <3>1. flow'[f].pc = flow[f].pc /\ flow'[f].disturbed = (flow[f].disturbed \/ Waiting(f, t))
      BY <1>2, <2>4
    <3>2. CASE flow[f].task = t
      <4>1. Kept(f, flow[f])'
        BY <1>3, <2>1, <3>1, <3>2 DEF Good, Kept, Waiting, Returning
      <4>2. Carries(flow[f])'
        BY <1>3, <1>7, <1>8, <2>1, <3>1 DEF Good, Carries, Refreshes
      <4> QED
        BY <2>2, <4>1, <4>2 DEF Good
    <3>3. CASE flow[f].task # t
      <4>1. Kept(f, flow[f])'
        BY <1>1, <1>3, <2>1, <3>1, <3>3 DEF Good, FlowType, Kept, Returning, LoginInv, Shape
      <4>2. Carries(flow[f])'
        BY <1>3, <1>7, <1>8, <2>1, <3>1 DEF Good, Carries, Refreshes
      <4> QED
        BY <2>2, <4>1, <4>2 DEF Good
    <3> QED
      BY <3>2, <3>3
  <2> QED
    BY <2>3, <2>4
<1>10. ASSUME NEW x \in Client, token'[x] # None PROVE Explained(x, token[x])'
  <2>1. CASE x \in Seeded
    <3>1. token'[x] = Seed(x)
      BY <1>1, <2>1
    <3> QED
      BY <1>4, <3>1 DEF Explained
  <2>2. CASE x \notin Seeded
    <3>1. token'[x] = token[x] /\ Explained(x, token[x])
      BY <1>1, <1>10, <2>2 DEF LoginInv
    <3> QED
      BY <1>6, <3>1 DEF Explained, Remembers
  <2> QED
    BY <2>1, <2>2
<1> QED
  BY <1>5, <1>9, <1>10 DEF LoginInv

-------------------------------------------------------------------------------
LEMMA LoginInit == Init => LoginInv
<1> SUFFICES ASSUME Init PROVE LoginInv
  OBVIOUS
<1>1. \A x \in Client : Seed(x) \in TokenSet /\ Seed(x).owner = x
  BY TokenIsTyped DEF Seed
<1>2. Shape
  BY <1>1 DEF Init, Shape
<1>3. ASSUME NEW f \in Flow PROVE Good(f)
  <2>1. /\ flow[f].pc = "idle" /\ flow[f].disturbed = FALSE /\ Fields \subseteq DOMAIN flow[f]
    BY DEF Init, Idle, Fields
  <2> QED
    BY <2>1 DEF Good, FlowType, Kept, Carries, Returning, Storing, Refreshes
<1>4. \A x \in Client : token[x] # None => Explained(x, token[x])
  BY <1>1 DEF Init, Explained
<1> QED
  BY <1>2, <1>3, <1>4 DEF LoginInv

LEMMA LoginStep == ASSUME LoginInv, [Next]_vars PROVE LoginInv'
<1>1. ASSUME NEW f \in Flow, Step(f) PROVE LoginInv'
  BY <1>1, ConnectKeeps, GetClientKeeps, GrantKeeps, ConsentKeeps, CallbackKeeps, ExchangeKeeps,
     FindKeeps, UpdateKeeps, CreateKeeps, ReadKeeps, AskKeeps, RefreshKeeps, SaveKeeps DEF Step
<1>2. CASE UNCHANGED vars
  BY <1>2 DEF vars, service, provider, LoginInv, Shape, Good, FlowType, Kept, Carries, Explained
<1> QED
  BY <1>1, <1>2, RestartKeeps DEF Next

LEMMA LoginAlways == Spec => []LoginInv
<1>1. LoginInv /\ [Next]_vars => LoginInv'
  BY LoginStep
<1> QED
  BY LoginInit, <1>1, PTL DEF Spec

\* A login is lost on the way back only if another login, a refresh, a restart
\* or another task came in between, for any number of them.
THEOREM LoginsLostOnlyIfDisturbed == Spec => []LostOnlyIfDisturbed
<1>1. LoginInv => LostOnlyIfDisturbed
  BY DEF LoginInv, Good, Kept, Carries, LostOnlyIfDisturbed, At
<1> QED
  BY LoginAlways, <1>1, PTL

\* A token is stored for the client it was issued to, unless its provider does
\* not give the state back and a login with it was disturbed.
THEOREM TokensOfTheirClients == Spec => []IssuedToItsClient
<1>1. LoginInv => IssuedToItsClient
  BY DEF LoginInv, Explained, IssuedToItsClient
<1> QED
  BY LoginAlways, <1>1, PTL

-----------------------------------------------------------------------------
(***************************************************************************)
(* The stored refresh token works.  Every token has a home, the client it is   *)
(* stored for, whichever flow holds it; a token a flow holds and nobody has     *)
(* stored yet is nobody else's, so no refresh can use it up.                    *)
(***************************************************************************)
Holding == Storing \union {"save"}

\* H gives the home of every token.
Homes(H) == H \in [TokenSet -> Client] /\ \A x \in Client : H[Seed(x)] = x

TokensAtHome(H) ==
  \A x \in Client : token[x] # None => H[token[x]] = x /\ token[x].n <= issued

FromHome(H) ==
  \A f \in Flow : Refreshes(flow[f]) =>
    H[flow[f].from] = flow[f].client /\ flow[f].from.n <= issued

\* What a flow got works, and it is the only one that has it.
Unused(f) ==
  /\ flow[f].got \in live /\ 0 < flow[f].got.n /\ flow[f].got.n <= issued
  /\ \A x \in Client : token[x] # flow[f].got
  /\ \A g \in Flow :
       /\ Refreshes(flow[g]) => flow[g].from # flow[f].got
       /\ flow[g].pc \in Holding /\ g # f => flow[g].got # flow[f].got

\* A provider that does not rotate gives back the token it was asked with.
GivenBack(f) == flow[f].pc = "save" /\ flow[f].got = flow[f].from

GoesHome(H) ==
  \A f \in Flow : flow[f].pc \in Holding =>
    IF GivenBack(f) THEN flow[f].client \notin Rotating /\ flow[f].got \in live
    ELSE Unused(f) /\ H[flow[f].got] = flow[f].target

Works(x) ==
  \/ token[x] \in live
  \/ \E f \in Flow : flow[f].pc = "save" /\ flow[f].from = token[x]

Held(H) ==
  /\ Homes(H) /\ TokensAtHome(H) /\ FromHome(H) /\ GoesHome(H)
  /\ \A x \in Client \ orphaned : token[x] # None => Works(x)

RefreshInv == LoginInv /\ \E H : Held(H)

-------------------------------------------------------------------------------
\* Types of what flows hold.
LEMMA HeldTypes ==
  ASSUME LoginInv
  PROVE  /\ \A f \in Flow :
              /\ flow[f].pc \in Holding => flow[f].got \in TokenSet
              /\ flow[f].pc \in Storing => flow[f].target \in Client
              /\ Refreshes(flow[f]) => /\ flow[f].from \in TokenSet
                                              /\ flow[f].client \in Client
                                              /\ flow[f].target = flow[f].client
         /\ \A x \in Client : token[x] # None => token[x] \in TokenSet
         /\ issued \in Nat
  BY DEF LoginInv, Good, Carries, FlowType, Holding, Storing, Refreshes, Shape

LEMMA Numbers == \A k \in TokenSet : k.n \in Nat
  BY DEF TokenSet

-------------------------------------------------------------------------------
(* Steps after which nobody holds more. *)

\* Flow g holds what it held, or nothing.
Same(g) ==
  /\ flow'[g].pc \in Storing =>
       flow[g].pc \in Storing /\ flow'[g].got = flow[g].got /\ flow'[g].target = flow[g].target
  /\ Refreshes(flow'[g]) =>
       /\ Refreshes(flow[g]) /\ flow'[g].from = flow[g].from
       /\ flow'[g].client = flow[g].client
  /\ flow'[g].pc = "save" <=> flow[g].pc = "save"
  /\ flow'[g].pc = "save" =>
       flow'[g].got = flow[g].got /\ flow'[g].target = flow[g].target

LEMMA QuietHolds ==
  ASSUME NEW H, Held(H), \A g \in Flow : Same(g), UNCHANGED <<token, live, issued, orphaned>>
  PROVE  Held(H)'
<1>1. Homes(H)' /\ TokensAtHome(H)' /\ FromHome(H)'
  BY DEF Held, Homes, Seed, TokensAtHome, FromHome, Same
<1>2. ASSUME NEW f \in Flow, flow'[f].pc \in Holding
      PROVE  flow[f].pc \in Holding /\ flow'[f].got = flow[f].got
             /\ flow'[f].target = flow[f].target /\ (Unused(f) => Unused(f)')
  <2>1. flow[f].pc \in Holding /\ flow'[f].got = flow[f].got /\ flow'[f].target = flow[f].target
    BY <1>2 DEF Same, Holding
  <2>2. Unused(f) => Unused(f)'
    BY <2>1 DEF Unused, Same, Holding
  <2> QED
    BY <2>1, <2>2
<1>3. ASSUME NEW f \in Flow, flow'[f].pc \in Holding
      PROVE  GivenBack(f)' <=> GivenBack(f)
  BY <1>2, <1>3 DEF GivenBack, Same, Refreshes
<1>4. GoesHome(H)'
  BY <1>2, <1>3 DEF Held, GoesHome, GivenBack, Same, Refreshes
<1>5. \A x \in Client \ orphaned' : token'[x] # None => Works(x)'
  BY DEF Held, Works, Same, Refreshes
<1> QED
  BY <1>1, <1>4, <1>5 DEF Held

\* A new token: a step that puts it into the hands of f.
LEMMA IssueHolds ==
  ASSUME LoginInv, NEW H, Held(H), NEW f \in Flow, NEW gone, NEW x \in Client,
         issued' = issued + 1, live' = (live \ gone) \union {Token(x, issued + 1)},
         UNCHANGED <<token, orphaned>>,
         \A g \in Flow \ {f} : flow'[g] = flow[g],
         flow[f].pc \notin Holding,
         flow'[f].pc \in Holding => flow'[f].got = Token(x, issued + 1) /\ flow'[f].target \in Client,
         Refreshes(flow'[f]) =>
           /\ Refreshes(flow[f]) /\ flow'[f].from = flow[f].from
           /\ flow'[f].client = flow[f].client,
         \/ gone = {}
         \/ /\ gone = {flow[f].from} /\ flow[f].pc = "refresh" /\ flow[f].client \in Rotating
            /\ flow'[f].pc = "save"
  PROVE  \E G : Held(G)'
<1> DEFINE new == Token(x, issued + 1)
<1>0. PICK G : G = [H EXCEPT ![new] = IF flow'[f].pc \in Holding THEN flow'[f].target ELSE x]
  OBVIOUS
<1>1. new \in TokenSet /\ new.n = issued + 1 /\ issued \in Nat
  BY HeldTypes DEF Token, TokenSet
<1>2. \A k \in TokenSet : k.n <= issued => k # new /\ G[k] = H[k]
  BY <1>0, <1>1, Numbers DEF Held, Homes
<1>3. G \in [TokenSet -> Client] /\ (flow'[f].pc \in Holding => G[new] = flow'[f].target)
  BY <1>0, <1>1 DEF Held, Homes
<1>4. \A y \in Client : Seed(y) \in TokenSet /\ Seed(y).n <= issued
  BY <1>1 DEF Seed, Token, TokenSet
<1> HIDE DEF new
<1>5. Homes(G)'
  BY <1>2, <1>3, <1>4 DEF Held, Homes, Seed
<1>6. TokensAtHome(G)'
  <2>1. SUFFICES ASSUME NEW y \in Client, token[y] # None
                 PROVE  G[token[y]] = y /\ token[y].n <= issued + 1
    BY DEF TokensAtHome
  <2>2. token[y] \in TokenSet /\ H[token[y]] = y /\ token[y].n <= issued /\ token[y].n \in Nat
    BY <2>1, HeldTypes, Numbers DEF Held, TokensAtHome
  <2> QED
    BY <1>1, <1>2, <2>2
<1>7. FromHome(G)'
  <2>1. SUFFICES ASSUME NEW g \in Flow, Refreshes(flow'[g])
                 PROVE  G[flow'[g].from] = flow'[g].client /\ flow'[g].from.n <= issued + 1
    BY DEF FromHome
  <2>2. Refreshes(flow[g]) /\ flow'[g].from = flow[g].from /\ flow'[g].client = flow[g].client
    BY <2>1
  <2>3. /\ flow[g].from \in TokenSet /\ H[flow[g].from] = flow[g].client
        /\ flow[g].from.n <= issued /\ flow[g].from.n \in Nat
    BY <2>2, HeldTypes, Numbers DEF Held, FromHome
  <2> QED
    BY <1>1, <1>2, <2>2, <2>3
<1>8. ASSUME NEW g \in Flow, flow[g].pc \in Holding
      PROVE  /\ flow[g].got \in TokenSet /\ flow[g].got.n <= issued /\ flow[g].got.n \in Nat
             /\ flow[g].got # new /\ flow[g].got \notin gone
  <2>1. flow[g].got \in TokenSet /\ flow[g].got.n \in Nat
    BY <1>8, HeldTypes, Numbers
  <2>2. CASE GivenBack(g)
    <3>1. /\ flow[g].pc = "save" /\ flow[g].got = flow[g].from /\ flow[g].client \notin Rotating
          /\ H[flow[g].from] = flow[g].client /\ flow[g].from.n <= issued
      BY <1>8, <2>2 DEF Held, GoesHome, FromHome, GivenBack, Refreshes
    <3>2. flow[f].pc = "refresh" => H[flow[f].from] = flow[f].client
      BY DEF Held, FromHome, Refreshes
    <3> QED
      BY <1>2, <2>1, <3>1, <3>2
  <2>3. CASE ~GivenBack(g)
    <3>1. Unused(g)
      BY <1>8, <2>3 DEF Held, GoesHome
    <3>2. flow[f].pc = "refresh" => flow[f].from # flow[g].got
      BY <3>1 DEF Unused, Refreshes
    <3> QED
      BY <1>2, <2>1, <3>1, <3>2 DEF Unused
  <2> QED
    BY <2>2, <2>3
<1>9. GoesHome(G)'
  <2>1. SUFFICES ASSUME NEW g \in Flow, flow'[g].pc \in Holding
                 PROVE  IF GivenBack(g)'
                        THEN flow'[g].client \notin Rotating /\ flow'[g].got \in live'
                        ELSE Unused(g)' /\ G[flow'[g].got] = flow'[g].target
    BY DEF GoesHome
  <2>2. \A h \in Flow : Refreshes(flow'[h]) =>
          flow'[h].from \in TokenSet /\ flow'[h].from.n <= issued /\ flow'[h].from # new
          /\ Refreshes(flow[h]) /\ flow'[h].from = flow[h].from
    BY <1>2, HeldTypes DEF Held, FromHome
  <2>3. \A y \in Client : token'[y] # new
    <3>1. \A y \in Client : token[y] # None => token[y] \in TokenSet /\ token[y].n <= issued
      BY HeldTypes DEF Held, TokensAtHome
    <3> QED
      BY <1>1, <1>2, <3>1, NoneIsNoToken
  <2>4. CASE g = f
    <3>1. flow'[f].got = new /\ new \in live' /\ ~GivenBack(f)'
      BY <2>1, <2>2, <2>4 DEF GivenBack, Refreshes, new
    <3>2. \A h \in Flow \ {f} : flow'[h].pc \in Holding => flow'[h].got # new
      BY <1>8
    <3>3. 0 < new.n /\ new.n <= issued'
      BY <1>1
    <3>4. Unused(f)'
      BY <2>2, <2>3, <3>1, <3>2, <3>3 DEF Unused
    <3> QED
      BY <1>3, <2>1, <2>4, <3>1, <3>4
  <2>5. CASE g # f
    <3>1. /\ flow'[g] = flow[g] /\ flow[g].pc \in Holding /\ (GivenBack(g)' <=> GivenBack(g))
      BY <2>1, <2>5 DEF GivenBack
    <3>2. flow[g].got \in live => flow[g].got \in live'
      BY <1>8, <3>1
    <3>3. CASE GivenBack(g)
      BY <3>1, <3>2, <3>3 DEF Held, GoesHome
    <3>4. CASE ~GivenBack(g)
      <4>1. Unused(g) /\ H[flow[g].got] = flow[g].target
        BY <3>1, <3>4 DEF Held, GoesHome
      <4>2. G[flow[g].got] = H[flow[g].got]
        BY <1>2, <1>8, <3>1
      <4>3. ASSUME NEW h \in Flow
            PROVE  /\ Refreshes(flow'[h]) => flow'[h].from # flow[g].got
                   /\ flow'[h].pc \in Holding /\ h # g => flow'[h].got # flow[g].got
        <5>1. Refreshes(flow'[h]) => flow'[h].from # flow[g].got
          BY <2>2, <4>1 DEF Unused
        <5>2. CASE h # f
          BY <4>1, <5>1, <5>2 DEF Unused
        <5>3. CASE h = f
          BY <1>8, <3>1, <5>1, <5>3 DEF new
        <5> QED
          BY <5>2, <5>3
      <4>4. 0 < flow[g].got.n /\ flow[g].got.n <= issued'
        BY <1>1, <1>8, <3>1, <4>1 DEF Unused
      <4>5. Unused(g)'
        BY <3>1, <3>2, <4>1, <4>3, <4>4 DEF Unused
      <4> QED
        BY <3>1, <3>4, <4>1, <4>2, <4>5
    <3> QED
      BY <3>3, <3>4
  <2> QED
    BY <2>4, <2>5
<1>10. ASSUME NEW y \in Client \ orphaned', token'[y] # None PROVE Works(y)'
  <2>1. Works(y)
    BY <1>10 DEF Held
  <2>2. CASE token[y] \in live
    <3>1. CASE token[y] \in gone
      BY <3>1 DEF Works, Refreshes
    <3>2. CASE token[y] \notin gone
      BY <2>2, <3>2 DEF Works
    <3> QED
      BY <3>1, <3>2
  <2>3. CASE \E g \in Flow : flow[g].pc = "save" /\ flow[g].from = token[y]
    <3>1. PICK g \in Flow : flow[g].pc = "save" /\ flow[g].from = token[y]
      BY <2>3
    <3>2. g # f
      BY <3>1 DEF Holding
    <3> QED
      BY <3>1, <3>2 DEF Works
  <2> QED
    BY <2>1, <2>2, <2>3 DEF Works
<1> QED
  BY <1>5, <1>6, <1>7, <1>9, <1>10 DEF Held

-------------------------------------------------------------------------------
(* Steps that store a token, hand a stored one out, or take from everyone. *)

LEMMA StoreHolds ==
  ASSUME LoginInv, NEW H, Held(H), NEW f \in Flow, flow[f].pc \in Holding,
         Store(flow[f].target, flow[f].got), flow' = [flow EXCEPT ![f].pc = "done"],
         UNCHANGED provider
  PROVE  Held(H)'
<1> DEFINE x == flow[f].target
           k == flow[f].got
<1>1. k \in TokenSet /\ x \in Client
  BY HeldTypes DEF Holding, Refreshes
<1>2. /\ token'[x] = k /\ \A y \in Client \ {x} : token'[y] = token[y]
      /\ orphaned' = orphaned \ {x} /\ UNCHANGED <<live, issued>>
  BY <1>1 DEF Store, provider, LoginInv, Shape
<1>3. flow'[f].pc = "done" /\ \A g \in Flow \ {f} : flow'[g] = flow[g]
  <2>1. "pc" \in DOMAIN flow[f] /\ DOMAIN flow = Flow
    BY DEF LoginInv, Shape, Good, FlowType, Fields
  <2> QED
    BY <2>1
<1>4. flow[f].pc = "save" => H[flow[f].from] = x /\ flow[f].from.n <= issued
  BY HeldTypes DEF Held, FromHome, Refreshes
<1>5. H[k] = x /\ k \in live /\ k.n <= issued
  <2>1. CASE GivenBack(f)
    BY <2>1, <1>4 DEF Held, GoesHome, GivenBack, Holding
  <2>2. CASE ~GivenBack(f)
    BY <2>2 DEF Held, GoesHome, Unused
  <2> QED
    BY <2>1, <2>2
<1> HIDE DEF k
<1>6. Homes(H)' /\ FromHome(H)'
  BY <1>2, <1>3 DEF Held, Homes, Seed, FromHome, Refreshes
<1>7. TokensAtHome(H)'
  BY <1>2, <1>5 DEF Held, TokensAtHome
<1>8. GoesHome(H)'
  <2>1. SUFFICES ASSUME NEW g \in Flow, flow'[g].pc \in Holding
                 PROVE  IF GivenBack(g)'
                        THEN flow'[g].client \notin Rotating /\ flow'[g].got \in live'
                        ELSE Unused(g)' /\ H[flow'[g].got] = flow'[g].target
    BY DEF GoesHome
  <2>2. g # f /\ flow'[g] = flow[g] /\ (GivenBack(g)' <=> GivenBack(g))
    BY <1>3, <2>1 DEF Holding, Storing, GivenBack
  <2>3. Unused(g) => Unused(g)'
    <3>1. SUFFICES ASSUME Unused(g) PROVE Unused(g)'
      OBVIOUS
    <3>2. k # flow[g].got
      BY <2>2, <3>1 DEF Unused, k
    <3>3. \A y \in Client : token'[y] # flow[g].got
      BY <1>2, <3>1, <3>2 DEF Unused
    <3>4. \A h \in Flow : h = f \/ flow'[h] = flow[h]
      BY <1>3
    <3>5. ~Refreshes(flow'[f]) /\ flow'[f].pc \notin Holding
      BY <1>3 DEF Refreshes, Holding, Storing
    <3> QED
      BY <1>2, <2>2, <3>1, <3>3, <3>4, <3>5 DEF Unused, Refreshes
  <2> QED
    BY <1>2, <2>1, <2>2, <2>3 DEF Held, GoesHome
<1>9. ASSUME NEW y \in Client \ orphaned', token'[y] # None PROVE Works(y)'
  <2>1. CASE y = x
    BY <1>2, <1>5, <2>1 DEF Works
  <2>2. CASE y # x
    <3>1. token'[y] = token[y] /\ Works(y) /\ H[token[y]] = y
      BY <1>2, <1>9, <2>2 DEF Held, TokensAtHome
    <3>2. \A g \in Flow : flow[g].pc = "save" /\ flow[g].from = token[y] => g # f
      BY <1>4, <2>2, <3>1
    <3> QED
      BY <1>2, <1>3, <3>1, <3>2 DEF Works
  <2> QED
    BY <2>1, <2>2
<1> QED
  BY <1>6, <1>7, <1>8, <1>9 DEF Held

LEMMA ReadHolds ==
  ASSUME LoginInv, NEW H, Held(H), NEW f \in Flow, ReadToken(f) PROVE Held(H)'
<1>1. PICK x \in Client, t \in Task :
        flow' = [flow EXCEPT ![f] = [Idle EXCEPT !.pc = "ask", !.kind = "refresh",
                   !.client = x, !.task = t, !.target = x, !.from = token[x]]]
  BY DEF ReadToken
<1>2. /\ flow'[f].pc = "ask" /\ flow'[f].from = token[x] /\ flow'[f].client = x
      /\ \A g \in Flow \ {f} : flow'[g] = flow[g]
  BY <1>1 DEF LoginInv, Shape, Idle
<1>3. flow[f].pc = "idle" /\ UNCHANGED <<token, live, issued, orphaned>>
  BY DEF ReadToken, At, provider
<1>4. Homes(H)' /\ TokensAtHome(H)'
  BY <1>3 DEF Held, Homes, Seed, TokensAtHome
<1>5. FromHome(H)'
  BY <1>1, <1>2, <1>3 DEF Held, TokensAtHome, FromHome, Refreshes
<1>6. GoesHome(H)'
  <2>1. SUFFICES ASSUME NEW g \in Flow, flow'[g].pc \in Holding
                 PROVE  IF GivenBack(g)'
                        THEN flow'[g].client \notin Rotating /\ flow'[g].got \in live'
                        ELSE Unused(g)' /\ H[flow'[g].got] = flow'[g].target
    BY DEF GoesHome
  <2>2. g # f /\ flow'[g] = flow[g] /\ (GivenBack(g)' <=> GivenBack(g))
    BY <1>2, <2>1 DEF Holding, Storing, GivenBack
  <2>3. Unused(g) => Unused(g)'
    <3>1. SUFFICES ASSUME Unused(g) PROVE Unused(g)'
      OBVIOUS
    <3>2. flow'[f].from # flow[g].got /\ flow'[f].pc \notin Holding
      BY <1>2, <3>1 DEF Unused, Holding, Storing
    <3> QED
      BY <1>2, <1>3, <2>2, <3>1, <3>2 DEF Unused
  <2> QED
    BY <1>3, <2>1, <2>2, <2>3 DEF Held, GoesHome
<1>7. \A y \in Client \ orphaned' : token'[y] # None => Works(y)'
  BY <1>2, <1>3 DEF Held, Works
<1> QED
  BY <1>4, <1>5, <1>6, <1>7 DEF Held

\* A provider that does not rotate.
LEMMA GiveBackHolds ==
  ASSUME LoginInv, NEW H, Held(H), NEW f \in Flow, flow[f].pc = "refresh",
         flow[f].client \notin Rotating, flow[f].from \in live,
         flow' = [flow EXCEPT ![f].pc = "save", ![f].got = flow[f].from],
         UNCHANGED <<token, live, issued, orphaned>>
  PROVE  Held(H)'
<1>0. token' = token /\ live' = live /\ issued' = issued /\ orphaned' = orphaned
  OBVIOUS
<1>1. Fields \subseteq DOMAIN flow[f] /\ DOMAIN flow = Flow
  BY DEF LoginInv, Shape, Good, FlowType
<1>2. /\ flow'[f].pc = "save" /\ flow'[f].from = flow[f].from /\ flow'[f].got = flow[f].from
      /\ flow'[f].client = flow[f].client /\ \A g \in Flow \ {f} : flow'[g] = flow[g]
  BY <1>1 DEF Fields
<1>3. Homes(H)' /\ TokensAtHome(H)' /\ FromHome(H)'
  <2>1. Homes(H)' /\ TokensAtHome(H)'
    BY <1>0 DEF Held, Homes, Seed, TokensAtHome
  <2>2. ASSUME NEW g \in Flow, Refreshes(flow'[g])
        PROVE  Refreshes(flow[g]) /\ flow'[g].from = flow[g].from
               /\ flow'[g].client = flow[g].client
    <3>1. CASE g = f
      BY <1>2, <2>2, <3>1 DEF Refreshes
    <3>2. CASE g # f
      BY <1>2, <2>2, <3>2
    <3> QED
      BY <3>1, <3>2
  <2>3. FromHome(H)'
    BY <1>0, <2>2 DEF Held, FromHome
  <2> QED
    BY <2>1, <2>3
<1>4. GoesHome(H)'
  <2>1. SUFFICES ASSUME NEW g \in Flow, flow'[g].pc \in Holding
                 PROVE  IF GivenBack(g)'
                        THEN flow'[g].client \notin Rotating /\ flow'[g].got \in live'
                        ELSE Unused(g)' /\ H[flow'[g].got] = flow'[g].target
    BY DEF GoesHome
  <2>2. CASE g = f
    BY <1>0, <1>2, <2>2 DEF GivenBack
  <2>3. CASE g # f
    <3>1. flow'[g] = flow[g] /\ (GivenBack(g)' <=> GivenBack(g))
      BY <1>2, <2>3 DEF GivenBack
    <3>2. Unused(g) => Unused(g)'
      <4>1. SUFFICES ASSUME Unused(g) PROVE Unused(g)'
        OBVIOUS
      <4>2. flow[f].from # flow[g].got
        <5>1. Refreshes(flow[f])
          BY DEF Refreshes
        <5> QED
          BY <4>1, <5>1 DEF Unused
      <4>3. flow[f].pc \notin Holding \/ flow[f].got # flow[g].got
        BY <2>3, <4>1 DEF Unused
      <4>4. ASSUME NEW k \in Flow
            PROVE  /\ Refreshes(flow'[k]) => flow'[k].from # flow[g].got
                   /\ flow'[k].pc \in Holding /\ k # g => flow'[k].got # flow[g].got
        <5>1. CASE k = f
          BY <1>2, <4>2, <5>1
        <5>2. CASE k # f
          BY <1>2, <4>1, <5>2 DEF Unused
        <5> QED
          BY <5>1, <5>2
      <4> QED
        BY <1>0, <3>1, <4>1, <4>4 DEF Unused
    <3>3. IF GivenBack(g) THEN flow[g].client \notin Rotating /\ flow[g].got \in live
          ELSE Unused(g) /\ H[flow[g].got] = flow[g].target
      BY <2>1, <3>1 DEF Held, GoesHome
    <3> QED
      BY <1>0, <3>1, <3>2, <3>3
  <2> QED
    BY <2>2, <2>3
<1>5. \A y \in Client \ orphaned' : token'[y] # None => Works(y)'
  <2>1. ASSUME NEW y \in Client, NEW k \in Flow, flow[k].pc = "save", flow[k].from = token[y]
        PROVE  flow'[k].pc = "save" /\ flow'[k].from = token[y]
    BY <1>2, <2>1
  <2>2. ASSUME NEW y \in Client, Works(y) PROVE Works(y)'
    <3>1. CASE token[y] \in live
      BY <1>0, <3>1 DEF Works
    <3>2. CASE \E k \in Flow : flow[k].pc = "save" /\ flow[k].from = token[y]
      <4>1. PICK k \in Flow : flow'[k].pc = "save" /\ flow'[k].from = token[y]
        BY <2>1, <3>2
      <4> QED
        BY <1>0, <4>1 DEF Works
    <3> QED
      BY <2>2, <3>1, <3>2 DEF Works
  <2>3. \A y \in Client \ orphaned : token[y] # None => Works(y)
    BY DEF Held
  <2> QED
    BY <1>0, <2>2, <2>3
<1> QED
  BY <1>3, <1>4, <1>5 DEF Held

LEMMA RestartHolds ==
  ASSUME LoginInv, NEW H, Held(H), NEW t \in Task, Restart(t) PROVE Held(H)'
<1> DEFINE dying == {f \in Flow : /\ flow[f].task = t
                                  /\ flow[f].pc \notin Ended \union {"idle", "consent"}}
<1>1. /\ token' = [x \in Client |-> IF x \in Seeded THEN Seed(x) ELSE token[x]]
      /\ UNCHANGED <<issued, live>>
      /\ orphaned' = orphaned \union Seeded \union
                       {flow[f].client : f \in {g \in dying : flow[g].pc = "save"}}
      /\ flow' = [f \in Flow |->
                    IF f \in dying THEN [flow[f] EXCEPT !.pc = "killed"]
                    ELSE [flow[f] EXCEPT !.disturbed = @ \/ Waiting(f, t)]]
  BY DEF Restart, provider, At
<1> HIDE DEF dying
<1>2. ASSUME NEW f \in Flow
      PROVE  /\ f \in dying => flow'[f].pc = "killed"
             /\ f \notin dying => /\ flow'[f].pc = flow[f].pc /\ flow'[f].got = flow[f].got
                                 /\ flow'[f].from = flow[f].from
                                 /\ flow'[f].client = flow[f].client
                                 /\ flow'[f].target = flow[f].target
  <2>1. Fields \subseteq DOMAIN flow[f]
    BY DEF LoginInv, Good, FlowType
  <2>2. CASE f \in dying
    BY <1>1, <2>1, <2>2 DEF Fields
  <2>3. CASE f \notin dying
    BY <1>1, <2>1, <2>3 DEF Fields
  <2> QED
    BY <2>2, <2>3
<1>3. /\ \A g \in Flow : flow'[g].pc = "killed" => ~Refreshes(flow'[g])
      /\ "killed" \notin Holding /\ "killed" # "save"
  BY DEF Refreshes, Holding, Storing
<1>4. Homes(H)' /\ FromHome(H)'
  BY <1>1, <1>2, <1>3 DEF Held, Homes, Seed, FromHome, Refreshes
<1>5. \A x \in Client : Seed(x).n = 0 /\ issued \in Nat
  BY HeldTypes DEF Seed, Token
<1>6. TokensAtHome(H)'
  BY <1>1, <1>5 DEF Held, Homes, TokensAtHome
<1>7. GoesHome(H)'
  <2>1. SUFFICES ASSUME NEW g \in Flow, flow'[g].pc \in Holding
                 PROVE  IF GivenBack(g)'
                        THEN flow'[g].client \notin Rotating /\ flow'[g].got \in live'
                        ELSE Unused(g)' /\ H[flow'[g].got] = flow'[g].target
    BY DEF GoesHome
  <2>2. g \notin dying
    BY <1>2, <1>3, <2>1
  <2>3. /\ flow[g].pc \in Holding /\ flow'[g].got = flow[g].got
        /\ (GivenBack(g)' <=> GivenBack(g))
    BY <1>2, <2>1, <2>2 DEF GivenBack
  <2>4. Unused(g) => Unused(g)'
    <3>1. SUFFICES ASSUME Unused(g) PROVE Unused(g)'
      OBVIOUS
    <3>2. \A y \in Client : token'[y] # flow[g].got
      BY <1>1, <1>5, <3>1 DEF Unused
    <3> QED
      BY <1>1, <1>2, <1>3, <2>3, <3>1, <3>2 DEF Unused, Refreshes
  <2>5. live' = live /\ flow'[g].client = flow[g].client /\ flow'[g].target = flow[g].target
    BY <1>1, <1>2, <2>2
  <2>6. IF GivenBack(g) THEN flow[g].client \notin Rotating /\ flow[g].got \in live
        ELSE Unused(g) /\ H[flow[g].got] = flow[g].target
    BY <2>3 DEF Held, GoesHome
  <2> QED
    BY <2>3, <2>4, <2>5, <2>6
<1>8. ASSUME NEW y \in Client \ orphaned', token'[y] # None PROVE Works(y)'
  <2>1. /\ token'[y] = token[y] /\ Works(y) /\ H[token[y]] = y
        /\ \A f \in dying \cap Flow : flow[f].pc = "save" => flow[f].client # y
    BY <1>1, <1>8 DEF Held, TokensAtHome
  <2>2. \A f \in Flow : flow[f].pc = "save" => H[flow[f].from] = flow[f].client
    BY DEF Held, FromHome, Refreshes
  <2>3. \A f \in Flow : flow[f].pc = "save" /\ flow[f].from = token[y] => f \notin dying
    BY <2>1, <2>2
  <2> QED
    BY <1>1, <1>2, <2>1, <2>3 DEF Works
<1> QED
  BY <1>4, <1>6, <1>7, <1>8 DEF Held

-------------------------------------------------------------------------------
(* The actions. *)

\* Steps after which flow f holds what it held, and the others were at most disturbed.
LEMMA QuietStep ==
  ASSUME LoginInv, NEW H, Held(H), NEW f \in Flow,
         \/ Connect(f) \/ GetClient(f) \/ Consent(f) \/ Callback(f) \/ FindToken(f)
         \/ AskRefresh(f)
  PROVE  Held(H)'
<1>1. Fields \subseteq DOMAIN flow[f] /\ DOMAIN flow = Flow
      /\ \A g \in Flow : Fields \subseteq DOMAIN flow[g]
  BY DEF LoginInv, Shape, Good, FlowType
<1>2. UNCHANGED <<token, live, issued, orphaned>>
  BY DEF Connect, GetClient, Consent, Callback, FindToken, AskRefresh, provider
<1>3. ASSUME NEW g \in Flow \ {f} PROVE Same(g)
  <2>1. \/ flow'[g] = flow[g]
        \/ \E b : flow'[g] = [flow[g] EXCEPT !.disturbed = b]
    <3>1. CASE Connect(f) \/ Consent(f) \/ Callback(f) \/ FindToken(f)
      BY <1>1, <3>1 DEF Connect, Consent, Callback, FindToken
    <3>2. CASE GetClient(f) \/ AskRefresh(f)
      BY <3>2 DEF GetClient, AskRefresh, Overwrite
    <3> QED
      BY <3>1, <3>2
  <2> QED
    BY <1>1, <2>1 DEF Same, Fields, Refreshes
<1>4. Same(f)
  <2>1. CASE Connect(f)
    <3>1. flow[f].pc = "idle" /\ flow'[f].pc = "connect"
      BY <1>1, <2>1 DEF Connect, At, Idle
    <3> QED
      BY <3>1 DEF Same, Storing, Refreshes
  <2>2. CASE GetClient(f)
    <3>1. flow[f].pc = "connect" /\ flow'[f].pc \in {"grant", "consent"}
      BY <1>1, <2>2 DEF GetClient, At, Overwrite, Fields
    <3> QED
      BY <3>1 DEF Same, Storing, Refreshes
  <2>3. CASE Consent(f)
    <3>1. flow[f].pc = "consent" /\ flow'[f].pc = "callback"
      BY <1>1, <2>3 DEF Consent, At, Fields
    <3> QED
      BY <3>1 DEF Same, Storing, Refreshes
  <2>4. CASE Callback(f)
    <3>1. flow[f].pc = "callback" /\ flow'[f].pc \in {"lost", "exchange"}
      BY <1>1, <2>4 DEF Callback, At, Fields
    <3> QED
      BY <3>1 DEF Same, Storing, Refreshes
  <2>5. CASE FindToken(f)
    <3>1. /\ flow[f].pc = "find" /\ flow'[f].pc \in {"create", "update"}
          /\ flow'[f].got = flow[f].got /\ flow'[f].target = flow[f].target
      BY <1>1, <2>5 DEF FindToken, At, Fields
    <3> QED
      BY <3>1 DEF Same, Storing, Refreshes
  <2>6. CASE AskRefresh(f)
    <3>1. /\ flow[f].pc = "ask"
          /\ flow'[f].pc = IF flow[f].from = None THEN "refused" ELSE "refresh"
          /\ flow'[f].from = flow[f].from /\ flow'[f].client = flow[f].client
      BY <1>1, <2>6 DEF AskRefresh, At, Overwrite, Fields
    <3> QED
      BY <3>1 DEF Same, Storing, Refreshes
  <2> QED
    BY <2>1, <2>2, <2>3, <2>4, <2>5, <2>6
<1> QED
  BY <1>2, <1>3, <1>4, QuietHolds

\* A flow that only ends.
LEMMA EndHolds ==
  ASSUME LoginInv, NEW H, Held(H), NEW f \in Flow, NEW p \in Ended,
         flow[f].pc # "save", flow' = [flow EXCEPT ![f].pc = p],
         UNCHANGED <<token, live, issued, orphaned>>
  PROVE  Held(H)'
<1>1. "pc" \in DOMAIN flow[f] /\ DOMAIN flow = Flow
  BY DEF LoginInv, Shape, Good, FlowType, Fields
<1>2. flow'[f].pc = p /\ \A g \in Flow \ {f} : flow'[g] = flow[g]
  BY <1>1
<1>3. \A g \in Flow : Same(g)
  BY <1>2 DEF Same, Ended, Storing, Refreshes
<1> QED
  BY <1>3, QuietHolds

LEMMA GrantHolds ==
  ASSUME LoginInv, NEW H, Held(H), NEW f \in Flow, GrantToken(f)
  PROVE  \E G : Held(G)'
<1> DEFINE q == flow[f]
           new == Token(q.client, issued + 1)
<1>1. /\ q.pc = "grant" /\ q.client \in Client /\ q.target = q.client
      /\ Fields \subseteq DOMAIN q /\ DOMAIN flow = Flow
  BY DEF GrantToken, At, LoginInv, Shape, Good, FlowType, Carries
<1>2. flow' = [flow EXCEPT ![f].pc = "find", ![f].got = new]
  BY DEF GrantToken
<1> HIDE DEF new
<1>3. /\ flow'[f].pc = "find" /\ flow'[f].got = new /\ flow'[f].target = q.client
      /\ \A g \in Flow \ {f} : flow'[g] = flow[g]
  BY <1>1, <1>2 DEF Fields
<1>4. issued' = issued + 1 /\ live' = (live \ {}) \union {new} /\ UNCHANGED <<token, orphaned>>
  BY DEF GrantToken, Issue, new
<1>5. ~Refreshes(flow'[f]) /\ "grant" \notin Holding
  BY <1>3 DEF Refreshes, Holding, Storing
<1> QED
  BY <1>1, <1>3, <1>4, <1>5, IssueHolds DEF new

LEMMA ExchangeHolds ==
  ASSUME LoginInv, NEW H, Held(H), NEW f \in Flow, OAuthCallback(f)
  PROVE  \E G : Held(G)'
<1> DEFINE q == flow[f]
           new == Token(q.client, issued + 1)
<1>1. /\ q.pc = "exchange" /\ q.client \in Client /\ q.task \in Task
      /\ Fields \subseteq DOMAIN q /\ DOMAIN flow = Flow
  BY DEF OAuthCallback, At, LoginInv, Shape, Good, FlowType
<1>2. CASE Accepted(f)
  <2>1. flow' = [flow EXCEPT ![f] =
                   [q EXCEPT !.pc = IF Target(q) = None THEN "lost" ELSE "find",
                             !.target = Target(q), !.got = new]]
    BY <1>2 DEF OAuthCallback
  <2> HIDE DEF new
  <2>2. /\ flow'[f].pc = IF Target(q) = None THEN "lost" ELSE "find"
        /\ flow'[f].got = new /\ flow'[f].target = Target(q)
        /\ \A g \in Flow \ {f} : flow'[g] = flow[g]
    BY <1>1, <2>1 DEF Fields
  <2>3. /\ issued' = issued + 1 /\ live' = (live \ {}) \union {new}
        /\ UNCHANGED <<token, orphaned>>
    BY <1>2 DEF OAuthCallback, Issue, new
  <2>4. Target(q) \in Client \union {None}
    BY <1>1 DEF Target, LoginInv, Shape
  <2>5. /\ ~Refreshes(flow'[f]) /\ "exchange" \notin Holding
        /\ "lost" \notin Holding
    BY <2>2 DEF Refreshes, Holding, Storing
  <2> QED
    BY <1>1, <2>2, <2>3, <2>4, <2>5, IssueHolds DEF new
<1>3. CASE ~Accepted(f)
  BY <1>1, <1>3, EndHolds DEF OAuthCallback, Ended, provider
<1> QED
  BY <1>2, <1>3

LEMMA RefreshHolds ==
  ASSUME LoginInv, NEW H, Held(H), NEW f \in Flow, Refresh(f)
  PROVE  \E G : Held(G)'
<1> DEFINE q == flow[f]
           new == Token(q.client, issued + 1)
<1>1. /\ q.pc = "refresh" /\ q.client \in Client /\ q.target = q.client
      /\ Fields \subseteq DOMAIN q /\ DOMAIN flow = Flow
  BY DEF Refresh, At, LoginInv, Shape, Good, FlowType, Carries, Refreshes
<1>2. UNCHANGED <<token, orphaned>>
  BY DEF Refresh
<1>3. ASSUME NEW gone, issued' = issued + 1, live' = (live \ gone) \union {new},
             gone = {} \/ (gone = {q.from} /\ q.client \in Rotating),
             flow' = [flow EXCEPT ![f].pc = "save", ![f].got = new]
      PROVE  \E G : Held(G)'
  <2> HIDE DEF new
  <2>1. /\ flow'[f].pc = "save" /\ flow'[f].got = new /\ flow'[f].target = q.client
        /\ flow'[f].from = q.from /\ flow'[f].client = q.client
        /\ \A g \in Flow \ {f} : flow'[g] = flow[g]
    BY <1>1, <1>3 DEF Fields
  <2>2. "refresh" \notin Holding /\ Refreshes(q)
    BY <1>1 DEF Refreshes, Holding, Storing
  <2> QED
    BY <1>1, <1>2, <1>3, <2>1, <2>2, IssueHolds DEF new
<1>4. CASE Grant[q.client] = "credentials"
  <2>1. issued' = issued + 1 /\ live' = (live \ {}) \union {new}
        /\ flow' = [flow EXCEPT ![f].pc = "save", ![f].got = new]
    BY <1>4 DEF Refresh, Issue
  <2> QED
    BY <1>3, <2>1
<1>5. CASE Grant[q.client] # "credentials" /\ q.from \in live /\ q.client \in Rotating
  <2>1. issued' = issued + 1 /\ live' = (live \ {q.from}) \union {new}
        /\ flow' = [flow EXCEPT ![f].pc = "save", ![f].got = new]
    BY <1>5 DEF Refresh
  <2> QED
    BY <1>3, <1>5, <2>1
<1>6. CASE Grant[q.client] # "credentials" /\ q.from \in live /\ q.client \notin Rotating
  <2>1. flow' = [flow EXCEPT ![f].pc = "save", ![f].got = q.from] /\ UNCHANGED <<live, issued>>
    BY <1>6 DEF Refresh, provider
  <2> QED
    BY <1>1, <1>2, <1>6, <2>1, GiveBackHolds
<1>7. CASE Grant[q.client] # "credentials" /\ q.from \notin live
  <2>1. flow' = [flow EXCEPT ![f].pc = "refused"] /\ UNCHANGED <<live, issued>>
    BY <1>7 DEF Refresh, provider
  <2> QED
    BY <1>1, <1>2, <2>1, EndHolds DEF Ended
<1> QED
  BY <1>4, <1>5, <1>6, <1>7

LEMMA StoringHolds ==
  ASSUME LoginInv, NEW H, Held(H), NEW f \in Flow,
         UpdateToken(f) \/ CreateToken(f) \/ SaveRefreshed(f)
  PROVE  Held(H)'
<1>1. CASE UpdateToken(f)
  BY <1>1, StoreHolds DEF UpdateToken, At, Holding, Storing
<1>2. CASE CreateToken(f)
  <2>1. CASE token[flow[f].target] = None
    BY <1>2, <2>1, StoreHolds DEF CreateToken, At, Holding, Storing
  <2>2. CASE token[flow[f].target] # None
    BY <1>2, <2>2, EndHolds DEF CreateToken, At, Ended, provider
  <2> QED
    BY <2>1, <2>2
<1>3. CASE SaveRefreshed(f)
  <2>1. flow[f].pc = "save" /\ flow[f].target = flow[f].client
    BY <1>3, HeldTypes DEF SaveRefreshed, At, Refreshes
  <2> QED
    BY <1>3, <2>1, StoreHolds DEF SaveRefreshed, Holding
<1> QED
  BY <1>1, <1>2, <1>3

LEMMA RefreshStep == ASSUME RefreshInv, [Next]_vars PROVE RefreshInv'
<1>1. LoginInv'
  BY LoginStep DEF RefreshInv
<1>2. PICK H : Held(H)
  BY DEF RefreshInv
<1>3. ASSUME NEW f \in Flow, Step(f) PROVE \E G : Held(G)'
  <2>1. CASE \/ Connect(f) \/ GetClient(f) \/ Consent(f) \/ Callback(f) \/ FindToken(f)
             \/ AskRefresh(f)
    BY <1>2, <2>1, QuietStep DEF RefreshInv
  <2>2. CASE GrantToken(f)
    BY <1>2, <2>2, GrantHolds DEF RefreshInv
  <2>3. CASE OAuthCallback(f)
    BY <1>2, <2>3, ExchangeHolds DEF RefreshInv
  <2>4. CASE UpdateToken(f) \/ CreateToken(f) \/ SaveRefreshed(f)
    BY <1>2, <2>4, StoringHolds DEF RefreshInv
  <2>5. CASE ReadToken(f)
    BY <1>2, <2>5, ReadHolds DEF RefreshInv
  <2>6. CASE Refresh(f)
    BY <1>2, <2>6, RefreshHolds DEF RefreshInv
  <2> QED
    BY <1>3, <2>1, <2>2, <2>3, <2>4, <2>5, <2>6 DEF Step
<1>4. ASSUME NEW t \in Task, Restart(t) PROVE \E G : Held(G)'
  BY <1>2, <1>4, RestartHolds DEF RefreshInv
<1>5. CASE UNCHANGED vars
  <2>1. UNCHANGED <<token, live, issued, orphaned, flow>>
    BY <1>5 DEF vars, provider
  <2>2. \A g \in Flow : Same(g)
    BY <2>1 DEF Same
  <2> QED
    BY <1>1, <1>2, <2>1, <2>2, QuietHolds DEF RefreshInv
<1> QED
  BY <1>1, <1>3, <1>4, <1>5 DEF Next, RefreshInv

LEMMA RefreshInit == Init => RefreshInv
<1> SUFFICES ASSUME Init PROVE RefreshInv
  OBVIOUS
<1>1. LoginInv
  BY LoginInit
<1>2. PICK H : H = [k \in TokenSet |-> k.owner]
  OBVIOUS
<1>3. \A x \in Client : Seed(x) \in TokenSet /\ Seed(x).owner = x /\ Seed(x).n = 0
  BY DEF Seed, Token, TokenSet
<1>4. Homes(H)
  BY <1>2, <1>3 DEF Homes, TokenSet
<1>5. \A f \in Flow : flow[f].pc = "idle"
  BY DEF Init, Idle
<1>6. TokensAtHome(H) /\ FromHome(H) /\ GoesHome(H)
  BY <1>3, <1>4, <1>5 DEF Init, TokensAtHome, FromHome, GoesHome, Homes, Refreshes, Holding,
     Storing
<1>7. \A x \in Client : token[x] # None => Works(x)
  BY DEF Init, Works
<1> QED
  BY <1>1, <1>4, <1>6, <1>7 DEF RefreshInv, Held

\* A stored refresh token works, or the refresh that used it up is about to save
\* its successor, or the task that did died: for any tasks, logins, refreshes,
\* rotating providers and restarts.
THEOREM StoredTokensWork == Spec => []StoredRefreshWorks
<1>1. RefreshInv /\ [Next]_vars => RefreshInv'
  BY RefreshStep
<1>2. RefreshInv => StoredRefreshWorks
  BY DEF RefreshInv, Held, Works, StoredRefreshWorks, At
<1> QED
  BY RefreshInit, <1>1, <1>2, PTL DEF Spec

=============================================================================
