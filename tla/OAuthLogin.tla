------------------------------- MODULE OAuthLogin -------------------------------
(***************************************************************************)
(* OAuth logins and token refreshes.  connectOAuth leaves what the callback    *)
(* needs in fields of a singleton service: the issuer of the client, the PKCE   *)
(* verifier and the client the login is for.  Every login and every refresh      *)
(* that runs on the same task overwrites them, a task that restarts loses them,  *)
(* and the load balancer brings the callback to any task.  A provider may        *)
(* rotate refresh tokens: the one that was used is dead.                        *)
(***************************************************************************)
EXTENDS Naturals, FiniteSets

CONSTANTS
  Task,      \* the service's tasks
  Flow,      \* the logins and refreshes, each run once
  Client,    \* the OAuth clients
  Grant,     \* client -> its grant: "code" and "pkce" go through a browser,
             \*   "credentials" (of the client) and "password" do not
  Echo,      \* the clients whose provider gives the state back
  Rotating,  \* the clients whose provider rotates refresh tokens
  Seeded,    \* the clients whose token is set up at every start of a task
  None,      \* no client, no flow, no token
  MaxRestarts

ASSUME OAuthAssumption ==
  /\ Grant \in [Client -> {"code", "pkce", "credentials", "password"}]
  /\ Echo \subseteq Client /\ Rotating \subseteq Client /\ Seeded \subseteq Client
  /\ None \notin Client \union Flow \union [owner : Client, n : Nat]
  /\ MaxRestarts \in Nat

VARIABLES
  flow,          \* what each flow is doing
  clientIssuer,  \* task -> the client of the last login or refresh
  codeVerifier,  \* task -> the flow of the last login with a browser
  testClient,    \* task -> the client of the last login
  token,         \* client -> the stored token
  issued,        \* the number of tokens issued
  live,          \* the refresh tokens that still work
  restarts,      \* the restarts still possible
  orphaned       \* history: the clients whose newest token died with a task

service == <<clientIssuer, codeVerifier, testClient>>
provider == <<issued, live>>
vars == <<flow, service, token, provider, restarts, orphaned>>

Browser(x) == Grant[x] \in {"code", "pkce"}

\* A refresh token: who it was issued to and its number, 0 for the seed.
Token(x, n) == [owner |-> x, n |-> n]

Seed(x) == Token(x, 0)

Idle == [pc |-> "idle", kind |-> "none", client |-> None, task |-> None, issuer |-> None,
         verifier |-> None, target |-> None, from |-> None, got |-> None, disturbed |-> FALSE]

At(f, p) == flow[f].pc = p
Ended == {"done", "lost", "error", "refused", "killed"}

Init ==
  /\ flow = [f \in Flow |-> Idle]
  /\ clientIssuer = [t \in Task |-> None] /\ codeVerifier = clientIssuer
  /\ testClient = clientIssuer
  /\ token = [x \in Client |-> IF x \in Seeded THEN Seed(x) ELSE None]
  /\ issued = 0 /\ live = {Seed(x) : x \in Seeded}
  /\ restarts = MaxRestarts /\ orphaned = {}

\* The fields of task t are overwritten: the logins waiting for them are disturbed.
Waiting(g, t) == flow[g].task = t /\ flow[g].pc \in {"consent", "callback", "exchange"}
Overwrite(f, t, r) ==
  flow' = [g \in Flow |-> IF g = f THEN r
                          ELSE [flow[g] EXCEPT !.disturbed = @ \/ Waiting(g, t)]]

---------------------------------------------------------------------------
(* connectOAuth. *)

Connect(f) ==
  /\ At(f, "idle")
  /\ \E x \in Client, t \in Task :
       flow' = [flow EXCEPT ![f] = [Idle EXCEPT !.pc = "connect", !.kind = "login",
                                                !.client = x, !.task = t, !.target = x]]
  /\ UNCHANGED <<service, token, provider, restarts, orphaned>>

\* Mutant of GetClient: the verifier is only made for the plain code grant.
GetClientNoVerifier(f) ==
  LET r == flow[f] IN
  /\ At(f, "connect")
  /\ clientIssuer' = [clientIssuer EXCEPT ![r.task] = r.client]
  /\ testClient' = [testClient EXCEPT ![r.task] = r.client]
  /\ codeVerifier' = IF Grant[r.client] = "code"
                     THEN [codeVerifier EXCEPT ![r.task] = f] ELSE codeVerifier
  /\ Overwrite(f, r.task,
       [r EXCEPT !.pc = IF Browser(r.client) THEN "consent" ELSE "grant"])
  /\ UNCHANGED <<token, provider, restarts, orphaned>>

\* Client and app are read; without another await the fields are set and the
\* link is answered, or the grant is asked for.
GetClient(f) ==
  LET r == flow[f] IN
  /\ At(f, "connect")
  /\ clientIssuer' = [clientIssuer EXCEPT ![r.task] = r.client]
  /\ testClient' = [testClient EXCEPT ![r.task] = r.client]
  /\ codeVerifier' = IF Browser(r.client)
                     THEN [codeVerifier EXCEPT ![r.task] = f] ELSE codeVerifier
  /\ Overwrite(f, r.task,
       [r EXCEPT !.pc = IF Browser(r.client) THEN "consent" ELSE "grant"])
  /\ UNCHANGED <<token, provider, restarts, orphaned>>

Issue(x) ==
  /\ issued' = issued + 1
  /\ live' = live \union {Token(x, issued + 1)}

\* The provider answers a client credentials or password grant.
GrantToken(f) ==
  LET r == flow[f] IN
  /\ At(f, "grant")
  /\ Issue(r.client)
  /\ flow' = [flow EXCEPT ![f].pc = "find", ![f].got = Token(r.client, issued + 1)]
  /\ UNCHANGED <<service, token, restarts, orphaned>>

---------------------------------------------------------------------------
(* callbackOAuth. *)

\* The user logs in; the browser comes back to some task.
Consent(f) ==
  /\ At(f, "consent")
  /\ \E t \in Task :
       flow' = [flow EXCEPT ![f].pc = "callback", ![f].task = t,
                            ![f].disturbed = @ \/ t # flow[f].task]
  /\ UNCHANGED <<service, token, provider, restarts, orphaned>>

\* The code is sent to the provider of the last login or refresh of this task,
\* with the last verifier; a task without one answers with the apps' page.
Callback(f) ==
  LET t == flow[f].task IN
  /\ At(f, "callback")
  /\ flow' = [flow EXCEPT ![f].pc = IF clientIssuer[t] = None THEN "lost" ELSE "exchange",
                          ![f].issuer = clientIssuer[t], ![f].verifier = codeVerifier[t]]
  /\ UNCHANGED <<service, token, provider, restarts, orphaned>>

\* The provider knows the code by its client, and by its challenge for PKCE.
Accepted(f) ==
  /\ flow[f].issuer = flow[f].client
  /\ Grant[flow[f].client] = "pkce" => flow[f].verifier = f

\* Mutant of Target: the state of the request is not used.
TargetOfTask(r) == testClient[r.task]

\* The client the token is stored for: from the state, or the last login's.
Target(r) == IF r.client \in Echo THEN r.client ELSE testClient[r.task]

\* The code is exchanged; without a client to store the token for it is lost.
OAuthCallback(f) ==
  LET r == flow[f] IN
  /\ At(f, "exchange")
  /\ \/ /\ Accepted(f)
        /\ Issue(r.client)
        /\ flow' = [flow EXCEPT ![f] =
                      [r EXCEPT !.pc = IF Target(r) = None THEN "lost" ELSE "find",
                                !.target = Target(r), !.got = Token(r.client, issued + 1)]]
     \/ /\ ~Accepted(f)
        /\ flow' = [flow EXCEPT ![f].pc = "lost"]
        /\ UNCHANGED provider
  /\ UNCHANGED <<service, token, restarts, orphaned>>

---------------------------------------------------------------------------
(* createClientToken. *)

FindToken(f) ==
  /\ At(f, "find")
  /\ flow' = [flow EXCEPT ![f].pc = IF token[flow[f].target] = None THEN "create" ELSE "update"]
  /\ UNCHANGED <<service, token, provider, restarts, orphaned>>

Store(x, k) ==
  /\ token' = [token EXCEPT ![x] = k]
  /\ orphaned' = orphaned \ {x}

UpdateToken(f) ==
  /\ At(f, "update")
  /\ Store(flow[f].target, flow[f].got)
  /\ flow' = [flow EXCEPT ![f].pc = "done"]
  /\ UNCHANGED <<service, provider, restarts>>

\* The create is conditional: of two first logins of a client one fails.
CreateToken(f) ==
  /\ At(f, "create")
  /\ IF token[flow[f].target] = None
     THEN /\ Store(flow[f].target, flow[f].got)
          /\ flow' = [flow EXCEPT ![f].pc = "done"]
     ELSE /\ flow' = [flow EXCEPT ![f].pc = "error"]
          /\ UNCHANGED <<token, orphaned>>
  /\ UNCHANGED <<service, provider, restarts>>

---------------------------------------------------------------------------
(* getRefreshToken. *)

ReadToken(f) ==
  /\ At(f, "idle")
  /\ \E x \in Client, t \in Task :
       flow' = [flow EXCEPT ![f] = [Idle EXCEPT !.pc = "ask", !.kind = "refresh",
                     !.client = x, !.task = t, !.target = x, !.from = token[x]]]
  /\ UNCHANGED <<service, token, provider, restarts, orphaned>>

\* getClient overwrites the issuer, also for a client without a token, whose
\* refresh then throws; the refresh is asked for with its own client.
AskRefresh(f) ==
  LET r == flow[f] IN
  /\ At(f, "ask")
  /\ clientIssuer' = [clientIssuer EXCEPT ![r.task] = r.client]
  /\ Overwrite(f, r.task, [r EXCEPT !.pc = IF r.from = None THEN "refused" ELSE "refresh"])
  /\ UNCHANGED <<codeVerifier, testClient, token, provider, restarts, orphaned>>

\* The provider answers, with a new grant for client credentials; a rotating one
\* takes the old token back.
Refresh(f) ==
  LET r == flow[f]
      x == r.client
      new == Token(x, issued + 1) IN
  /\ At(f, "refresh")
  /\ \/ /\ Grant[x] = "credentials"
        /\ Issue(x)
        /\ flow' = [flow EXCEPT ![f].pc = "save", ![f].got = new]
     \/ /\ Grant[x] # "credentials" /\ r.from \in live /\ x \in Rotating
        /\ issued' = issued + 1
        /\ live' = (live \ {r.from}) \union {new}
        /\ flow' = [flow EXCEPT ![f].pc = "save", ![f].got = new]
     \/ /\ Grant[x] # "credentials" /\ r.from \in live /\ x \notin Rotating
        /\ flow' = [flow EXCEPT ![f].pc = "save", ![f].got = r.from]
        /\ UNCHANGED provider
     \/ /\ Grant[x] # "credentials" /\ r.from \notin live
        /\ flow' = [flow EXCEPT ![f].pc = "refused"]
        /\ UNCHANGED provider
  /\ UNCHANGED <<service, token, restarts, orphaned>>

\* Mutant of SaveRefreshed: only the access token is saved.
SaveAccessToken(f) ==
  /\ At(f, "save")
  /\ flow' = [flow EXCEPT ![f].pc = "done"]
  /\ UNCHANGED <<service, token, provider, restarts, orphaned>>

SaveRefreshed(f) ==
  /\ At(f, "save")
  /\ Store(flow[f].client, flow[f].got)
  /\ flow' = [flow EXCEPT ![f].pc = "done"]
  /\ UNCHANGED <<service, provider, restarts>>

---------------------------------------------------------------------------
\* A task restarts: its fields and the flows it handles are gone, and the
\* set-up stores the seeds again.  Who is at the provider's page still returns.
Restart(t) ==
  LET dying == {f \in Flow : /\ flow[f].task = t
                             /\ flow[f].pc \notin Ended \union {"idle", "consent"}} IN
  /\ restarts > 0 /\ restarts' = restarts - 1
  /\ clientIssuer' = [clientIssuer EXCEPT ![t] = None]
  /\ codeVerifier' = [codeVerifier EXCEPT ![t] = None]
  /\ testClient' = [testClient EXCEPT ![t] = None]
  /\ flow' = [f \in Flow |->
                IF f \in dying THEN [flow[f] EXCEPT !.pc = "killed"]
                ELSE [flow[f] EXCEPT !.disturbed = @ \/ Waiting(f, t)]]
  /\ token' = [x \in Client |-> IF x \in Seeded THEN Seed(x) ELSE token[x]]
  /\ orphaned' = orphaned \union Seeded \union
                   {flow[f].client : f \in {g \in dying : At(g, "save")}}
  /\ UNCHANGED provider

Step(f) ==
  \/ Connect(f) \/ GetClient(f) \/ GrantToken(f)
  \/ Consent(f) \/ Callback(f) \/ OAuthCallback(f)
  \/ FindToken(f) \/ UpdateToken(f) \/ CreateToken(f)
  \/ ReadToken(f) \/ AskRefresh(f) \/ Refresh(f) \/ SaveRefreshed(f)

Next == (\E f \in Flow : Step(f)) \/ (\E t \in Task : Restart(t))

Spec == Init /\ [][Next]_vars

---------------------------------------------------------------------------
\* A login is lost on the way back only if it was disturbed: another login or
\* a refresh ran on its task meanwhile, the task restarted, or the callback
\* came to another task.  A login that fails later left a token behind that
\* somebody else stored (connectOAuth, callbackOAuth, createClientToken).
LostOnlyIfDisturbed ==
  \A f \in Flow :
    /\ At(f, "lost") => flow[f].disturbed
    /\ At(f, "error") => token[flow[f].target] # None

\* A token is stored for the client it was issued to, unless a provider that
\* does not give the state back met a login that was disturbed.
IssuedToItsClient ==
  \A x \in Client :
    token[x] # None /\ token[x].owner # x =>
      /\ token[x].owner \notin Echo
      /\ \E f \in Flow : flow[f].client = token[x].owner /\ flow[f].disturbed

\* The stored refresh token works, or the refresh that used it up is about to
\* store its successor, or died; a new login heals that (getRefreshToken).
StoredRefreshWorks ==
  \A x \in Client \ orphaned :
    token[x] # None =>
      \/ token[x] \in live
      \/ \E f \in Flow : At(f, "save") /\ flow[f].from = token[x]
=============================================================================
