-------------------------------- MODULE Accounts --------------------------------
(***************************************************************************)
(* Accounts.  A sign-up is a chain of some twenty calls without a transaction: *)
(* the e-mail is looked up in an index that lags behind its table, an           *)
(* organization is read or created, an API gateway, a usage plan and a key are   *)
(* made for it, its global variables and its next user are created on the        *)
(* condition that the key is free, and the user count is written back.           *)
(* The utilities of API Gateway log an error and return nothing: the sign-up      *)
(* goes on until it needs what it did not get.                                    *)
(***************************************************************************)
EXTENDS Integers, FiniteSets, Sequences

CONSTANTS
  Caller,      \* those who sign up; each has a password of its own
  Email,       \* the e-mails they sign up with
  OrgId,       \* the identifiers uuid can give
  None,        \* no organization
  Settings     \* NODE_ENV, and how many calls fail or tasks die, how often global
               \*   variables are removed, and what users do after the sign-up

Roles == {"TRIAL", "SUPPORT", "ADMINISTRATOR"}
Reset == "reset"    \* the password of whoever holds the reset mail

ASSUME AccountsAssumption ==
  /\ Settings \subseteq [mode : {"development", "test", "production"},
                         faults : Nat, removals : Nat, visits : Nat]
  /\ None \notin OrgId /\ Reset \notin Caller

VARIABLES
  setting,     \* the one of Settings that is run
  org,         \* organization -> its row
  aws,         \* organization -> what exists for it in API Gateway and Lambda
  variables,   \* the organizations with global variables
  user,        \* <<organization, number>> -> the row of the user
  indexed,     \* the users the e-mail index holds
  call,        \* what each sign-up is doing
  session,     \* the refresh tokens: user and role they were signed with
  mailed,      \* the users with a password reset mail
  faults, removals, visits,   \* what happened so far, within the bounds
  overlapped   \* history: the e-mails looked up before another sign-up could be seen

counts == <<faults, removals, visits>>
vars == <<setting, org, aws, variables, user, indexed, call, session, mailed, counts, overlapped>>

Idle == [at |-> "idle", email |-> None, invite |-> None, org |-> None, total |-> 0,
         role |-> "TRIAL", next |-> 1, got |-> {}]

Ended == {"idle", "answered", "refused", "failed"}
At(s, p) == call[s].at = p
Go(s, r) == call' = [call EXCEPT ![s] = r]

Key(s) == <<call[s].org, call[s].total + 1>>

Init ==
  /\ setting \in Settings
  /\ org = << >> /\ aws = [o \in OrgId |-> {}] /\ variables = {}
  /\ user = << >> /\ indexed = {}
  /\ call = [s \in Caller |-> Idle]
  /\ session = {} /\ mailed = {}
  /\ faults = 0 /\ removals = [o \in OrgId |-> 0] /\ visits = 0
  /\ overlapped = {}

---------------------------------------------------------------------------
(* The e-mail and the organization. *)

SignUp(s) ==
  /\ call[s].at \in {"idle", "failed"}
  /\ \E e \in Email, o \in OrgId \union {None} :
       Go(s, [Idle EXCEPT !.at = "check", !.email = e, !.invite = o])
  /\ UNCHANGED <<setting, org, aws, variables, user, indexed, session, mailed, counts, overlapped>>

\* The users the index gives for an e-mail; the code takes the first.
getUserByEmail(e) == {k \in indexed : user[k].email = e}

\* Another sign-up with this e-mail is under way, or stored but not yet indexed.
Unseen(s, e) ==
  \/ \E t \in Caller \ {s} : /\ call[t].email = e
                             /\ call[t].at \notin Ended \union {"check"}
  \/ \E k \in DOMAIN user \ indexed : user[k].email = e

\* Mutant of CheckEmail: the conflict is not thrown.
CheckEmailAnyway(s) ==
  LET r == call[s] IN
  /\ At(s, "check")
  /\ Go(s, [r EXCEPT !.at = IF r.invite = None THEN "create" ELSE "find"])
  /\ overlapped' = IF Unseen(s, r.email) THEN overlapped \union {r.email} ELSE overlapped
  /\ UNCHANGED <<setting, org, aws, variables, user, indexed, session, mailed, counts>>

CheckEmail(s) ==
  LET r == call[s] IN
  /\ At(s, "check")
  /\ IF getUserByEmail(r.email) # {}
     THEN Go(s, [r EXCEPT !.at = "refused"]) /\ UNCHANGED overlapped
     ELSE /\ Go(s, [r EXCEPT !.at = IF r.invite = None THEN "create" ELSE "find"])
          /\ overlapped' = IF Unseen(s, r.email) THEN overlapped \union {r.email}
                           ELSE overlapped
  /\ UNCHANGED <<setting, org, aws, variables, user, indexed, session, mailed, counts>>

\* An invitation names an organization; if there is none, one is created.
FindOrganization(s) ==
  LET o == call[s].invite IN
  /\ At(s, "find")
  /\ Go(s, IF o \in DOMAIN org
           THEN [call[s] EXCEPT !.at = "variables", !.org = o, !.total = org[o].total,
                                !.role = "SUPPORT"]
           ELSE [call[s] EXCEPT !.at = "create"])
  /\ UNCHANGED <<setting, org, aws, variables, user, indexed, session, mailed, counts, overlapped>>

NewOrganization == [total |-> 0, recorded |-> {}, removed |-> FALSE]

\* Without an invitation the new organization gets an API gateway.
CreateOrganization(s) ==
  /\ At(s, "create")
  /\ \E o \in OrgId \ DOMAIN org :
       /\ org' = [p \in DOMAIN org \union {o} |-> IF p = o THEN NewOrganization ELSE org[p]]
       /\ Go(s, [call[s] EXCEPT !.org = o,
                                !.at = IF call[s].invite = None THEN "gateway" ELSE "variables"])
  /\ UNCHANGED <<setting, aws, variables, user, indexed, session, mailed, counts, overlapped>>

---------------------------------------------------------------------------
(* createApiGateway: the calls in their order, and whose results each needs. *)

Chain(m) ==
  <<"defaults", "api", "base", "trigger", "aid", "method", "integration">>
  \o (IF m = "development" THEN << >> ELSE <<"permission">>)
  \o <<"plans">>
  \o (IF m = "production" THEN <<"deployment", "stage">> ELSE << >>)
  \o <<"plan", "key", "planKey", "record">>

\* What is dereferenced before the call is made.
Needs(c, m) ==
  CASE c \in {"defaults", "api", "plans", "key"} -> {}
    [] c = "base"        -> {"api"}
    [] c = "trigger"     -> {"api", "base"}
    [] c = "aid"         -> {"api", "trigger"}
    [] c \in {"method", "permission"} -> {"api", "aid"}
    [] c = "integration" -> {"api", "aid"} \union (IF m = "development" THEN {"defaults"} ELSE {})
    [] c = "deployment"  -> {"api", "plans"}
    [] c = "stage"       -> {"api", "deployment"}
    [] c = "plan"        -> {"api", "plans"}
    [] c = "planKey"     -> {"plan", "key"}
    [] c = "record"      -> {"api", "plan", "key"}

Current(s) == Chain(setting.mode)[call[s].next]
Ready(s) == Needs(Current(s), setting.mode) \subseteq call[s].got

\* What a utility leaves behind: API Gateway did what it was asked and the
\* caller has the result; or the caller has nothing, whether it was done or not.
Utility(s, c, done, heard) ==
  /\ faults' = IF done /\ heard THEN faults ELSE faults + 1
  /\ aws' = IF done THEN [aws EXCEPT ![call[s].org] = @ \union {c}] ELSE aws
  /\ Go(s, [call[s] EXCEPT !.next = @ + 1, !.got = IF heard THEN @ \union {c} ELSE @])

\* A call of an API gateway's own parts: itself, its resources, its method.
GatewayCalls == {"defaults", "api", "base", "trigger", "aid", "method", "integration"}
StageCalls == {"deployment", "stage"}
KeyCalls == {"plans", "plan", "key", "planKey"}

CallUtility(s, calls) ==
  /\ At(s, "gateway") /\ Current(s) \in calls /\ Ready(s)
  /\ \E done \in BOOLEAN, heard \in BOOLEAN :
       /\ heard => done
       /\ (done /\ heard) \/ faults < setting.faults
       /\ Utility(s, Current(s), done, heard)
  /\ UNCHANGED <<setting, org, variables, user, indexed, session, mailed, removals, visits,
                 overlapped>>

BuildGateway(s) == CallUtility(s, GatewayCalls)
AllowInvocation(s) == CallUtility(s, {"permission"})
Deploy(s) == CallUtility(s, StageCalls)
SellKeys(s) == CallUtility(s, KeyCalls)

\* Mutant of MissResult: the error is logged and the sign-up goes on.
MissResultLogged(s) ==
  /\ At(s, "gateway") /\ ~Ready(s)
  /\ Go(s, [call[s] EXCEPT !.at = "variables", !.got = {}])
  /\ UNCHANGED <<setting, org, aws, variables, user, indexed, session, mailed, counts, overlapped>>

\* A property of undefined is read: the sign-up throws, what was made stays.
MissResult(s) ==
  /\ At(s, "gateway") /\ ~Ready(s)
  /\ Go(s, [call[s] EXCEPT !.at = "failed", !.got = {}])
  /\ UNCHANGED <<setting, org, aws, variables, user, indexed, session, mailed, counts, overlapped>>

RecordGateway(s) ==
  /\ At(s, "gateway") /\ Current(s) = "record" /\ Ready(s)
  /\ org' = [org EXCEPT ![call[s].org].recorded = {"api", "plan", "key"}]
  /\ Go(s, [call[s] EXCEPT !.at = "variables", !.got = {}])
  /\ UNCHANGED <<setting, aws, variables, user, indexed, session, mailed, counts, overlapped>>

---------------------------------------------------------------------------
(* The global variables and the user. *)

\* create is refused when the key exists.
CreateVariables(s) ==
  /\ At(s, "variables")
  /\ IF call[s].org \in variables
     THEN Go(s, [call[s] EXCEPT !.at = "failed"]) /\ UNCHANGED variables
     ELSE /\ variables' = variables \union {call[s].org}
          /\ Go(s, [call[s] EXCEPT !.at = "store"])
  /\ UNCHANGED <<setting, org, aws, user, indexed, session, mailed, counts, overlapped>>

NewUser(s) == [email |-> call[s].email, password |-> s, role |-> call[s].role]

CreateUser(s) ==
  /\ At(s, "store")
  /\ IF Key(s) \in DOMAIN user
     THEN Go(s, [call[s] EXCEPT !.at = "failed"]) /\ UNCHANGED user
     ELSE /\ user' = [k \in DOMAIN user \union {Key(s)} |->
                        IF k = Key(s) THEN NewUser(s) ELSE user[k]]
          /\ Go(s, [call[s] EXCEPT !.at = "count"])
  /\ UNCHANGED <<setting, org, aws, variables, indexed, session, mailed, counts, overlapped>>

CountUser(s) ==
  /\ At(s, "count")
  /\ org' = [org EXCEPT ![call[s].org].total = call[s].total + 1]
  /\ Go(s, [call[s] EXCEPT !.at = "token"])
  /\ UNCHANGED <<setting, aws, variables, user, indexed, session, mailed, counts, overlapped>>

\* generateToken reads the organization and signs.
Signed(k) == [user |-> k, role |-> user[k].role]

AnswerToken(s) ==
  /\ At(s, "token")
  /\ session' = session \union {Signed(Key(s))}
  /\ Go(s, [call[s] EXCEPT !.at = "answered"])
  /\ UNCHANGED <<setting, org, aws, variables, user, indexed, mailed, counts, overlapped>>

\* A call of DynamoDB throws, or the task dies.
Break(s) ==
  /\ call[s].at \notin Ended
  /\ faults < setting.faults /\ faults' = faults + 1
  /\ Go(s, [call[s] EXCEPT !.at = "failed", !.got = {}])
  /\ UNCHANGED <<setting, org, aws, variables, user, indexed, session, mailed, removals, visits,
                 overlapped>>

UpdateIndex ==
  /\ indexed # DOMAIN user
  /\ \E k \in DOMAIN user \ indexed : indexed' = indexed \union {k}
  /\ UNCHANGED <<setting, org, aws, variables, user, call, session, mailed, counts, overlapped>>

---------------------------------------------------------------------------
(* What comes after. *)

\* Mutations of the resolvers: an organization without a user, its removal date,
\* and its global variables.  (saveOrganization takes more: a client may also set
\* TotalUSR, apiKey, usagePlanId and endpointId, which is left out.)
CreateEmptyOrganization ==
  /\ visits < setting.visits /\ visits' = visits + 1
  /\ \E o \in OrgId \ DOMAIN org :
       org' = [p \in DOMAIN org \union {o} |-> IF p = o THEN NewOrganization ELSE org[p]]
  /\ UNCHANGED <<setting, aws, variables, user, indexed, call, session, mailed, faults, removals,
                 overlapped>>

RequestRemoval ==
  /\ visits < setting.visits /\ visits' = visits + 1
  /\ \E o \in DOMAIN org : org' = [org EXCEPT ![o].removed = TRUE]
  /\ UNCHANGED <<setting, aws, variables, user, indexed, call, session, mailed, faults, removals,
                 overlapped>>

RemoveVariables ==
  /\ \E o \in variables :
       /\ removals[o] < setting.removals
       /\ variables' = variables \ {o}
       /\ removals' = [removals EXCEPT ![o] = @ + 1]
  /\ UNCHANGED <<setting, org, aws, user, indexed, call, session, mailed, faults, visits, overlapped>>

RestoreVariables ==
  /\ visits < setting.visits /\ visits' = visits + 1
  /\ \E o \in DOMAIN org \ variables : variables' = variables \union {o}
  /\ UNCHANGED <<setting, org, aws, user, indexed, call, session, mailed, faults, removals, overlapped>>

\* signIn: the index gives a user, the password fits and the organization stays.
SignIn ==
  /\ visits < setting.visits /\ visits' = visits + 1
  /\ \E e \in Email, p \in Caller \union {Reset} : \E k \in getUserByEmail(e) :
       /\ user[k].password = p
       /\ ~org[k[1]].removed
       /\ session' = session \union {Signed(k)}
  /\ UNCHANGED <<setting, org, aws, variables, user, indexed, call, mailed, faults, removals, overlapped>>

\* refreshToken asks neither for the password nor whether the organization stays.
RefreshToken ==
  /\ visits < setting.visits /\ visits' = visits + 1
  /\ \E t \in session : session' = session \union {Signed(t.user)}
  /\ UNCHANGED <<setting, org, aws, variables, user, indexed, call, mailed, faults, removals, overlapped>>

ForgotPassword ==
  /\ visits < setting.visits /\ visits' = visits + 1
  /\ \E e \in Email : \E k \in getUserByEmail(e) : mailed' = mailed \union {k}
  /\ UNCHANGED <<setting, org, aws, variables, user, indexed, call, session, faults, removals,
                 overlapped>>

\* The token of the mail works until it expires, more than once.
ResetPassword ==
  /\ visits < setting.visits /\ visits' = visits + 1
  /\ \E k \in mailed : user' = [user EXCEPT ![k].password = Reset]
  /\ UNCHANGED <<setting, org, aws, variables, indexed, call, session, mailed, faults, removals,
                 overlapped>>

UpdateUserRole ==
  /\ visits < setting.visits /\ visits' = visits + 1
  /\ \E k \in DOMAIN user, r \in Roles : user' = [user EXCEPT ![k].role = r]
  /\ UNCHANGED <<setting, org, aws, variables, indexed, call, session, mailed, faults, removals,
                 overlapped>>

Visit == \/ CreateEmptyOrganization \/ RequestRemoval \/ RestoreVariables \/ SignIn
         \/ RefreshToken \/ ForgotPassword \/ ResetPassword \/ UpdateUserRole

Next ==
  \/ \E s \in Caller :
       \/ SignUp(s) \/ CheckEmail(s) \/ FindOrganization(s) \/ CreateOrganization(s)
       \/ BuildGateway(s) \/ AllowInvocation(s) \/ Deploy(s) \/ SellKeys(s)
       \/ MissResult(s) \/ RecordGateway(s)
       \/ CreateVariables(s) \/ CreateUser(s) \/ CountUser(s) \/ AnswerToken(s) \/ Break(s)
  \/ UpdateIndex \/ RemoveVariables \/ Visit

Spec == Init /\ [][Next]_vars

---------------------------------------------------------------------------
(* Properties. *)

getAllUsersOfOrg(o) == {k \in DOMAIN user : k[1] = o}

Founder(s) == call[s].invite = None

\* A sign-up that was answered left the whole of an account, whatever failed on
\* the way and whoever signed up beside it: its user, under its e-mail and with a
\* password of its own or reset, and for the founder of an organization a gateway
\* with its resource, a plan and a key, known to the organization.
AnsweredIsWhole ==
  \A s \in Caller : At(s, "answered") =>
    /\ Key(s) \in DOMAIN user
    /\ user[Key(s)].email = call[s].email
    /\ user[Key(s)].password \in {s, Reset}
    /\ Founder(s) => /\ org[call[s].org].recorded = {"api", "plan", "key"}
                     /\ {"api", "aid", "plan", "key"} \subseteq aws[call[s].org]

\* Two users share an e-mail only when one of them signed up before the index
\* could show the other: a check that came later was refused.
EmailOnce ==
  \A j, k \in DOMAIN user :
    user[j].email = user[k].email => j = k \/ user[j].email \in overlapped

\* The mail of inviteUserToOrganization says "To accept invitation, click on the
\* URL below and signup": where nothing fails, the sign-up of one invited to an
\* organization with users fails only if another one took its number meanwhile.
InvitationsAccepted ==
  \A s \in Caller : LET o == call[s].invite IN
    At(s, "failed") /\ faults = 0 /\ call[s].org = o /\ getAllUsersOfOrg(o) # {} =>
      Key(s) \in DOMAIN user

\* What signUp does instead: it creates the organization's global variables again
\* and fails, so an organization has a second user only after they were removed.
MoreUsersNeedRemovals ==
  \A o \in OrgId : Cardinality(getAllUsersOfOrg(o)) <= 1 + removals[o]
=============================================================================
