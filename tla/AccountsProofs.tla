----------------------------- MODULE AccountsProofs -----------------------------
(***************************************************************************)
(* Proofs about sign-ups, for any number of callers, e-mails, organizations, *)
(* failures and visits.  The first invariant follows an e-mail from the look-up *)
(* in the index to the row of the user: between them, a sign-up that nobody is *)
(* known to overlap is the only one with its e-mail, and no user has it.  The *)
(* second says what a sign-up has made at each of its points, the third counts *)
(* users and sign-ups about to store one.                                  *)
(***************************************************************************)
EXTENDS Accounts, FiniteSetTheorems, TLAPS

\* The calls and the rows have the fields the argument reads.
Shape ==
  /\ DOMAIN call = Caller
  /\ \A s \in Caller : {"at", "email"} \subseteq DOMAIN call[s]
  /\ \A k \in DOMAIN user : "email" \in DOMAIN user[k]

\* Where a sign-up has passed the check and not stored its user.
Between == {"find", "create", "gateway", "variables", "store"}
Passing(s) == call[s].at \in Between

\* Two of one e-mail are known to overlap.
PassedAlone ==
  \A s, t \in Caller :
    Passing(s) /\ Passing(t) /\ call[s].email = call[t].email =>
      s = t \/ call[s].email \in overlapped

\* The e-mail of one of them is no user's, or is known to overlap.
PassedFirst ==
  \A s \in Caller, k \in DOMAIN user :
    Passing(s) /\ user[k].email = call[s].email => call[s].email \in overlapped

EmailInv == Shape /\ PassedAlone /\ PassedFirst /\ EmailOnce

-------------------------------------------------------------------------------
(* Steps that neither pass a check nor store a user. *)

SameEmails ==
  /\ DOMAIN user' = DOMAIN user
  /\ \A k \in DOMAIN user : "email" \in DOMAIN user'[k] /\ user'[k].email = user[k].email

\* A call that moves on keeps its e-mail while it is between the check and the row.
LEMMA MovesOn ==
  ASSUME EmailInv, SameEmails, overlapped' = overlapped, NEW s \in Caller, NEW r, Go(s, r),
         {"at", "email"} \subseteq DOMAIN r,
         r.at \in Between => Passing(s) /\ r.email = call[s].email
  PROVE  EmailInv'
<1>1. /\ DOMAIN call' = Caller /\ call'[s] = r
      /\ \A t \in Caller \ {s} : call'[t] = call[t]
  BY DEF EmailInv, Shape, Go
<1>2. \A t \in Caller : Passing(t)' => Passing(t) /\ call'[t].email = call[t].email
  BY <1>1 DEF Passing
<1>3. Shape'
  BY <1>1 DEF EmailInv, Shape, SameEmails
<1>4. PassedAlone'
  BY <1>2 DEF EmailInv, PassedAlone
<1>5. PassedFirst'
  BY <1>2 DEF EmailInv, PassedFirst, SameEmails
<1>6. EmailOnce'
  BY DEF EmailInv, EmailOnce, SameEmails
<1> QED
  BY <1>3, <1>4, <1>5, <1>6 DEF EmailInv

\* Nobody moves and no e-mail changes.
LEMMA StaysPut ==
  ASSUME EmailInv, SameEmails, overlapped' = overlapped, call' = call
  PROVE  EmailInv'
  BY DEF EmailInv, SameEmails, Shape, PassedAlone, PassedFirst, EmailOnce, Passing

\* Users that stay keep their e-mails.
LEMMA UsersUnchanged == ASSUME EmailInv, user' = user PROVE SameEmails
  BY DEF EmailInv, Shape, SameEmails

-------------------------------------------------------------------------------
(* The sign-up's own steps. *)

\* A sign-up begins: its e-mail has not been looked up.
LEMMA SignUpKeeps == ASSUME EmailInv, NEW s \in Caller, SignUp(s) PROVE EmailInv'
<1>1. PICK e \in Email, o \in OrgId \union {None} :
        Go(s, [Idle EXCEPT !.at = "check", !.email = e, !.invite = o])
  BY DEF SignUp
<1> DEFINE r == [Idle EXCEPT !.at = "check", !.email = e, !.invite = o]
<1>2. {"at", "email"} \subseteq DOMAIN r /\ r.at \notin Between
  BY DEF Idle, Between
<1> HIDE DEF r
<1> QED
  BY <1>1, <1>2, MovesOn, UsersUnchanged DEF SignUp, r

\* The look-up finds nobody; whoever it cannot see makes the e-mail overlapped.
LEMMA CheckKeeps == ASSUME EmailInv, NEW s \in Caller, CheckEmail(s) PROVE EmailInv'
<1>1. user' = user
  BY DEF CheckEmail
<1>2. CASE getUserByEmail(call[s].email) # {}
  <2> DEFINE r == [call[s] EXCEPT !.at = "refused"]
  <2>1. Go(s, r) /\ overlapped' = overlapped
    BY <1>2 DEF CheckEmail
  <2>2. {"at", "email"} \subseteq DOMAIN r /\ r.at \notin Between
    BY DEF EmailInv, Shape, Between
  <2> QED
    BY <1>1, <2>1, <2>2, MovesOn, UsersUnchanged
<1>3. CASE getUserByEmail(call[s].email) = {}
  <2> DEFINE e == call[s].email
             r == [call[s] EXCEPT !.at = IF call[s].invite = None THEN "create" ELSE "find"]
  <2>1. Go(s, r) /\ overlapped' = IF Unseen(s, e) THEN overlapped \union {e} ELSE overlapped
    BY <1>3 DEF CheckEmail
  <2>2. {"at", "email"} \subseteq DOMAIN r /\ r.email = e
    BY DEF EmailInv, Shape
  <2> HIDE DEF r
  <2>3. /\ DOMAIN call' = Caller /\ call'[s].email = e
        /\ \A t \in Caller \ {s} : call'[t] = call[t]
    BY <2>1, <2>2 DEF EmailInv, Shape, Go
  <2>4. overlapped \subseteq overlapped' /\ (Unseen(s, e) => e \in overlapped')
    BY <2>1
  <2>5. Shape'
    BY <1>1, <2>1, <2>2 DEF EmailInv, Shape, Go
  <2>6. ASSUME NEW t \in Caller \ {s}, Passing(t), call[t].email = e PROVE e \in overlapped'
    BY <2>4, <2>6 DEF Unseen, Passing, Between, Ended
  <2>7. ASSUME NEW k \in DOMAIN user, user[k].email = e PROVE e \in overlapped'
    BY <1>3, <2>4, <2>7 DEF Unseen, getUserByEmail
  <2>8. PassedAlone'
    BY <2>3, <2>4, <2>6 DEF EmailInv, PassedAlone, Passing
  <2>9. PassedFirst'
    BY <1>1, <2>3, <2>4, <2>7 DEF EmailInv, PassedFirst, Passing
  <2>10. EmailOnce'
    BY <1>1, <2>4 DEF EmailInv, EmailOnce
  <2> QED
    BY <2>5, <2>8, <2>9, <2>10 DEF EmailInv
<1> QED
  BY <1>2, <1>3

\* Between the look-up and the row the e-mail stays: the invitation's organization.
LEMMA FindKeeps == ASSUME EmailInv, NEW s \in Caller, FindOrganization(s) PROVE EmailInv'
<1> DEFINE o == call[s].invite
           r == IF o \in DOMAIN org
                THEN [call[s] EXCEPT !.at = "variables", !.org = o, !.total = org[o].total,
                                     !.role = "SUPPORT"]
                ELSE [call[s] EXCEPT !.at = "create"]
<1>1. Go(s, r) /\ user' = user /\ overlapped' = overlapped /\ Passing(s)
  BY DEF FindOrganization, Passing, Between, At
<1>2. {"at", "email"} \subseteq DOMAIN r /\ r.email = call[s].email
  BY DEF EmailInv, Shape
<1> HIDE DEF r
<1> QED
  BY <1>1, <1>2, MovesOn, UsersUnchanged

\* The same for the organization that is created.
LEMMA CreateKeeps == ASSUME EmailInv, NEW s \in Caller, CreateOrganization(s) PROVE EmailInv'
<1>1. PICK o \in OrgId \ DOMAIN org :
        Go(s, [call[s] EXCEPT !.org = o,
                 !.at = IF call[s].invite = None THEN "gateway" ELSE "variables"])
  BY DEF CreateOrganization
<1> DEFINE r == [call[s] EXCEPT !.org = o,
                   !.at = IF call[s].invite = None THEN "gateway" ELSE "variables"]
<1>2. user' = user /\ overlapped' = overlapped /\ Passing(s)
  BY DEF CreateOrganization, Passing, Between, At
<1>3. {"at", "email"} \subseteq DOMAIN r /\ r.email = call[s].email
  BY DEF EmailInv, Shape
<1> HIDE DEF r
<1> QED
  BY <1>1, <1>2, <1>3, MovesOn, UsersUnchanged DEF r

\* The same for a call of a utility.
LEMMA UtilityKeeps ==
  ASSUME EmailInv, NEW s \in Caller, NEW calls, CallUtility(s, calls)
  PROVE  EmailInv'
<1>1. PICK heard \in BOOLEAN :
        Go(s, [call[s] EXCEPT !.next = @ + 1,
                              !.got = IF heard THEN @ \union {Current(s)} ELSE @])
  BY DEF CallUtility, Utility
<1> DEFINE r == [call[s] EXCEPT !.next = @ + 1,
                                !.got = IF heard THEN @ \union {Current(s)} ELSE @]
<1>2. user' = user /\ overlapped' = overlapped /\ Passing(s)
  BY DEF CallUtility, Passing, Between, At
<1>3. {"at", "email"} \subseteq DOMAIN r /\ r.email = call[s].email
  BY DEF EmailInv, Shape
<1> HIDE DEF r
<1> QED
  BY <1>1, <1>2, <1>3, MovesOn, UsersUnchanged DEF r

\* A sign-up that misses a result ends.
LEMMA MissKeeps == ASSUME EmailInv, NEW s \in Caller, MissResult(s) PROVE EmailInv'
<1> DEFINE r == [call[s] EXCEPT !.at = "failed", !.got = {}]
<1>1. Go(s, r) /\ user' = user /\ overlapped' = overlapped
  BY DEF MissResult
<1>2. {"at", "email"} \subseteq DOMAIN r /\ r.at \notin Between
  BY DEF EmailInv, Shape, Between
<1> HIDE DEF r
<1> QED
  BY <1>1, <1>2, MovesOn, UsersUnchanged

\* A sign-up that breaks ends.
LEMMA BreakKeeps == ASSUME EmailInv, NEW s \in Caller, Break(s) PROVE EmailInv'
<1> DEFINE r == [call[s] EXCEPT !.at = "failed", !.got = {}]
<1>1. Go(s, r) /\ user' = user /\ overlapped' = overlapped
  BY DEF Break
<1>2. {"at", "email"} \subseteq DOMAIN r /\ r.at \notin Between
  BY DEF EmailInv, Shape, Between
<1> HIDE DEF r
<1> QED
  BY <1>1, <1>2, MovesOn, UsersUnchanged

\* The e-mail stays while the gateway is recorded.
LEMMA RecordKeeps == ASSUME EmailInv, NEW s \in Caller, RecordGateway(s) PROVE EmailInv'
<1> DEFINE r == [call[s] EXCEPT !.at = "variables", !.got = {}]
<1>1. Go(s, r) /\ user' = user /\ overlapped' = overlapped /\ Passing(s)
  BY DEF RecordGateway, Passing, Between, At
<1>2. {"at", "email"} \subseteq DOMAIN r /\ r.email = call[s].email
  BY DEF EmailInv, Shape
<1> HIDE DEF r
<1> QED
  BY <1>1, <1>2, MovesOn, UsersUnchanged

\* The e-mail stays while the global variables are created.
LEMMA VariablesKeep == ASSUME EmailInv, NEW s \in Caller, CreateVariables(s) PROVE EmailInv'
<1> DEFINE r == [call[s] EXCEPT !.at = IF call[s].org \in variables THEN "failed" ELSE "store"]
<1>1. Go(s, r) /\ user' = user /\ overlapped' = overlapped /\ Passing(s)
  BY DEF CreateVariables, Passing, Between, At
<1>2. {"at", "email"} \subseteq DOMAIN r /\ r.email = call[s].email
  BY DEF EmailInv, Shape
<1> HIDE DEF r
<1> QED
  BY <1>1, <1>2, MovesOn, UsersUnchanged

\* The row is the first with its e-mail, or the e-mail is known to overlap.
LEMMA CreateUserKeeps == ASSUME EmailInv, NEW s \in Caller, CreateUser(s) PROVE EmailInv'
<1>1. overlapped' = overlapped /\ Passing(s)
  BY DEF CreateUser, Passing, Between, At
<1>2. CASE Key(s) \in DOMAIN user
  <2> DEFINE r == [call[s] EXCEPT !.at = "failed"]
  <2>1. Go(s, r) /\ user' = user
    BY <1>2 DEF CreateUser
  <2>2. {"at", "email"} \subseteq DOMAIN r /\ r.at \notin Between
    BY DEF EmailInv, Shape, Between
  <2> QED
    BY <1>1, <2>1, <2>2, MovesOn, UsersUnchanged
<1>3. CASE Key(s) \notin DOMAIN user
  <2> DEFINE r == [call[s] EXCEPT !.at = "count"]
             new == Key(s)
             e == call[s].email
  <2>1. /\ Go(s, r)
        /\ user' = [k \in DOMAIN user \union {new} |-> IF k = new THEN NewUser(s) ELSE user[k]]
    BY <1>3 DEF CreateUser
  <2>2. {"at", "email"} \subseteq DOMAIN r /\ r.at \notin Between
    BY DEF EmailInv, Shape, Between
  <2>3. NewUser(s).email = e /\ "email" \in DOMAIN NewUser(s)
    BY DEF NewUser
  <2> HIDE DEF r, new
  <2>4. /\ DOMAIN user' = DOMAIN user \union {new} /\ user'[new].email = e
        /\ \A k \in DOMAIN user : user'[k] = user[k]
    BY <1>3, <2>1, <2>3 DEF new
  <2>5. /\ DOMAIN call' = Caller /\ ~Passing(s)'
        /\ \A t \in Caller \ {s} : call'[t] = call[t]
    BY <2>1, <2>2 DEF EmailInv, Shape, Go, Passing
  <2>6. \A t \in Caller : Passing(t)' => t # s /\ Passing(t) /\ call'[t] = call[t]
    BY <2>5 DEF Passing
  <2>7. Shape'
    <3>1. \A t \in Caller : {"at", "email"} \subseteq DOMAIN call'[t]
      BY <2>1, <2>2 DEF EmailInv, Shape, Go
    <3>2. \A k \in DOMAIN user' : "email" \in DOMAIN user'[k]
      BY <2>1, <2>3 DEF EmailInv, Shape
    <3> QED
      BY <2>5, <3>1, <3>2 DEF Shape
  <2>8. PassedAlone'
    BY <1>1, <2>6 DEF EmailInv, PassedAlone
  <2>9. PassedFirst'
    <3> SUFFICES ASSUME NEW t \in Caller, NEW k \in DOMAIN user', Passing(t)',
                        user'[k].email = call'[t].email
                 PROVE  call'[t].email \in overlapped'
      BY DEF PassedFirst
    <3>1. CASE k \in DOMAIN user
      BY <1>1, <2>4, <2>6, <3>1 DEF EmailInv, PassedFirst
    <3>2. CASE k = new
      BY <1>1, <2>4, <2>6, <3>2 DEF EmailInv, PassedAlone
    <3> QED
      BY <2>4, <3>1, <3>2
  <2>10. EmailOnce'
    BY <1>1, <2>4 DEF EmailInv, EmailOnce, PassedFirst
  <2> QED
    BY <2>7, <2>8, <2>9, <2>10 DEF EmailInv
<1> QED
  BY <1>2, <1>3

\* After the row the e-mail does not matter any more: the count.
LEMMA CountKeeps == ASSUME EmailInv, NEW s \in Caller, CountUser(s) PROVE EmailInv'
<1> DEFINE r == [call[s] EXCEPT !.at = "token"]
<1>1. Go(s, r) /\ user' = user /\ overlapped' = overlapped
  BY DEF CountUser
<1>2. {"at", "email"} \subseteq DOMAIN r /\ r.at \notin Between
  BY DEF EmailInv, Shape, Between
<1> HIDE DEF r
<1> QED
  BY <1>1, <1>2, MovesOn, UsersUnchanged

\* The same for the answer.
LEMMA AnswerKeeps == ASSUME EmailInv, NEW s \in Caller, AnswerToken(s) PROVE EmailInv'
<1> DEFINE r == [call[s] EXCEPT !.at = "answered"]
<1>1. Go(s, r) /\ user' = user /\ overlapped' = overlapped
  BY DEF AnswerToken
<1>2. {"at", "email"} \subseteq DOMAIN r /\ r.at \notin Between
  BY DEF EmailInv, Shape, Between
<1> HIDE DEF r
<1> QED
  BY <1>1, <1>2, MovesOn, UsersUnchanged

-------------------------------------------------------------------------------
(* The steps of nobody's sign-up. *)

\* No visit changes an e-mail.
LEMMA VisitKeeps == ASSUME EmailInv, Visit PROVE EmailInv'
<1>1. call' = call /\ overlapped' = overlapped
  BY DEF Visit, CreateEmptyOrganization, RequestRemoval, RestoreVariables, SignIn,
         RefreshToken, ForgotPassword, ResetPassword, UpdateUserRole
<1>2. CASE ResetPassword
  <2>1. PICK k \in mailed : user' = [user EXCEPT ![k].password = Reset]
    BY <1>2 DEF ResetPassword
  <2> QED
    BY <1>1, <2>1, StaysPut DEF SameEmails, EmailInv, Shape
<1>3. CASE UpdateUserRole
  <2>1. PICK k \in DOMAIN user, r \in Roles : user' = [user EXCEPT ![k].role = r]
    BY <1>3 DEF UpdateUserRole
  <2> QED
    BY <1>1, <2>1, StaysPut DEF SameEmails, EmailInv, Shape
<1>4. CASE ~ResetPassword /\ ~UpdateUserRole
  <2>1. user' = user
    BY <1>4 DEF Visit, CreateEmptyOrganization, RequestRemoval, RestoreVariables, SignIn,
                RefreshToken, ForgotPassword
  <2> QED
    BY <1>1, <2>1, StaysPut, UsersUnchanged
<1> QED
  BY <1>2, <1>3, <1>4

\* Every step keeps the invariant.
LEMMA EmailStep == ASSUME EmailInv, [Next]_vars PROVE EmailInv'
<1>1. ASSUME NEW s \in Caller,
             \/ SignUp(s) \/ CheckEmail(s) \/ FindOrganization(s) \/ CreateOrganization(s)
             \/ BuildGateway(s) \/ AllowInvocation(s) \/ Deploy(s) \/ SellKeys(s)
             \/ MissResult(s) \/ RecordGateway(s)
             \/ CreateVariables(s) \/ CreateUser(s) \/ CountUser(s) \/ AnswerToken(s) \/ Break(s)
      PROVE  EmailInv'
  <2>1. CASE BuildGateway(s) \/ AllowInvocation(s) \/ Deploy(s) \/ SellKeys(s)
    BY <2>1, UtilityKeeps DEF BuildGateway, AllowInvocation, Deploy, SellKeys
  <2> QED
    BY <1>1, <2>1, SignUpKeeps, CheckKeeps, FindKeeps, CreateKeeps, MissKeeps, RecordKeeps,
       VariablesKeep, CreateUserKeeps, CountKeeps, AnswerKeeps, BreakKeeps
<1>2. CASE UpdateIndex \/ RemoveVariables \/ UNCHANGED vars
  BY <1>2, StaysPut, UsersUnchanged DEF UpdateIndex, RemoveVariables, vars
<1> QED
  BY <1>1, <1>2, VisitKeeps DEF Next

\* At the start there are no users.
LEMMA EmailInit == Init => EmailInv
<1> SUFFICES ASSUME Init PROVE EmailInv
  OBVIOUS
<1>1. /\ call = [s \in Caller |-> Idle] /\ DOMAIN user = {}
  BY DEF Init
<1>2. DOMAIN Idle = {"at", "email", "invite", "org", "total", "role", "next", "got"}
      /\ Idle.at \notin Between
  BY DEF Idle, Between
<1> QED
  BY <1>1, <1>2 DEF EmailInv, Shape, PassedAlone, PassedFirst, EmailOnce, Passing

\* Two users share an e-mail only when one of them signed up before the index
\* could show the other, however many sign up, fail, visit and come back.
THEOREM EmailsAreUnique == Spec => []EmailOnce
<1>1. EmailInv /\ [Next]_vars => EmailInv'
  BY EmailStep
<1>2. EmailInv => EmailOnce
  BY DEF EmailInv
<1> QED
  BY EmailInit, <1>1, <1>2, PTL DEF Spec

-----------------------------------------------------------------------------
Fields == {"at", "email", "invite", "org", "total", "role", "next", "got"}

\* Where a sign-up has its organization, its gateway if it is the founder's,
\* and its user.
Stored == {"count", "token", "answered"}
Equipped == {"variables", "store"} \union Stored
Located == {"gateway"} \union Equipped

GatewayOf(o) ==
  /\ org[o].recorded = {"api", "plan", "key"}
  /\ {"api", "aid", "plan", "key"} \subseteq aws[o]

\* The chain comes past the resource's identifier, which the method needs.
ChainOK(r) ==
  /\ r.next \in Nat \ {0} /\ r.got \subseteq aws[r.org]
  /\ r.next > 6 => "aid" \in r.got

UserOf(s, r) ==
  LET k == <<r.org, r.total + 1>> IN
  k \in DOMAIN user /\ user[k].email = r.email /\ user[k].password \in {s, Reset}

\* What a sign-up has made is there.
Whole(s, r) ==
  /\ Fields \subseteq DOMAIN r
  /\ r.at \in {"check", "find", "create"} => r.next = 1 /\ r.got = {}
  /\ r.at = "find" => r.invite # None
  /\ r.at \in Located => r.org \in DOMAIN org
  /\ r.at = "gateway" => ChainOK(r)
  /\ r.at \in Equipped /\ r.invite = None => GatewayOf(r.org)
  /\ r.at \in Stored => UserOf(s, r)

Rows ==
  /\ setting \in Settings
  /\ DOMAIN org \subseteq OrgId /\ \A o \in DOMAIN org : "recorded" \in DOMAIN org[o]
  /\ aws = [o \in OrgId |-> aws[o]]
  /\ variables \subseteq OrgId /\ removals \in [OrgId -> Nat]
  /\ \A k \in DOMAIN user : {"email", "password"} \subseteq DOMAIN user[k]

WholeInv == Rows /\ DOMAIN call = Caller /\ \A s \in Caller : Whole(s, call[s])

\* What every step keeps: organizations and their gateways, users and their
\* e-mails; a password is only reset.
Grows ==
  /\ \A o \in DOMAIN org : o \in DOMAIN org'
  /\ \A o \in DOMAIN org : GatewayOf(o) => GatewayOf(o)'
  /\ \A o \in OrgId : aws[o] \subseteq aws'[o]
  /\ \A k \in DOMAIN user :
       /\ k \in DOMAIN user' /\ user'[k].email = user[k].email
       /\ user'[k].password \in {user[k].password, Reset}

\* What a sign-up has made stays.
LEMMA WholeKept ==
  ASSUME Rows, Grows, NEW s, NEW r, Whole(s, r)
  PROVE  Whole(s, r)'
<1>1. r.at = "gateway" => ChainOK(r)'
  <2>1. r.at = "gateway" => r.org \in OrgId
    BY DEF Whole, Located, Rows
  <2> QED
    BY <2>1 DEF Whole, ChainOK, Grows
<1>2. r.at \in Equipped /\ r.invite = None => GatewayOf(r.org)'
  BY DEF Whole, Located, Grows
<1>3. r.at \in Stored => UserOf(s, r)'
  BY DEF Whole, UserOf, Grows
<1>4. r.at \in Located => r.org \in DOMAIN org'
  BY DEF Whole, Grows
<1> QED
  BY <1>1, <1>2, <1>3, <1>4 DEF Whole

\* One sign-up moves.
LEMMA WholeMoves ==
  ASSUME WholeInv, Grows, Rows', NEW s \in Caller, NEW r, Go(s, r), Whole(s, r)'
  PROVE  WholeInv'
<1>1. PICK f : f = call'
  OBVIOUS
<1>2. DOMAIN f = Caller /\ \A t \in Caller : f[t] = IF t = s THEN r ELSE call[t]
  BY <1>1 DEF WholeInv, Go
<1>3. ASSUME NEW t \in Caller PROVE Whole(t, f[t])'
  <2>1. CASE t = s
    BY <1>2, <2>1
  <2>2. CASE t # s
    <3>1. PICK q : q = call[t]
      OBVIOUS
    <3>2. Whole(t, q)'
      BY <3>1, WholeKept DEF WholeInv
    <3> QED
      BY <1>2, <2>2, <3>1, <3>2
  <2> QED
    BY <2>1, <2>2
<1> QED
  BY <1>1, <1>2, <1>3 DEF WholeInv

\* Nobody moves.
LEMMA WholeStays ==
  ASSUME WholeInv, Grows, Rows', call' = call
  PROVE  WholeInv'
<1>1. PICK f : f = call
  OBVIOUS
<1>2. ASSUME NEW t \in Caller PROVE Whole(t, f[t])'
  <2>1. PICK q : q = f[t]
    OBVIOUS
  <2>2. Whole(t, q)'
    BY <1>1, <2>1, WholeKept DEF WholeInv
  <2> QED
    BY <2>1, <2>2
<1> QED
  BY <1>1, <1>2 DEF WholeInv

\* Tables that stay have grown.
LEMMA GrowsSame ==
  ASSUME Rows, UNCHANGED <<org, aws, user>>
  PROVE  Grows
BY DEF Grows, GatewayOf

\* Tables that stay keep their shape.
LEMMA RowsSame ==
  ASSUME Rows, UNCHANGED <<setting, org, aws, user>>, variables' \subseteq OrgId,
         removals' = removals
  PROVE  Rows'
BY DEF Rows

\* A sign-up that only moves.
LEMMA QuietMove ==
  ASSUME WholeInv, NEW s \in Caller, NEW r, Go(s, r),
         UNCHANGED <<setting, org, aws, user, removals>>, variables' \subseteq OrgId,
         Whole(s, r)
  PROVE  WholeInv'
<1>1. Rows /\ Grows /\ Rows'
  BY GrowsSame, RowsSame DEF WholeInv
<1>2. Whole(s, r)'
  BY <1>1, WholeKept
<1> QED
  BY <1>1, <1>2, WholeMoves

\* A sign-up that has ended without an answer, or begins, has made nothing.
LEMMA NothingMade ==
  ASSUME NEW s, NEW r, Fields \subseteq DOMAIN r,
         r.at \in {"idle", "check", "refused", "failed", "create"},
         r.at \in {"check", "create"} => r.next = 1 /\ r.got = {}
  PROVE  Whole(s, r)
BY DEF Whole, Located, Equipped, Stored

-----------------------------------------------------------------------------
\* The sixth call puts the method; the record of the gateway is none of the first.
LEMMA ChainBegins ==
  ASSUME NEW m
  PROVE  Chain(m)[6] = "method" /\ \A i \in 1..6 : Chain(m)[i] # "record"
<1> DEFINE A == <<"defaults", "api", "base", "trigger", "aid", "method", "integration">>
           B == IF m = "development" THEN << >> ELSE <<"permission">>
           C == IF m = "production" THEN <<"deployment", "stage">> ELSE << >>
           P == <<"plans">>
           D == <<"plan", "key", "planKey", "record">>
           U == {"defaults", "api", "base", "trigger", "aid", "method", "integration",
                 "permission", "plans", "deployment", "stage", "plan", "key", "planKey", "record"}
<1>1. A \in Seq(U) /\ Len(A) >= 7
  OBVIOUS
<1>2. B \in Seq(U) /\ C \in Seq(U) /\ P \in Seq(U) /\ D \in Seq(U)
  <2>1. << >> \in Seq(U) /\ <<"permission">> \in Seq(U)
    OBVIOUS
  <2>2. <<"deployment", "stage">> \in Seq(U) /\ P \in Seq(U)
    OBVIOUS
  <2>3. D \in Seq(U)
    OBVIOUS
  <2> HIDE DEF U, P, D
  <2> QED
    BY <2>1, <2>2, <2>3
<1>3. Chain(m) = (((A \o B) \o P) \o C) \o D
  BY DEF Chain
<1>4. A[6] = "method" /\ \A i \in 1..6 : A[i] # "record"
  OBVIOUS
<1> HIDE DEF A, B, C, P, D, U
<1>5. \A X, Y \in Seq(U) : Len(X) >= 7 =>
        /\ X \o Y \in Seq(U) /\ Len(X \o Y) >= 7
        /\ \A i \in 1..6 : (X \o Y)[i] = X[i]
  OBVIOUS
<1>6. A \o B \in Seq(U) /\ Len(A \o B) >= 7 /\ \A i \in 1..6 : (A \o B)[i] = A[i]
  BY <1>1, <1>2, <1>5
<1> DEFINE AB == A \o B
<1> HIDE DEF AB
<1>7. AB \o P \in Seq(U) /\ Len(AB \o P) >= 7 /\ \A i \in 1..6 : (AB \o P)[i] = AB[i]
  BY <1>2, <1>5, <1>6 DEF AB
<1> DEFINE ABP == AB \o P
<1> HIDE DEF ABP
<1>8. ABP \o C \in Seq(U) /\ Len(ABP \o C) >= 7 /\ \A i \in 1..6 : (ABP \o C)[i] = ABP[i]
  BY <1>2, <1>5, <1>7 DEF ABP
<1> DEFINE ABPC == ABP \o C
<1> HIDE DEF ABPC
<1>9. \A i \in 1..6 : (ABPC \o D)[i] = ABPC[i]
  BY <1>2, <1>5, <1>8 DEF ABPC
<1>10. \A i \in 1..6 : Chain(m)[i] = A[i]
  BY <1>3, <1>6, <1>7, <1>8, <1>9 DEF AB, ABP, ABPC
<1> QED
  BY <1>4, <1>10

\* A sign-up begins with nothing made.
LEMMA SignUpWhole == ASSUME WholeInv, NEW s \in Caller, SignUp(s) PROVE WholeInv'
<1>1. PICK e \in Email, o \in OrgId \union {None} :
        Go(s, [Idle EXCEPT !.at = "check", !.email = e, !.invite = o])
  BY DEF SignUp
<1>2. PICK r : r = [Idle EXCEPT !.at = "check", !.email = e, !.invite = o]
  OBVIOUS
<1>3. Fields \subseteq DOMAIN r /\ r.at = "check" /\ r.next = 1 /\ r.got = {}
  BY <1>2 DEF Idle, Fields
<1>4. UNCHANGED <<setting, org, aws, user, removals, variables>>
  BY DEF SignUp, counts
<1> QED
  BY <1>1, <1>2, <1>3, <1>4, NothingMade, QuietMove DEF WholeInv, Rows

\* Only an invited sign-up looks for its organization.
LEMMA CheckWhole == ASSUME WholeInv, NEW s \in Caller, CheckEmail(s) PROVE WholeInv'
<1>1. PICK q : q = call[s]
  OBVIOUS
<1>2. PICK r : Go(s, r) /\ \/ r = [q EXCEPT !.at = "refused"]
                           \/ r = [q EXCEPT !.at = "create"]
                           \/ q.invite # None /\ r = [q EXCEPT !.at = "find"]
  BY <1>1 DEF CheckEmail
<1>3. Whole(s, q) /\ q.at = "check"
  BY <1>1 DEF WholeInv, CheckEmail, At
<1>4. Fields \subseteq DOMAIN r /\ r.at \in {"refused", "create", "find"}
      /\ (r.at = "find" => r.invite # None) /\ r.next = 1 /\ r.got = {}
  BY <1>2, <1>3 DEF Whole, Fields
<1>5. Whole(s, r)
  BY <1>4, NothingMade DEF Whole, Located, Equipped, Stored
<1>6. UNCHANGED <<setting, org, aws, user, removals, variables>>
  BY DEF CheckEmail, counts
<1> QED
  BY <1>2, <1>5, <1>6, QuietMove DEF WholeInv, Rows

\* An invited sign-up goes on in an organization that exists.
LEMMA FindWhole == ASSUME WholeInv, NEW s \in Caller, FindOrganization(s) PROVE WholeInv'
<1>1. PICK q : q = call[s]
  OBVIOUS
<1>2. Whole(s, q) /\ q.at = "find"
  BY <1>1 DEF WholeInv, FindOrganization, At
<1>3. PICK r : Go(s, r) /\
        \/ q.invite \in DOMAIN org /\
             r = [q EXCEPT !.at = "variables", !.org = q.invite, !.total = org[q.invite].total,
                           !.role = "SUPPORT"]
        \/ r = [q EXCEPT !.at = "create"]
  BY <1>1 DEF FindOrganization
<1>4. CASE r = [q EXCEPT !.at = "create"]
  <2>1. Fields \subseteq DOMAIN r /\ r.at = "create" /\ r.next = 1 /\ r.got = {}
    BY <1>2, <1>4 DEF Whole, Fields
  <2>2. UNCHANGED <<setting, org, aws, user, removals, variables>>
    BY DEF FindOrganization, counts
  <2> QED
    BY <1>3, <2>1, <2>2, NothingMade, QuietMove DEF WholeInv, Rows
<1>5. CASE r # [q EXCEPT !.at = "create"]
  <2>1. Fields \subseteq DOMAIN r /\ r.at = "variables" /\ r.org \in DOMAIN org
        /\ r.invite # None
    BY <1>2, <1>3, <1>5 DEF Whole, Fields
  <2>2. Whole(s, r)
    BY <2>1 DEF Whole, Stored
  <2>3. UNCHANGED <<setting, org, aws, user, removals, variables>>
    BY DEF FindOrganization, counts
  <2> QED
    BY <1>3, <2>2, <2>3, QuietMove DEF WholeInv, Rows
<1> QED
  BY <1>4, <1>5

\* An organization that is added leaves the others.
LEMMA OrganizationAdded ==
  ASSUME Rows, NEW o \in OrgId, o \notin DOMAIN org,
         org' = [p \in DOMAIN org \union {o} |-> IF p = o THEN NewOrganization ELSE org[p]],
         UNCHANGED <<setting, aws, user, variables, removals>>
  PROVE  Rows' /\ Grows /\ o \in DOMAIN org'
<1>1. "recorded" \in DOMAIN NewOrganization
  BY DEF NewOrganization
<1>2. \A p \in DOMAIN org : org'[p] = org[p]
  OBVIOUS
<1>3. Rows'
  BY <1>1 DEF Rows
<1>4. Grows
  BY <1>2 DEF Grows, GatewayOf
<1> QED
  BY <1>3, <1>4

\* The new organization is in its table.
LEMMA CreateWhole == ASSUME WholeInv, NEW s \in Caller, CreateOrganization(s) PROVE WholeInv'
<1>1. PICK q : q = call[s]
  OBVIOUS
<1>2. Whole(s, q) /\ q.at = "create"
  BY <1>1 DEF WholeInv, CreateOrganization, At
<1>3. PICK o \in OrgId \ DOMAIN org :
        /\ org' = [p \in DOMAIN org \union {o} |-> IF p = o THEN NewOrganization ELSE org[p]]
        /\ Go(s, [q EXCEPT !.org = o,
                           !.at = IF q.invite = None THEN "gateway" ELSE "variables"])
  BY <1>1 DEF CreateOrganization
<1>4. PICK r : r = [q EXCEPT !.org = o,
                             !.at = IF q.invite = None THEN "gateway" ELSE "variables"]
  OBVIOUS
<1>5. UNCHANGED <<setting, aws, user, variables, removals>>
  BY DEF CreateOrganization, counts
<1>6. Rows' /\ Grows /\ o \in DOMAIN org'
  BY <1>3, <1>5, OrganizationAdded DEF WholeInv
<1>7. /\ Fields \subseteq DOMAIN r /\ r.org = o
      /\ r.at = IF r.invite = None THEN "gateway" ELSE "variables"
      /\ r.next = q.next /\ r.got = q.got
  BY <1>2, <1>4 DEF Whole, Fields
<1>8. q.next = 1 /\ q.got = {}
  BY <1>2 DEF Whole
<1>9. Whole(s, r)'
  BY <1>6, <1>7, <1>8 DEF Whole, ChainOK, Equipped, Stored
<1> QED
  BY <1>3, <1>4, <1>6, <1>9, WholeMoves

-----------------------------------------------------------------------------
\* A call of a utility: its result is held only if it was done, and the method
\* comes after the resource's identifier.
LEMMA UtilityWhole ==
  ASSUME WholeInv, NEW s \in Caller, NEW calls, CallUtility(s, calls)
  PROVE  WholeInv'
<1>1. PICK q : q = call[s]
  OBVIOUS
<1>2. PICK c : c = Current(s)
  OBVIOUS
<1>3. Whole(s, q) /\ q.at = "gateway" /\ q.org \in DOMAIN org /\ ChainOK(q) /\ q.org \in OrgId
  BY <1>1 DEF WholeInv, CallUtility, At, Whole, Located, Rows
<1>4. PICK done \in BOOLEAN, heard \in BOOLEAN :
        /\ heard => done
        /\ aws' = IF done THEN [aws EXCEPT ![q.org] = @ \union {c}] ELSE aws
        /\ Go(s, [q EXCEPT !.next = @ + 1, !.got = IF heard THEN @ \union {c} ELSE @])
  BY <1>1, <1>2 DEF CallUtility, Utility
<1>5. PICK r : r = [q EXCEPT !.next = @ + 1, !.got = IF heard THEN @ \union {c} ELSE @]
  OBVIOUS
<1>6. /\ Fields \subseteq DOMAIN r /\ r.at = q.at /\ r.org = q.org /\ r.invite = q.invite
      /\ r.next = q.next + 1 /\ r.got = IF heard THEN q.got \union {c} ELSE q.got
  BY <1>3, <1>5 DEF Whole, Fields
<1>7. UNCHANGED <<setting, org, user, variables, removals>>
  BY DEF CallUtility
<1>8. \A o \in OrgId : aws'[o] = IF done /\ o = q.org THEN aws[o] \union {c} ELSE aws[o]
  BY <1>4 DEF WholeInv, Rows
<1>9. Rows'
  BY <1>4, <1>7 DEF WholeInv, Rows
<1>10. Grows
  BY <1>7, <1>8 DEF Grows, GatewayOf, WholeInv, Rows
<1>11. q.next = 6 => "aid" \in q.got
  <2>1. ASSUME q.next = 6 PROVE c = "method"
    BY <1>1, <1>2, <2>1, ChainBegins DEF Current
  <2>2. \A m : "aid" \in Needs("method", m)
    BY DEF Needs
  <2>3. \A m : c = "method" => "aid" \in Needs(c, m)
    BY <2>2
  <2>4. Needs(c, setting.mode) \subseteq q.got
    BY <1>1, <1>2 DEF CallUtility, Ready
  <2> QED
    BY <2>1, <2>3, <2>4
<1>12. ChainOK(r)'
  <2>1. r.next \in Nat \ {0}
    BY <1>3, <1>6 DEF ChainOK
  <2>2. r.got \subseteq aws'[r.org]
    BY <1>3, <1>4, <1>6, <1>8 DEF ChainOK
  <2>3. r.next > 6 => "aid" \in r.got
    BY <1>3, <1>6, <1>11 DEF ChainOK
  <2> QED
    BY <2>1, <2>2, <2>3 DEF ChainOK
<1>13. Whole(s, r)'
  BY <1>3, <1>6, <1>7, <1>12 DEF Whole, Equipped, Stored
<1> QED
  BY <1>4, <1>5, <1>9, <1>10, <1>13, WholeMoves

\* A sign-up that fails promises nothing.
LEMMA FailWhole ==
  ASSUME WholeInv, NEW s \in Caller, MissResult(s) \/ Break(s)
  PROVE  WholeInv'
<1>1. PICK q : q = call[s]
  OBVIOUS
<1>2. PICK r : r = [q EXCEPT !.at = "failed", !.got = {}]
  OBVIOUS
<1>3. Go(s, r)
  BY <1>1, <1>2 DEF MissResult, Break
<1>4. Fields \subseteq DOMAIN r /\ r.at = "failed"
  BY <1>1, <1>2 DEF WholeInv, Whole, Fields
<1>5. UNCHANGED <<setting, org, aws, user, variables, removals>>
  BY DEF MissResult, Break, counts
<1> QED
  BY <1>3, <1>4, <1>5, NothingMade, QuietMove DEF WholeInv, Rows

\* The gateway is recorded with what the sign-up got of it.
LEMMA RecordWhole == ASSUME WholeInv, NEW s \in Caller, RecordGateway(s) PROVE WholeInv'
<1>1. PICK q : q = call[s]
  OBVIOUS
<1>2. Whole(s, q) /\ q.at = "gateway" /\ q.org \in DOMAIN org /\ ChainOK(q) /\ q.org \in OrgId
  BY <1>1 DEF WholeInv, RecordGateway, At, Whole, Located, Rows
<1>3. org' = [org EXCEPT ![q.org].recorded = {"api", "plan", "key"}]
  BY <1>1 DEF RecordGateway
<1>4. PICK r : r = [q EXCEPT !.at = "variables", !.got = {}]
  OBVIOUS
<1>5. Go(s, r) /\ UNCHANGED <<setting, aws, user, variables, removals>>
  BY <1>1, <1>4 DEF RecordGateway, counts
<1>6. Fields \subseteq DOMAIN r /\ r.at = "variables" /\ r.org = q.org /\ r.invite = q.invite
  BY <1>2, <1>4 DEF Whole, Fields
<1>7. /\ DOMAIN org' = DOMAIN org
      /\ \A o \in DOMAIN org : o # q.org => org'[o] = org[o]
      /\ org'[q.org].recorded = {"api", "plan", "key"}
      /\ \A o \in DOMAIN org : "recorded" \in DOMAIN org'[o]
  BY <1>2, <1>3 DEF WholeInv, Rows
<1>8. {"api", "aid", "plan", "key"} \subseteq aws[q.org]
  <2>1. Chain(setting.mode)[q.next] = "record"
    BY <1>1 DEF RecordGateway, Current
  <2>2. q.next \notin 1..6
    BY <2>1, ChainBegins
  <2>3. q.next > 6
    BY <1>2, <2>2 DEF ChainOK
  <2>4. \A m : Needs("record", m) = {"api", "plan", "key"}
    BY DEF Needs
  <2>5. {"api", "plan", "key"} \subseteq q.got
    BY <1>1, <2>4 DEF RecordGateway, Ready
  <2> QED
    BY <1>2, <2>3, <2>5 DEF ChainOK
<1>9. Rows'
  BY <1>5, <1>7 DEF WholeInv, Rows
<1>10. Grows
  BY <1>5, <1>7, <1>8 DEF Grows, GatewayOf
<1>11. Whole(s, r)'
  BY <1>2, <1>5, <1>6, <1>7, <1>8 DEF Whole, GatewayOf, Stored
<1> QED
  BY <1>4, <1>5, <1>9, <1>10, <1>11, WholeMoves

\* The founder's gateway stays while the global variables are created.
LEMMA VariablesWhole ==
  ASSUME WholeInv, NEW s \in Caller, CreateVariables(s)
  PROVE  WholeInv'
<1>1. PICK q : q = call[s]
  OBVIOUS
<1>2. Whole(s, q) /\ q.at = "variables" /\ q.org \in OrgId
  BY <1>1 DEF WholeInv, CreateVariables, At, Whole, Located, Equipped, Rows
<1>3. PICK r : Go(s, r) /\ (r = [q EXCEPT !.at = "failed"] \/ r = [q EXCEPT !.at = "store"])
  BY <1>1 DEF CreateVariables
<1>4. /\ Fields \subseteq DOMAIN r /\ r.at \in {"failed", "store"}
      /\ r.org = q.org /\ r.invite = q.invite
  BY <1>2, <1>3 DEF Whole, Fields
<1>5. Whole(s, r)
  BY <1>2, <1>4 DEF Whole, Located, Equipped, Stored
<1>6. variables' \subseteq OrgId
  BY <1>1, <1>2 DEF CreateVariables, WholeInv, Rows
<1>7. UNCHANGED <<setting, org, aws, user, removals>>
  BY DEF CreateVariables, counts
<1> QED
  BY <1>3, <1>5, <1>6, <1>7, QuietMove

\* The user is stored under the key of its sign-up.
LEMMA CreateUserWhole ==
  ASSUME WholeInv, NEW s \in Caller, CreateUser(s)
  PROVE  WholeInv'
<1>1. PICK q : q = call[s]
  OBVIOUS
<1>2. PICK k : k = <<q.org, q.total + 1>>
  OBVIOUS
<1>3. Whole(s, q) /\ q.at = "store" /\ Key(s) = k
  BY <1>1, <1>2 DEF WholeInv, CreateUser, At, Key
<1>4. UNCHANGED <<setting, org, aws, variables, removals>>
  BY DEF CreateUser, counts
<1>5. CASE k \in DOMAIN user
  <2>1. PICK r : r = [q EXCEPT !.at = "failed"]
    OBVIOUS
  <2>2. Go(s, r) /\ user' = user
    BY <1>1, <1>3, <1>5, <2>1 DEF CreateUser
  <2>3. Fields \subseteq DOMAIN r /\ r.at = "failed"
    BY <1>3, <2>1 DEF Whole, Fields
  <2> QED
    BY <1>4, <2>2, <2>3, NothingMade, QuietMove DEF WholeInv, Rows
<1>6. CASE k \notin DOMAIN user
  <2>1. PICK r : r = [q EXCEPT !.at = "count"]
    OBVIOUS
  <2>2. /\ Go(s, r)
        /\ user' = [j \in DOMAIN user \union {k} |-> IF j = k THEN NewUser(s) ELSE user[j]]
    BY <1>1, <1>3, <1>6, <2>1 DEF CreateUser
  <2>3. /\ NewUser(s).email = q.email /\ NewUser(s).password = s
        /\ {"email", "password"} \subseteq DOMAIN NewUser(s)
    BY <1>1 DEF NewUser
  <2>4. /\ Fields \subseteq DOMAIN r /\ r.at = "count" /\ r.org = q.org /\ r.invite = q.invite
        /\ r.total = q.total /\ r.email = q.email
    BY <1>3, <2>1 DEF Whole, Fields
  <2>5. PICK u : u = NewUser(s)
    OBVIOUS
  <2>6. /\ DOMAIN user' = DOMAIN user \union {k} /\ user'[k] = u
        /\ \A j \in DOMAIN user : user'[j] = user[j]
    BY <1>6, <2>2, <2>5
  <2>7. Rows'
    BY <1>4, <2>3, <2>5, <2>6 DEF WholeInv, Rows
  <2>8. Grows
    BY <1>4, <2>6 DEF Grows, GatewayOf
  <2>9. UserOf(s, r)'
    BY <1>2, <2>3, <2>4, <2>5, <2>6 DEF UserOf
  <2>10. Whole(s, r)'
    BY <1>3, <1>4, <2>4, <2>9 DEF Whole, Located, Equipped, Stored, GatewayOf
  <2> QED
    BY <2>2, <2>7, <2>8, <2>10, WholeMoves
<1> QED
  BY <1>5, <1>6

-----------------------------------------------------------------------------
\* A field of an organization other than its gateway is written.
LEMMA OrganizationWritten ==
  ASSUME Rows, NEW o \in DOMAIN org, NEW v,
         \/ org' = [org EXCEPT ![o].total = v]
         \/ org' = [org EXCEPT ![o].removed = v],
         UNCHANGED <<setting, aws, user, variables, removals>>
  PROVE  Rows' /\ Grows
<1>1. /\ DOMAIN org' = DOMAIN org
      /\ \A p \in DOMAIN org : "recorded" \in DOMAIN org'[p] /\ org'[p].recorded = org[p].recorded
  BY DEF Rows
<1>2. Rows'
  BY <1>1 DEF Rows
<1>3. Grows
  BY <1>1 DEF Grows, GatewayOf
<1> QED
  BY <1>2, <1>3

\* The count changes no gateway and no user.
LEMMA CountWhole == ASSUME WholeInv, NEW s \in Caller, CountUser(s) PROVE WholeInv'
<1>1. PICK q : q = call[s]
  OBVIOUS
<1>2. Whole(s, q) /\ q.at = "count" /\ q.org \in DOMAIN org
  BY <1>1 DEF WholeInv, CountUser, At, Whole, Located, Equipped, Stored
<1>3. org' = [org EXCEPT ![q.org].total = q.total + 1]
      /\ UNCHANGED <<setting, aws, user, variables, removals>>
  BY <1>1 DEF CountUser, counts
<1>4. Rows /\ Rows' /\ Grows
  BY <1>2, <1>3, OrganizationWritten DEF WholeInv
<1>5. PICK r : r = [q EXCEPT !.at = "token"]
  OBVIOUS
<1>6. Go(s, r)
  BY <1>1, <1>5 DEF CountUser
<1>7. /\ Fields \subseteq DOMAIN r /\ r.at = "token" /\ r.org = q.org /\ r.invite = q.invite
      /\ r.total = q.total /\ r.email = q.email
  BY <1>2, <1>5 DEF Whole, Fields
<1>8. Whole(s, r)
  BY <1>2, <1>7 DEF Whole, Located, Equipped, Stored, UserOf
<1> QED
  BY <1>4, <1>6, <1>8, WholeKept, WholeMoves

\* What was made is there when the sign-up is answered.
LEMMA AnswerWhole == ASSUME WholeInv, NEW s \in Caller, AnswerToken(s) PROVE WholeInv'
<1>1. PICK q : q = call[s]
  OBVIOUS
<1>2. Whole(s, q) /\ q.at = "token"
  BY <1>1 DEF WholeInv, AnswerToken, At
<1>3. PICK r : r = [q EXCEPT !.at = "answered"]
  OBVIOUS
<1>4. Go(s, r) /\ UNCHANGED <<setting, org, aws, user, variables, removals>>
  BY <1>1, <1>3 DEF AnswerToken, counts
<1>5. /\ Fields \subseteq DOMAIN r /\ r.at = "answered" /\ r.org = q.org /\ r.invite = q.invite
      /\ r.total = q.total /\ r.email = q.email
  BY <1>2, <1>3 DEF Whole, Fields
<1>6. Whole(s, r)
  BY <1>2, <1>5 DEF Whole, Located, Equipped, Stored, UserOf
<1> QED
  BY <1>4, <1>6, QuietMove DEF WholeInv, Rows

\* A user's row changes beside its e-mail: a role, or a password that is reset.
LEMMA UserWritten ==
  ASSUME Rows, NEW k, NEW v,
         \/ user' = [user EXCEPT ![k].password = Reset]
         \/ user' = [user EXCEPT ![k].role = v],
         UNCHANGED <<setting, org, aws, variables, removals>>
  PROVE  Rows' /\ Grows
<1>1. /\ DOMAIN user' = DOMAIN user
      /\ \A j \in DOMAIN user :
           /\ {"email", "password"} \subseteq DOMAIN user'[j] /\ user'[j].email = user[j].email
           /\ user'[j].password \in {user[j].password, Reset}
  BY DEF Rows
<1>2. Rows'
  BY <1>1 DEF Rows
<1>3. Grows
  BY <1>1 DEF Grows, GatewayOf
<1> QED
  BY <1>2, <1>3

\* No visit takes away a user or a gateway.
LEMMA VisitWhole == ASSUME WholeInv, Visit PROVE WholeInv'
<1>1. call' = call
  BY DEF Visit, CreateEmptyOrganization, RequestRemoval, RestoreVariables, SignIn,
         RefreshToken, ForgotPassword, ResetPassword, UpdateUserRole
<1>2. Rows
  BY DEF WholeInv
<1>3. CASE CreateEmptyOrganization
  <2>1. PICK o \in OrgId \ DOMAIN org :
          org' = [p \in DOMAIN org \union {o} |-> IF p = o THEN NewOrganization ELSE org[p]]
    BY <1>3 DEF CreateEmptyOrganization
  <2>2. UNCHANGED <<setting, aws, user, variables, removals>>
    BY <1>3 DEF CreateEmptyOrganization
  <2> QED
    BY <1>1, <1>2, <2>1, <2>2, OrganizationAdded, WholeStays
<1>4. CASE RequestRemoval
  <2>1. PICK o \in DOMAIN org : org' = [org EXCEPT ![o].removed = TRUE]
    BY <1>4 DEF RequestRemoval
  <2>2. UNCHANGED <<setting, aws, user, variables, removals>>
    BY <1>4 DEF RequestRemoval
  <2> QED
    BY <1>1, <1>2, <2>1, <2>2, OrganizationWritten, WholeStays
<1>5. CASE RestoreVariables
  <2>1. UNCHANGED <<setting, org, aws, user, removals>> /\ variables' \subseteq OrgId
    BY <1>2, <1>5 DEF RestoreVariables, Rows
  <2> QED
    BY <1>1, <1>2, <2>1, RowsSame, GrowsSame, WholeStays
<1>6. CASE ResetPassword
  <2>1. PICK k \in mailed : user' = [user EXCEPT ![k].password = Reset]
    BY <1>6 DEF ResetPassword
  <2>2. UNCHANGED <<setting, org, aws, variables, removals>>
    BY <1>6 DEF ResetPassword
  <2> QED
    BY <1>1, <1>2, <2>1, <2>2, UserWritten, WholeStays
<1>7. CASE UpdateUserRole
  <2>1. PICK k \in DOMAIN user, v \in Roles : user' = [user EXCEPT ![k].role = v]
    BY <1>7 DEF UpdateUserRole
  <2>2. UNCHANGED <<setting, org, aws, variables, removals>>
    BY <1>7 DEF UpdateUserRole
  <2> QED
    BY <1>1, <1>2, <2>1, <2>2, UserWritten, WholeStays
<1>8. CASE SignIn \/ RefreshToken \/ ForgotPassword
  <2>1. UNCHANGED <<setting, org, aws, user, variables, removals>>
    BY <1>8 DEF SignIn, RefreshToken, ForgotPassword
  <2> QED
    BY <1>1, <1>2, <2>1, RowsSame, GrowsSame, WholeStays DEF Rows
<1> QED
  BY <1>3, <1>4, <1>5, <1>6, <1>7, <1>8 DEF Visit

\* Neither do the index and the removal of variables.
LEMMA ServiceWhole ==
  ASSUME WholeInv, UpdateIndex \/ RemoveVariables \/ UNCHANGED vars
  PROVE  WholeInv'
<1>1. call' = call /\ UNCHANGED <<setting, org, aws, user>>
  BY DEF UpdateIndex, RemoveVariables, vars
<1>2. variables' \subseteq OrgId /\ removals' \in [OrgId -> Nat]
  BY DEF UpdateIndex, RemoveVariables, vars, counts, WholeInv, Rows
<1>3. Rows /\ Rows'
  BY <1>1, <1>2 DEF WholeInv, Rows
<1> QED
  BY <1>1, <1>3, GrowsSame, WholeStays

\* Every step keeps what the sign-ups have made.
LEMMA WholeNext == WholeInv /\ [Next]_vars => WholeInv'
<1> SUFFICES ASSUME WholeInv, [Next]_vars PROVE WholeInv'
  OBVIOUS
<1>1. ASSUME NEW s \in Caller,
             \/ SignUp(s) \/ CheckEmail(s) \/ FindOrganization(s) \/ CreateOrganization(s)
             \/ BuildGateway(s) \/ AllowInvocation(s) \/ Deploy(s) \/ SellKeys(s)
             \/ MissResult(s) \/ RecordGateway(s)
             \/ CreateVariables(s) \/ CreateUser(s) \/ CountUser(s) \/ AnswerToken(s) \/ Break(s)
      PROVE  WholeInv'
  <2>1. CASE BuildGateway(s) \/ AllowInvocation(s) \/ Deploy(s) \/ SellKeys(s)
    BY <2>1, UtilityWhole DEF BuildGateway, AllowInvocation, Deploy, SellKeys
  <2> QED
    BY <1>1, <2>1, SignUpWhole, CheckWhole, FindWhole, CreateWhole, FailWhole, RecordWhole,
       VariablesWhole, CreateUserWhole, CountWhole, AnswerWhole
<1> QED
  BY <1>1, VisitWhole, ServiceWhole DEF Next

\* At the start nothing is made.
LEMMA WholeStart == Init => WholeInv
<1> SUFFICES ASSUME Init PROVE WholeInv
  OBVIOUS
<1>1. Rows
  BY DEF Init, Rows
<1>2. Fields \subseteq DOMAIN Idle /\ Idle.at = "idle"
  BY DEF Idle, Fields
<1>3. \A s \in Caller : Whole(s, Idle)
  BY <1>2, NothingMade
<1> QED
  BY <1>1, <1>3 DEF Init, WholeInv

\* Whoever signed up and got an answer has a user under its e-mail and, as a founder,
\* a gateway with resource, plan and key that the organization knows, whatever
\* failed on the way, was reset or signed up meanwhile.
THEOREM AnswersAreWhole == Spec => []AnsweredIsWhole
<1>1. WholeInv => AnsweredIsWhole
  <2> SUFFICES ASSUME WholeInv, NEW s \in Caller, At(s, "answered")
               PROVE  /\ Key(s) \in DOMAIN user
                      /\ user[Key(s)].email = call[s].email
                      /\ user[Key(s)].password \in {s, Reset}
                      /\ Founder(s) =>
                           /\ org[call[s].org].recorded = {"api", "plan", "key"}
                           /\ {"api", "aid", "plan", "key"} \subseteq aws[call[s].org]
    BY DEF AnsweredIsWhole
  <2>1. Whole(s, call[s]) /\ call[s].at = "answered"
    BY DEF WholeInv, At
  <2>2. UserOf(s, call[s]) /\ (Founder(s) => GatewayOf(call[s].org))
    BY <2>1 DEF Whole, Equipped, Stored, Founder
  <2> QED
    BY <2>2 DEF UserOf, GatewayOf, Key
<1> QED
  BY <1>1, WholeStart, WholeNext, PTL DEF Spec

-----------------------------------------------------------------------------
\* The sign-ups that have created the global variables of o and not yet a user.
Storing(r, o) == r.at = "store" /\ r.org = o
Storers(o) == {s \in Caller : Storing(call[s], o)}

Room(o) == removals[o] + (IF o \in variables THEN 1 ELSE 0)

Finite(o) == IsFiniteSet(getAllUsersOfOrg(o)) /\ IsFiniteSet(Storers(o))

\* Users and sign-ups about to store one are no more than the times that the
\* variables could be created.
PaidFor ==
  \A o \in OrgId :
    /\ Finite(o)
    /\ Cardinality(getAllUsersOfOrg(o)) + Cardinality(Storers(o)) <= Room(o)

\* How often the variables could be created is a number.
LEMMA RoomIsNat == ASSUME WholeInv, NEW o \in OrgId PROVE Room(o) \in Nat
BY DEF WholeInv, Rows, Room

\* The sign-ups about to store a user when one of them moves.
LEMMA StorersMove ==
  ASSUME WholeInv, NEW s \in Caller, NEW r, Go(s, r), NEW o, NEW q, q = call[s], Finite(o)
  PROVE  /\ IsFiniteSet(Storers(o))' /\ Cardinality(Storers(o))' \in Nat
         /\ Cardinality(Storers(o)) \in Nat
         /\ Cardinality(Storers(o))' + (IF Storing(q, o) THEN 1 ELSE 0) =
              Cardinality(Storers(o)) + (IF Storing(r, o) THEN 1 ELSE 0)
<1> DEFINE S == Storers(o)
           T == Storers(o)'
           R == S \ {s}
<1>1. PICK f : f = call'
  OBVIOUS
<1>2. \A t \in Caller : f[t] = IF t = s THEN r ELSE call[t]
  BY <1>1 DEF WholeInv, Go
<1>3. T = IF Storing(r, o) THEN R \union {s} ELSE R
  <2>1. T = {t \in Caller : Storing(f[t], o)}
    BY <1>1 DEF Storers, Storing
  <2>2. S = {t \in Caller : Storing(call[t], o)}
    BY DEF Storers
  <2> HIDE DEF S, T
  <2> QED
    BY <1>2, <2>1, <2>2
<1>4. S = IF Storing(q, o) THEN R \union {s} ELSE R
  BY DEF Storers
<1>5. IsFiniteSet(S)
  BY DEF Finite
<1> HIDE DEF S, T
<1>6. IsFiniteSet(R) /\ s \notin R
  BY <1>5, FS_Subset
<1>7. IsFiniteSet(R \union {s}) /\ Cardinality(R \union {s}) = Cardinality(R) + 1
      /\ Cardinality(R) \in Nat
  BY <1>6, FS_AddElement, FS_CardinalityType
<1>8. IsFiniteSet(T) /\ Cardinality(T) = Cardinality(R) + (IF Storing(r, o) THEN 1 ELSE 0)
  <2>1. CASE Storing(r, o)
    BY <1>3, <1>7, <2>1
  <2>2. CASE ~Storing(r, o)
    BY <1>3, <1>6, <1>7, <2>2
  <2> QED
    BY <2>1, <2>2
<1>9. Cardinality(S) = Cardinality(R) + (IF Storing(q, o) THEN 1 ELSE 0)
  <2>1. CASE Storing(q, o)
    BY <1>4, <1>7, <2>1
  <2>2. CASE ~Storing(q, o)
    <3>1. S = R
      BY <1>4, <2>2
    <3> HIDE DEF R
    <3> QED
      BY <1>7, <2>2, <3>1
  <2> QED
    BY <2>1, <2>2
<1>10. IsFiniteSet(T) /\ Cardinality(T) \in Nat /\ Cardinality(S) \in Nat
       /\ Cardinality(T) + (IF Storing(q, o) THEN 1 ELSE 0) =
            Cardinality(S) + (IF Storing(r, o) THEN 1 ELSE 0)
  BY <1>7, <1>8, <1>9
<1> QED
  BY <1>10 DEF S, T

\* A sign-up moves and is not about to store a user then.
LEMMA PaidMoves ==
  ASSUME WholeInv, WholeInv', PaidFor, NEW s \in Caller, NEW r, Go(s, r), r.at # "store",
         DOMAIN user' = DOMAIN user, UNCHANGED <<variables, removals>>
  PROVE  PaidFor'
<1> SUFFICES ASSUME NEW o \in OrgId
             PROVE  /\ Finite(o)'
                    /\ Cardinality(getAllUsersOfOrg(o))' + Cardinality(Storers(o))' <= Room(o)'
  BY DEF PaidFor
<1>1. PICK q : q = call[s]
  OBVIOUS
<1>2. getAllUsersOfOrg(o)' = getAllUsersOfOrg(o) /\ Room(o)' = Room(o) /\ Room(o) \in Nat
  BY RoomIsNat DEF getAllUsersOfOrg, Room
<1>3. ~Storing(r, o)
  BY DEF Storing
<1>4. Finite(o) /\ Cardinality(getAllUsersOfOrg(o)) + Cardinality(Storers(o)) <= Room(o)
  BY DEF PaidFor
<1>5. /\ IsFiniteSet(Storers(o))' /\ Cardinality(Storers(o))' \in Nat
      /\ Cardinality(Storers(o)) \in Nat
      /\ Cardinality(Storers(o))' <= Cardinality(Storers(o))
  <2>1. Cardinality(Storers(o))' + (IF Storing(q, o) THEN 1 ELSE 0) =
          Cardinality(Storers(o)) + (IF Storing(r, o) THEN 1 ELSE 0)
        /\ IsFiniteSet(Storers(o))' /\ Cardinality(Storers(o))' \in Nat
        /\ Cardinality(Storers(o)) \in Nat
    BY <1>1, <1>4, StorersMove
  <2> QED
    BY <1>3, <2>1
<1>6. Cardinality(getAllUsersOfOrg(o)) \in Nat
  BY <1>4, FS_CardinalityType DEF Finite
<1> QED
  BY <1>2, <1>4, <1>5, <1>6 DEF Finite

\* Nobody moves, and the variables can be created at least as often.
LEMMA PaidStays ==
  ASSUME WholeInv, WholeInv', PaidFor, call' = call, DOMAIN user' = DOMAIN user,
         \A o \in OrgId : Room(o) <= Room(o)'
  PROVE  PaidFor'
<1> SUFFICES ASSUME NEW o \in OrgId
             PROVE  /\ Finite(o)'
                    /\ Cardinality(getAllUsersOfOrg(o))' + Cardinality(Storers(o))' <= Room(o)'
  BY DEF PaidFor
<1>1. getAllUsersOfOrg(o)' = getAllUsersOfOrg(o) /\ Storers(o)' = Storers(o)
  BY DEF getAllUsersOfOrg, Storers, Storing
<1>2. Finite(o) /\ Cardinality(getAllUsersOfOrg(o)) + Cardinality(Storers(o)) <= Room(o)
  BY DEF PaidFor
<1>3. Cardinality(getAllUsersOfOrg(o)) \in Nat /\ Cardinality(Storers(o)) \in Nat
  BY <1>2, FS_CardinalityType DEF Finite
<1>4. Room(o) \in Nat /\ Room(o)' \in Nat
  BY RoomIsNat DEF WholeInv, Rows, Room
<1> QED
  BY <1>1, <1>2, <1>3, <1>4 DEF Finite

\* Who creates the variables uses one of the times they could be created.
LEMMA PaidVariables ==
  ASSUME WholeInv, WholeInv', PaidFor, NEW s \in Caller, CreateVariables(s)
  PROVE  PaidFor'
<1>1. PICK q : q = call[s]
  OBVIOUS
<1>2. Whole(s, q) /\ q.at = "variables" /\ user' = user /\ removals' = removals
  BY <1>1 DEF WholeInv, CreateVariables, At, counts
<1>3. CASE q.org \in variables
  <2>1. PICK r : r = [q EXCEPT !.at = "failed"]
    OBVIOUS
  <2>2. Go(s, r) /\ r.at # "store" /\ UNCHANGED variables
    BY <1>1, <1>2, <1>3, <2>1 DEF CreateVariables, Whole, Fields
  <2> QED
    BY <1>2, <2>2, PaidMoves
<1>4. CASE q.org \notin variables
  <2>1. PICK r : r = [q EXCEPT !.at = "store"]
    OBVIOUS
  <2>2. Go(s, r) /\ r.org = q.org /\ variables' = variables \union {q.org}
    BY <1>1, <1>2, <1>4, <2>1 DEF CreateVariables, Whole, Fields
  <2> SUFFICES ASSUME NEW o \in OrgId
               PROVE  /\ Finite(o)'
                      /\ Cardinality(getAllUsersOfOrg(o))' + Cardinality(Storers(o))' <= Room(o)'
    BY DEF PaidFor
  <2>3. Finite(o) /\ Cardinality(getAllUsersOfOrg(o)) + Cardinality(Storers(o)) <= Room(o)
    BY DEF PaidFor
  <2>4. getAllUsersOfOrg(o)' = getAllUsersOfOrg(o)
    BY <1>2 DEF getAllUsersOfOrg
  <2>5. Cardinality(Storers(o))' + (IF Storing(q, o) THEN 1 ELSE 0) =
          Cardinality(Storers(o)) + (IF Storing(r, o) THEN 1 ELSE 0)
        /\ IsFiniteSet(Storers(o))' /\ Cardinality(Storers(o))' \in Nat
        /\ Cardinality(Storers(o)) \in Nat
    BY <1>1, <2>2, <2>3, StorersMove
  <2>6. Cardinality(Storers(o))' <= Cardinality(Storers(o)) + (IF q.org = o THEN 1 ELSE 0)
    BY <1>2, <2>2, <2>5 DEF Storing
  <2>7. Room(o)' = Room(o) + (IF q.org = o THEN 1 ELSE 0) /\ Room(o) \in Nat
    BY <1>2, <1>4, <2>2 DEF Room, WholeInv, Rows
  <2>8. Cardinality(getAllUsersOfOrg(o)) \in Nat
    BY <2>3, FS_CardinalityType DEF Finite
  <2> QED
    BY <2>3, <2>4, <2>5, <2>6, <2>7, <2>8 DEF Finite
<1> QED
  BY <1>3, <1>4

-----------------------------------------------------------------------------
\* A user that is stored is one less sign-up about to store.
LEMMA PaidUser ==
  ASSUME WholeInv, WholeInv', PaidFor, NEW s \in Caller, CreateUser(s)
  PROVE  PaidFor'
<1>1. PICK q : q = call[s]
  OBVIOUS
<1>2. PICK k : k = <<q.org, q.total + 1>>
  OBVIOUS
<1>3. Whole(s, q) /\ q.at = "store" /\ Key(s) = k /\ UNCHANGED <<variables, removals>>
  BY <1>1, <1>2 DEF WholeInv, CreateUser, At, Key, counts
<1>4. CASE k \in DOMAIN user
  <2>1. PICK r : r = [q EXCEPT !.at = "failed"]
    OBVIOUS
  <2>2. Go(s, r) /\ r.at # "store" /\ user' = user
    BY <1>1, <1>3, <1>4, <2>1 DEF CreateUser, Whole, Fields
  <2> QED
    BY <1>3, <2>2, PaidMoves
<1>5. CASE k \notin DOMAIN user
  <2>1. PICK r : r = [q EXCEPT !.at = "count"]
    OBVIOUS
  <2>2. Go(s, r) /\ r.at = "count" /\ DOMAIN user' = DOMAIN user \union {k}
    BY <1>1, <1>3, <1>5, <2>1 DEF CreateUser, Whole, Fields
  <2> SUFFICES ASSUME NEW o \in OrgId
               PROVE  /\ Finite(o)'
                      /\ Cardinality(getAllUsersOfOrg(o))' + Cardinality(Storers(o))' <= Room(o)'
    BY DEF PaidFor
  <2>3. Finite(o) /\ Cardinality(getAllUsersOfOrg(o)) + Cardinality(Storers(o)) <= Room(o)
    BY DEF PaidFor
  <2>4. Room(o)' = Room(o) /\ Room(o) \in Nat
    BY <1>3, RoomIsNat DEF Room
  <2>5. Cardinality(Storers(o))' + (IF Storing(q, o) THEN 1 ELSE 0) =
          Cardinality(Storers(o)) + (IF Storing(r, o) THEN 1 ELSE 0)
        /\ IsFiniteSet(Storers(o))' /\ Cardinality(Storers(o))' \in Nat
        /\ Cardinality(Storers(o)) \in Nat
    BY <1>1, <2>2, <2>3, StorersMove
  <2>6. (Storing(q, o) <=> q.org = o) /\ ~Storing(r, o)
    BY <1>3, <2>2 DEF Storing
  <2>7. k \notin getAllUsersOfOrg(o) /\ k[1] = q.org
    BY <1>2, <1>5 DEF getAllUsersOfOrg
  <2>8. getAllUsersOfOrg(o)' =
          IF q.org = o THEN getAllUsersOfOrg(o) \union {k} ELSE getAllUsersOfOrg(o)
    BY <2>2, <2>7 DEF getAllUsersOfOrg
  <2> DEFINE A == getAllUsersOfOrg(o)
             B == getAllUsersOfOrg(o)'
  <2> HIDE DEF A, B
  <2>9. IsFiniteSet(A) /\ k \notin A /\ B = IF q.org = o THEN A \union {k} ELSE A
    BY <2>3, <2>7, <2>8 DEF A, B, Finite
  <2>10. /\ IsFiniteSet(B) /\ Cardinality(A) \in Nat
         /\ Cardinality(B) = Cardinality(A) + (IF q.org = o THEN 1 ELSE 0)
    <3>1. IsFiniteSet(A \union {k}) /\ Cardinality(A \union {k}) = Cardinality(A) + 1
      BY <2>9, FS_AddElement
    <3>2. Cardinality(A) \in Nat
      BY <2>9, FS_CardinalityType
    <3>3. CASE q.org = o
      BY <2>9, <3>1, <3>2, <3>3
    <3>4. CASE q.org # o
      BY <2>9, <3>2, <3>4
    <3> QED
      BY <3>3, <3>4
  <2>11. Cardinality(A) + Cardinality(Storers(o)) <= Room(o)
    BY <2>3 DEF A
  <2>12. Cardinality(B) + Cardinality(Storers(o))' <= Room(o)'
    BY <2>4, <2>5, <2>6, <2>10, <2>11
  <2> QED
    BY <2>5, <2>10, <2>12 DEF Finite, B
<1> QED
  BY <1>4, <1>5

\* A sign-up that does not reach the point of storing a user.
LEMMA PaidOther ==
  ASSUME WholeInv, WholeInv', PaidFor, NEW s \in Caller,
         \/ SignUp(s) \/ CheckEmail(s) \/ FindOrganization(s) \/ CreateOrganization(s)
         \/ BuildGateway(s) \/ AllowInvocation(s) \/ Deploy(s) \/ SellKeys(s)
         \/ MissResult(s) \/ RecordGateway(s) \/ CountUser(s) \/ AnswerToken(s) \/ Break(s)
  PROVE  PaidFor'
<1>1. UNCHANGED <<variables, removals, user>>
  BY DEF SignUp, CheckEmail, FindOrganization, CreateOrganization, BuildGateway, AllowInvocation,
         Deploy, SellKeys, CallUtility, MissResult, RecordGateway, CountUser, AnswerToken, Break,
         counts
<1>2. PICK q : q = call[s]
  OBVIOUS
<1>3. Fields \subseteq DOMAIN q
  BY <1>2 DEF WholeInv, Whole
<1>4. PICK r : Go(s, r) /\ r.at # "store"
  <2>1. CASE SignUp(s)
    <3>1. PICK e \in Email, o \in OrgId \union {None} :
            Go(s, [Idle EXCEPT !.at = "check", !.email = e, !.invite = o])
      BY <2>1 DEF SignUp
    <3>2. [Idle EXCEPT !.at = "check", !.email = e, !.invite = o].at # "store"
      BY DEF Idle
    <3> QED
      BY <3>1, <3>2
  <2>2. CASE CheckEmail(s)
    <3>1. PICK p \in {"refused", "create", "find"} : Go(s, [q EXCEPT !.at = p])
      BY <1>2, <2>2 DEF CheckEmail
    <3>2. [q EXCEPT !.at = p].at # "store"
      BY <1>3 DEF Fields
    <3> QED
      BY <3>1, <3>2
  <2>3. CASE FindOrganization(s)
    <3>1. PICK r : Go(s, r) /\
            \/ r = [q EXCEPT !.at = "variables", !.org = q.invite,
                             !.total = org[q.invite].total, !.role = "SUPPORT"]
            \/ r = [q EXCEPT !.at = "create"]
      BY <1>2, <2>3 DEF FindOrganization
    <3>2. r.at # "store"
      BY <1>3, <3>1 DEF Fields
    <3> QED
      BY <3>1, <3>2
  <2>4. CASE CreateOrganization(s)
    <3>1. PICK o \in OrgId, p \in {"gateway", "variables"} : Go(s, [q EXCEPT !.org = o, !.at = p])
      BY <1>2, <2>4 DEF CreateOrganization
    <3>2. [q EXCEPT !.org = o, !.at = p].at # "store"
      BY <1>3 DEF Fields
    <3> QED
      BY <3>1, <3>2
  <2>5. CASE BuildGateway(s) \/ AllowInvocation(s) \/ Deploy(s) \/ SellKeys(s)
    <3>1. PICK heard \in BOOLEAN :
            Go(s, [q EXCEPT !.next = @ + 1, !.got = IF heard THEN @ \union {Current(s)} ELSE @])
      BY <1>2, <2>5 DEF BuildGateway, AllowInvocation, Deploy, SellKeys, CallUtility, Utility
    <3>2. q.at = "gateway"
      BY <1>2, <2>5 DEF BuildGateway, AllowInvocation, Deploy, SellKeys, CallUtility, At
    <3>3. PICK r : r = [q EXCEPT !.next = @ + 1,
                                 !.got = IF heard THEN @ \union {Current(s)} ELSE @]
      OBVIOUS
    <3>4. r.at = q.at
      BY <1>3, <3>3 DEF Fields
    <3> QED
      BY <3>1, <3>2, <3>3, <3>4
  <2>6. CASE MissResult(s) \/ RecordGateway(s) \/ Break(s)
    <3>1. PICK p \in {"failed", "variables"} : Go(s, [q EXCEPT !.at = p, !.got = {}])
      BY <1>2, <2>6 DEF MissResult, RecordGateway, Break
    <3>2. [q EXCEPT !.at = p, !.got = {}].at # "store"
      BY <1>3 DEF Fields
    <3> QED
      BY <3>1, <3>2
  <2>7. CASE CountUser(s) \/ AnswerToken(s)
    BY <1>2, <1>3, <2>7 DEF CountUser, AnswerToken, Fields
  <2> QED
    BY <2>1, <2>2, <2>3, <2>4, <2>5, <2>6, <2>7
<1> QED
  BY <1>1, <1>4, PaidMoves

\* Removing the variables lets them be created once more.
LEMMA PaidService ==
  ASSUME WholeInv, WholeInv', PaidFor, Visit \/ UpdateIndex \/ RemoveVariables \/ UNCHANGED vars
  PROVE  PaidFor'
<1>1. call' = call
  BY DEF Visit, CreateEmptyOrganization, RequestRemoval, RestoreVariables, SignIn, RefreshToken,
         ForgotPassword, ResetPassword, UpdateUserRole, UpdateIndex, RemoveVariables, vars
<1>2. DOMAIN user' = DOMAIN user
  BY DEF Visit, CreateEmptyOrganization, RequestRemoval, RestoreVariables, SignIn, RefreshToken,
         ForgotPassword, ResetPassword, UpdateUserRole, UpdateIndex, RemoveVariables, vars
<1>3. ASSUME NEW o \in OrgId PROVE Room(o) <= Room(o)'
  <2>1. removals \in [OrgId -> Nat] /\ removals' \in [OrgId -> Nat]
    BY DEF WholeInv, Rows
  <2>2. CASE RemoveVariables
    <3>1. PICK p \in variables : /\ variables' = variables \ {p}
                                 /\ removals' = [removals EXCEPT ![p] = @ + 1]
      BY <2>2 DEF RemoveVariables
    <3>2. CASE o = p
      BY <2>1, <3>1, <3>2 DEF Room
    <3>3. CASE o # p
      BY <2>1, <3>1, <3>3 DEF Room
    <3> QED
      BY <3>2, <3>3
  <2>3. CASE ~RemoveVariables
    <3>1. variables \subseteq variables' /\ removals' = removals
      BY <2>3 DEF Visit, CreateEmptyOrganization, RequestRemoval, RestoreVariables, SignIn,
             RefreshToken, ForgotPassword, ResetPassword, UpdateUserRole, UpdateIndex, vars, counts
    <3> QED
      BY <2>1, <3>1 DEF Room
  <2> QED
    BY <2>2, <2>3
<1> QED
  BY <1>1, <1>2, <1>3, PaidStays

\* Every step keeps the users paid for.
LEMMA PaidNext == WholeInv /\ WholeInv' /\ PaidFor /\ [Next]_vars => PaidFor'
  BY PaidVariables, PaidUser, PaidOther, PaidService DEF Next

\* At the start there are no users.
LEMMA PaidStart == Init => PaidFor
<1> SUFFICES ASSUME Init, NEW o \in OrgId
             PROVE  /\ Finite(o)
                    /\ Cardinality(getAllUsersOfOrg(o)) + Cardinality(Storers(o)) <= Room(o)
  BY DEF PaidFor
<1>1. getAllUsersOfOrg(o) = {} /\ Room(o) = 0
  BY DEF Init, getAllUsersOfOrg, Room
<1>2. Storers(o) = {}
  BY DEF Init, Storers, Storing, Idle
<1> QED
  BY <1>1, <1>2, FS_EmptySet DEF Finite

\* An organization has more than one user only as often as its global variables
\* were removed, whoever signs up, is invited, fails or dies.
THEOREM SecondUsersNeedRemovals == Spec => []MoreUsersNeedRemovals
<1>1. WholeInv /\ PaidFor => MoreUsersNeedRemovals
  <2> SUFFICES ASSUME WholeInv, PaidFor, NEW o \in OrgId
               PROVE  Cardinality(getAllUsersOfOrg(o)) <= 1 + removals[o]
    BY DEF MoreUsersNeedRemovals
  <2>1. Cardinality(getAllUsersOfOrg(o)) \in Nat /\ Cardinality(Storers(o)) \in Nat
    BY FS_CardinalityType DEF PaidFor, Finite
  <2>2. removals[o] \in Nat /\ Room(o) <= removals[o] + 1 /\ Room(o) \in Nat
    BY DEF WholeInv, Rows, Room
  <2> QED
    BY <2>1, <2>2 DEF PaidFor
<1>2. Init => WholeInv /\ PaidFor
  BY WholeStart, PaidStart
<1>3. WholeInv /\ PaidFor /\ [Next]_vars => WholeInv' /\ PaidFor'
  BY WholeNext, PaidNext
<1> QED
  BY <1>1, <1>2, <1>3, PTL DEF Spec
===============================================================================
