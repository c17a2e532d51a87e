---------------------------- MODULE BootstrapProofs ----------------------------
(***************************************************************************)
(* For every deployment, catalogue, number of tasks and users, and every       *)
(* budget of calls and faults: the integration apps are numbered densely and  *)
(* no trimmed name occurs twice; whoever starts the consumer has the whole     *)
(* set-up in the tables; clients keep their app; one caller makes no twins.    *)
(* The count alone does not give the first: what is inductive relates the      *)
(* count each caller has read to the records.  For the others it relates the   *)
(* place of each caller in the set-up to what is in the tables.                *)
(***************************************************************************)
EXTENDS Bootstrap, FiniteSetTheorems, TLAPS

IsCall(r) ==
  r \in [pc : {r.pc}, i : {r.i}, job : {r.job}, n : Nat, key : {r.key}]

Shape ==
  /\ call = [c \in Caller |-> call[c]]
  /\ \A c \in Caller : IsCall(call[c])
  /\ totalIntApp \in Nat /\ (counted \/ totalIntApp = 0)

\* A caller that is about to save the count is alone there, has created the
\* app after the last one counted, and no app was left uncounted before.
SaverAlone ==
  \A c \in Caller : At(c, "saveCount") =>
    /\ call[c].n = totalIntApp
    /\ ~torn
    /\ \A d \in Caller : At(d, "saveCount") => d = c

Looking == {"find", "update", "create"}

\* What a caller has read of the count may be old, never too large.
ReadBefore ==
  \A c \in Caller : call[c].pc \in Looking => call[c].n <= totalIntApp

\* A caller that creates an app still finds none of that name up to its count.
StillUnnamed ==
  \A c \in Caller : At(c, "create") => Named(call[c].job.app.name, call[c].n) = {}

IInv ==
  /\ Shape /\ NumbersDense /\ SaverAlone /\ ReadBefore /\ StillUnnamed
  /\ NamesOnce

\* The initial tables are empty.
LEMMA InitIInv == Init => IInv
<1> SUFFICES ASSUME Init PROVE IInv
  OBVIOUS
<1>1. Shape
  BY DEF Init, Shape, IsCall, Idle
<1>2. DOMAIN apps = {} /\ 1..totalIntApp = {} /\ totalIntApp + 1 \notin DOMAIN apps
  BY DEF Init
<1>3. \A c \in Caller : call[c].pc = "idle"
  BY DEF Init, Idle
<1> QED
  BY <1>1, <1>2, <1>3 DEF IInv, NumbersDense, SaverAlone, ReadBefore,
     StillUnnamed, NamesOnce, Init, At, Looking

\* A call that moves on.
LEMMA Moved ==
  ASSUME NEW r, IsCall(r), NEW pc
  PROVE  /\ IsCall([r EXCEPT !.pc = pc]) /\ [r EXCEPT !.pc = pc].pc = pc
         /\ [r EXCEPT !.pc = pc].n = r.n /\ [r EXCEPT !.pc = pc].job = r.job
<1>1. [r EXCEPT !.pc = pc] =
        [pc |-> pc, i |-> r.i, job |-> r.job, n |-> r.n, key |-> r.key]
  BY DEF IsCall
<1>2. r.n \in Nat
  BY DEF IsCall
<1> QED
  BY <1>1, <1>2 DEF IsCall

\* A call with some of its fields changed.
LEMMA Fields ==
  ASSUME NEW r, IsCall(r), NEW pc, NEW n \in Nat, NEW key
  PROVE  /\ IsCall([r EXCEPT !.pc = pc, !.n = n])
         /\ [r EXCEPT !.pc = pc, !.n = n].pc = pc
         /\ [r EXCEPT !.pc = pc, !.n = n].n = n
         /\ IsCall([r EXCEPT !.pc = pc, !.key = key])
         /\ [r EXCEPT !.pc = pc, !.key = key].pc = pc
<1> DEFINE s == [pc |-> pc, i |-> r.i, job |-> r.job, n |-> r.n, key |-> r.key]
<1>1. [r EXCEPT !.pc = pc] = s
  BY DEF IsCall
<1>2. [r EXCEPT !.pc = pc, !.n = n] = [s EXCEPT !.n = n]
  <2>1. [r EXCEPT !.pc = pc, !.n = n] = [[r EXCEPT !.pc = pc] EXCEPT !.n = n]
    OBVIOUS
  <2> QED
    BY <2>1, <1>1
<1>3. [r EXCEPT !.pc = pc, !.key = key] = [s EXCEPT !.key = key]
  <2>1. [r EXCEPT !.pc = pc, !.key = key] = [[r EXCEPT !.pc = pc] EXCEPT !.key = key]
    OBVIOUS
  <2> QED
    BY <2>1, <1>1
<1>4. r.n \in Nat
  BY DEF IsCall
<1> QED
  BY <1>1, <1>2, <1>3, <1>4 DEF IsCall

\* What is left of a caller once an app is set up is a call at rest.
LEMMA SettledRests ==
  ASSUME NEW c
  PROVE  IsCall(Settled(c)) /\ Settled(c).pc \in {"idle", "running", "read"}
BY DEF Settled, IsCall, Idle

\* And so is what follows the record of an app or of a client.
LEMMA AfterAppRests ==
  ASSUME Shape, NEW c \in Caller, NEW n \in Nat
  PROVE  /\ IsCall(AfterApp(c, n))
         /\ AfterApp(c, n).pc \in {"idle", "running", "read", "findClient"}
<1>0. IsCall(call[c])
  BY DEF Shape
<1>1. IsCall([call[c] EXCEPT !.pc = "findClient", !.n = n])
  BY <1>0, Fields
<1>2. [call[c] EXCEPT !.pc = "findClient", !.n = n].pc = "findClient"
  BY <1>0 DEF IsCall
<1> QED
  BY <1>1, <1>2, SettledRests DEF AfterApp

LEMMA AfterClientRests ==
  ASSUME Shape, NEW c \in Caller, NEW key
  PROVE  /\ IsCall(AfterClient(c, key))
         /\ AfterClient(c, key).pc \in {"idle", "running", "read", "findToken"}
<1>0. IsCall(call[c])
  BY DEF Shape
<1>1. IsCall([call[c] EXCEPT !.pc = "findToken", !.key = key])
  BY <1>0, Fields
<1>2. [call[c] EXCEPT !.pc = "findToken", !.key = key].pc = "findToken"
  BY <1>0 DEF IsCall
<1> QED
  BY <1>1, <1>2, SettledRests DEF AfterClient

\* A step of one caller that touches neither the apps nor their count.
LEMMA QuietStep ==
  ASSUME IInv, NEW c \in Caller, NEW r, IsCall(r),
         call' = [call EXCEPT ![c] = r],
         UNCHANGED <<deployment, apps, totalIntApp>>, torn' <=> torn,
         counted => counted', call[c].pc # "saveCount",
         r.pc \notin Looking \union {"saveCount"}
  PROVE  IInv'
<1>1. Caller' = Caller
  BY DEF Caller
<1>2. Shape'
  BY <1>1 DEF IInv, Shape
<1>3. \A d \in Caller : call'[d] = IF d = c THEN r ELSE call[d]
  BY DEF IInv, Shape
<1>4. \A d \in Caller : At(d, "saveCount")' <=> At(d, "saveCount")
  BY <1>3 DEF At
<1>5. NumbersDense'
  BY <1>1, <1>4 DEF IInv, NumbersDense
<1>6. SaverAlone'
  BY <1>1, <1>3, <1>4 DEF IInv, SaverAlone, At
<1>7. ReadBefore'
  BY <1>1, <1>3 DEF IInv, ReadBefore
<1>8. StillUnnamed'
  BY <1>1, <1>3 DEF IInv, StillUnnamed, At, Named, Looking
<1>9. NamesOnce'
  BY DEF IInv, NamesOnce
<1> QED
  BY <1>2, <1>5, <1>6, <1>7, <1>8, <1>9 DEF IInv

\* The count is read: the look-up starts.
LEMMA ReadCountInv ==
  ASSUME IInv, NEW c \in Caller, ReadCount(c)
  PROVE  IInv'
<1> DEFINE r == [call[c] EXCEPT !.pc = "find", !.n = totalIntApp]
<1>1. IsCall(call[c]) /\ totalIntApp \in Nat
  BY DEF IInv, Shape
<1>2. IsCall(r)
  BY <1>1, Fields
<1>3. r.pc = "find" /\ r.n = totalIntApp
  BY <1>1 DEF IsCall
<1>4. call' = [call EXCEPT ![c] = r]
  BY DEF ReadCount
<1> HIDE DEF r
<1>5. UNCHANGED <<deployment, apps, totalIntApp, torn, counted>> /\ call[c].pc = "read"
  BY DEF ReadCount, tables, At
<1>6. Caller' = Caller
  BY <1>5 DEF Caller
<1>7. \A d \in Caller : call'[d] = IF d = c THEN r ELSE call[d]
  BY <1>4 DEF IInv, Shape
<1>8. Shape'
  BY <1>2, <1>4, <1>5, <1>6 DEF IInv, Shape
<1>9. \A d \in Caller : At(d, "saveCount")' <=> At(d, "saveCount")
  BY <1>3, <1>5, <1>7 DEF At
<1>10. NumbersDense'
  BY <1>5, <1>6, <1>9 DEF IInv, NumbersDense
<1>11. SaverAlone'
  BY <1>3, <1>5, <1>6, <1>7, <1>9 DEF IInv, SaverAlone, At
<1>12. ReadBefore'
  BY <1>1, <1>3, <1>5, <1>6, <1>7 DEF IInv, ReadBefore
<1>13. StillUnnamed'
  BY <1>3, <1>5, <1>6, <1>7 DEF IInv, StillUnnamed, At, Named
<1>14. NamesOnce'
  BY <1>5 DEF IInv, NamesOnce
<1> QED
  BY <1>8, <1>10, <1>11, <1>12, <1>13, <1>14 DEF IInv

\* The look-up ends: a caller that goes on to create found no such name.
LEMMA FindAppInv ==
  ASSUME IInv, NEW c \in Caller, FindApp(c)
  PROVE  IInv'
<1> DEFINE none == Named(call[c].job.app.name, call[c].n) = {}
           r == [call[c] EXCEPT !.pc = IF none THEN "create" ELSE "update"]
<1>1. IsCall(call[c])
  BY DEF IInv, Shape
<1>2. /\ IsCall(r) /\ r.pc = (IF none THEN "create" ELSE "update")
      /\ r.n = call[c].n /\ r.job = call[c].job
  BY <1>1, Moved
<1>3. call' = [call EXCEPT ![c] = r]
  BY DEF FindApp, Goto
<1>4. r.pc = "create" => Named(r.job.app.name, r.n) = {}
  BY <1>2
<1>5. r.pc \in {"create", "update"}
  BY <1>2
<1> HIDE DEF r
<1>6. UNCHANGED <<deployment, apps, totalIntApp, torn, counted>> /\ call[c].pc = "find"
  BY DEF FindApp, tables, At
<1>7. Caller' = Caller
  BY <1>6 DEF Caller
<1>8. \A d \in Caller : call'[d] = IF d = c THEN r ELSE call[d]
  BY <1>3 DEF IInv, Shape
<1>9. Shape'
  BY <1>2, <1>3, <1>6, <1>7 DEF IInv, Shape
<1>10. \A d \in Caller : At(d, "saveCount")' <=> At(d, "saveCount")
  BY <1>5, <1>6, <1>8 DEF At
<1>11. NumbersDense'
  BY <1>6, <1>7, <1>10 DEF IInv, NumbersDense
<1>12. SaverAlone'
  BY <1>5, <1>6, <1>7, <1>8, <1>10 DEF IInv, SaverAlone, At
<1>13. ReadBefore'
  BY <1>2, <1>6, <1>7, <1>8 DEF IInv, ReadBefore, Looking
<1>14. StillUnnamed'
  BY <1>4, <1>6, <1>7, <1>8 DEF IInv, StillUnnamed, At, Named
<1>15. NamesOnce'
  BY <1>6 DEF IInv, NamesOnce
<1> QED
  BY <1>9, <1>11, <1>12, <1>13, <1>14, <1>15 DEF IInv

\* An app is updated: it keeps its name, or takes one that carries blanks.
LEMMA UpdateAppInv ==
  ASSUME IInv, NEW c \in Caller, UpdateApp(c)
  PROVE  IInv'
<1> DEFINE new == call[c].job.app
<1>1. PICK k \in Named(new.name, call[c].n) :
        /\ apps' = [apps EXCEPT ![k] = new]
        /\ call' = [call EXCEPT ![c] = AfterApp(c, k)]
  BY DEF UpdateApp
<1>2. k \in DOMAIN apps /\ k \in Nat /\ apps[k].name = Trimmed(new.name)
  BY <1>1 DEF Named, IInv, NumbersDense, Shape
<1> DEFINE r == AfterApp(c, k)
<1>3. IsCall(r) /\ r.pc \notin Looking \union {"saveCount"}
  BY <1>2, AfterAppRests DEF IInv, Looking
<1> HIDE DEF r
<1>4. /\ UNCHANGED <<deployment, totalIntApp, torn, counted>>
      /\ call[c].pc = "update" /\ DOMAIN apps' = DOMAIN apps
  BY <1>1 DEF UpdateApp, At
<1>5. Caller' = Caller
  BY <1>4 DEF Caller
<1>6. \A d \in Caller : call'[d] = IF d = c THEN r ELSE call[d]
  BY <1>1 DEF IInv, Shape, r
<1>7. \A j \in DOMAIN apps : apps'[j] = IF j = k THEN new ELSE apps[j]
  BY <1>1
<1>8. Shape'
  BY <1>1, <1>3, <1>4, <1>5, <1>6 DEF IInv, Shape
<1>9. \A d \in Caller : At(d, "saveCount")' <=> At(d, "saveCount")
  BY <1>3, <1>4, <1>6 DEF At
<1>10. NumbersDense'
  BY <1>4, <1>5, <1>9 DEF IInv, NumbersDense
<1>11. SaverAlone'
  BY <1>3, <1>4, <1>5, <1>6, <1>9 DEF IInv, SaverAlone, At
<1>12. ReadBefore'
  BY <1>3, <1>4, <1>5, <1>6 DEF IInv, ReadBefore
<1>13. new.name \notin DOMAIN Trim => new.name = apps[k].name
  BY <1>2 DEF Trimmed
<1>14. \A x : Trimmed(x) \notin DOMAIN Trim
  BY BootstrapAssumption DEF BootstrapAssumption, Trimmed
<1>15. StillUnnamed'
  <2> SUFFICES ASSUME NEW d \in Caller, At(d, "create")',
                      NEW j \in DOMAIN apps, j <= call[d].n,
                      apps'[j].name = Trimmed(call[d].job.app.name)
               PROVE  FALSE
    BY <1>3, <1>4, <1>5, <1>6 DEF StillUnnamed, Named, At, Looking
  <2>1. At(d, "create")
    BY <1>3, <1>6 DEF At, Looking
  <2>2. apps[j].name # Trimmed(call[d].job.app.name)
    BY <2>1 DEF IInv, StillUnnamed, Named
  <2>3. j = k /\ new.name = Trimmed(call[d].job.app.name)
    BY <1>7, <2>2
  <2> QED
    BY <1>13, <1>14, <2>2, <2>3
<1>16. NamesOnce'
  <2> SUFFICES ASSUME NEW i \in DOMAIN apps, NEW j \in DOMAIN apps,
                      apps'[i].name = apps'[j].name, apps'[i].name \notin DOMAIN Trim
               PROVE  i = j
    BY <1>4 DEF NamesOnce
  <2>1. apps[i].name = apps'[i].name /\ apps[j].name = apps'[j].name
    BY <1>7, <1>13
  <2> QED
    BY <2>1 DEF IInv, NamesOnce
<1> QED
  BY <1>8, <1>10, <1>11, <1>12, <1>15, <1>16 DEF IInv

\* An app is created: its creator read the count as it is now, and the number
\* after it was free, so nobody else is between its creation and the count.
LEMMA CreateAppInv ==
  ASSUME IInv, NEW c \in Caller, CreateApp(c)
  PROVE  IInv'
<1> DEFINE new == call[c].job.app
           r == [call[c] EXCEPT !.pc = "saveCount"]
<1>1. IsCall(call[c]) /\ call[c].n \in Nat /\ totalIntApp \in Nat
  BY DEF IInv, Shape, IsCall
<1>2. IsCall(r) /\ r.pc = "saveCount" /\ r.n = call[c].n
  BY <1>1, Moved
<1>3. call' = [call EXCEPT ![c] = r]
  BY DEF CreateApp, Goto
<1> HIDE DEF r
<1>4. /\ UNCHANGED <<deployment, totalIntApp, torn, counted>> /\ At(c, "create")
      /\ call[c].pc = "create" /\ call[c].n + 1 \notin DOMAIN apps
  BY DEF CreateApp, At
<1>5. call[c].n <= totalIntApp
  BY <1>4 DEF IInv, ReadBefore, Looking
<1>6. /\ DOMAIN apps = 1..totalIntApp /\ call[c].n = totalIntApp
      /\ totalIntApp + 1 \notin DOMAIN apps
  <2>1. 1..totalIntApp \subseteq DOMAIN apps
    BY <1>1 DEF IInv, NumbersDense
  <2>2. ~(call[c].n < totalIntApp)
    BY <1>1, <1>4, <2>1
  <2>3. call[c].n = totalIntApp
    BY <1>1, <1>5, <2>2
  <2> QED
    BY <1>1, <1>4, <2>3 DEF IInv, NumbersDense
<1>7. /\ DOMAIN apps' = 1..(totalIntApp + 1)
      /\ apps'[totalIntApp + 1] = new
      /\ \A k \in 1..totalIntApp : apps'[k] = apps[k]
  BY <1>1, <1>6 DEF CreateApp
<1>8. Caller' = Caller
  BY <1>4 DEF Caller
<1>9. \A d \in Caller : call'[d] = IF d = c THEN r ELSE call[d]
  BY <1>3 DEF IInv, Shape
<1>10. Shape'
  BY <1>2, <1>3, <1>4, <1>8 DEF IInv, Shape
<1>12. ~torn /\ \A d \in Caller : ~At(d, "saveCount")
  BY <1>6 DEF IInv, NumbersDense
<1>13. NumbersDense'
  <2>1. totalIntApp' + 1 \in DOMAIN apps'
    BY <1>1, <1>4, <1>7
  <2>2. \E d \in Caller' : At(d, "saveCount")'
    BY <1>2, <1>8, <1>9 DEF At
  <2>3. DOMAIN apps' \in {1..totalIntApp', 1..(totalIntApp' + 1)}
    BY <1>4, <1>7
  <2> QED
    BY <2>1, <2>2, <2>3 DEF NumbersDense
<1>14. SaverAlone'
  BY <1>2, <1>4, <1>6, <1>8, <1>9, <1>12 DEF SaverAlone, At
<1>15. ReadBefore'
  BY <1>2, <1>4, <1>8, <1>9 DEF IInv, ReadBefore, Looking
<1>16. StillUnnamed'
  <2> SUFFICES ASSUME NEW d \in Caller, At(d, "create")',
                      NEW j \in 1..(totalIntApp + 1), j <= call'[d].n,
                      apps'[j].name = Trimmed(call'[d].job.app.name)
               PROVE  FALSE
    BY <1>7, <1>8 DEF StillUnnamed, Named
  <2>1. At(d, "create") /\ call'[d] = call[d]
    BY <1>2, <1>9 DEF At
  <2>2. call[d].n <= totalIntApp /\ call[d].n \in Nat
    BY <2>1 DEF IInv, ReadBefore, Looking, At, Shape, IsCall
  <2>3. j \in 1..totalIntApp
    BY <1>1, <2>1, <2>2
  <2>4. Named(call[d].job.app.name, call[d].n) = {}
    BY <2>1 DEF IInv, StillUnnamed
  <2> QED
    BY <1>6, <1>7, <2>1, <2>3, <2>4 DEF Named
<1>17. NamesOnce'
  <2>1. \A k \in 1..totalIntApp : apps[k].name # Trimmed(new.name)
    BY <1>1, <1>4, <1>6 DEF IInv, StillUnnamed, Named
  <2>2. new.name \notin DOMAIN Trim => \A k \in 1..totalIntApp : apps[k].name # new.name
    BY <2>1 DEF Trimmed
  <2>3. 1..(totalIntApp + 1) = 1..totalIntApp \union {totalIntApp + 1}
    BY <1>1
  <2>4. \A i, j \in 1..totalIntApp :
           apps[i].name = apps[j].name /\ apps[i].name \notin DOMAIN Trim => i = j
    BY <1>6 DEF IInv, NamesOnce
  <2> HIDE DEF new
  <2> QED
    BY <1>7, <2>2, <2>3, <2>4 DEF NamesOnce
<1> QED
  BY <1>10, <1>13, <1>14, <1>15, <1>16, <1>17 DEF IInv

\* The count is saved: it catches up with the app just created.
LEMMA SaveCountInv ==
  ASSUME IInv, NEW c \in Caller, SaveCount(c)
  PROVE  IInv'
<1> DEFINE r == AfterApp(c, call[c].n + 1)
<1>1. IsCall(call[c]) /\ call[c].n \in Nat /\ totalIntApp \in Nat
  BY DEF IInv, Shape, IsCall
<1>2. IsCall(r) /\ r.pc \notin Looking \union {"saveCount"}
  BY <1>1, AfterAppRests DEF IInv, Looking
<1>3. call' = [call EXCEPT ![c] = r]
  BY DEF SaveCount
<1> HIDE DEF r
<1>4. UNCHANGED <<deployment, apps, torn>> /\ At(c, "saveCount")
  BY DEF SaveCount
<1>5. /\ call[c].n = totalIntApp /\ ~torn
      /\ \A d \in Caller : At(d, "saveCount") => d = c
  BY <1>4 DEF IInv, SaverAlone
<1>6. totalIntApp' = totalIntApp + 1 /\ counted'
  BY <1>5 DEF SaveCount
<1>7. DOMAIN apps = 1..(totalIntApp + 1)
  BY <1>1, <1>4 DEF IInv, NumbersDense
<1>8. Caller' = Caller
  BY <1>4 DEF Caller
<1>9. \A d \in Caller : call'[d] = IF d = c THEN r ELSE call[d]
  BY <1>3 DEF IInv, Shape
<1>10. Shape'
  BY <1>1, <1>2, <1>3, <1>6, <1>8 DEF IInv, Shape
<1>11. \A d \in Caller : ~At(d, "saveCount")'
  BY <1>2, <1>5, <1>9 DEF At
<1>12. NumbersDense'
  <2>1. DOMAIN apps' = 1..totalIntApp' /\ totalIntApp' + 1 \notin DOMAIN apps'
    BY <1>1, <1>4, <1>6, <1>7
  <2> QED
    BY <1>4, <1>5, <1>8, <1>11, <2>1 DEF NumbersDense
<1>13. SaverAlone'
  BY <1>8, <1>11 DEF SaverAlone
<1>14. ReadBefore'
  <2>1. \A d \in Caller : call[d].n \in Nat
    BY DEF IInv, Shape, IsCall
  <2> QED
    BY <1>1, <1>2, <1>6, <1>8, <1>9, <2>1 DEF IInv, ReadBefore
<1>15. StillUnnamed'
  BY <1>2, <1>4, <1>8, <1>9 DEF IInv, StillUnnamed, At, Named, Looking
<1>16. NamesOnce'
  BY <1>4 DEF IInv, NamesOnce
<1> QED
  BY <1>10, <1>12, <1>13, <1>14, <1>15, <1>16 DEF IInv

\* A caller fails: when that was before the count, the app stays uncounted.
LEMMA FailInv ==
  ASSUME IInv, NEW c \in Caller, Fail(c)
  PROVE  IInv'
<1>1. IsCall(Idle) /\ Idle.pc = "idle" /\ Idle.pc \notin Looking \union {"saveCount"}
  BY DEF Idle, IsCall, Looking
<1>2. /\ call' = [call EXCEPT ![c] = Idle] /\ torn' = (torn \/ At(c, "saveCount"))
      /\ UNCHANGED <<deployment, apps, totalIntApp, counted>>
  BY DEF Fail, tables
<1>3. CASE ~At(c, "saveCount")
  <2>1. call[c].pc # "saveCount"
    BY <1>3 DEF At
  <2>2. torn' <=> torn
    BY <1>2, <1>3
  <2> QED
    BY <1>1, <1>2, <2>1, <2>2, QuietStep
<1>4. CASE At(c, "saveCount")
  <2>1. torn' /\ \A d \in Caller : At(d, "saveCount") => d = c
    BY <1>2, <1>4 DEF IInv, SaverAlone
  <2>2. Caller' = Caller
    BY <1>2 DEF Caller
  <2>3. \A d \in Caller : call'[d] = IF d = c THEN Idle ELSE call[d]
    BY <1>2 DEF IInv, Shape
  <2>4. Shape'
    BY <1>1, <1>2, <2>2 DEF IInv, Shape
  <2>5. \A d \in Caller : ~At(d, "saveCount")'
    BY <1>1, <2>1, <2>3 DEF At
  <2>6. NumbersDense'
    BY <1>2, <1>4, <2>1, <2>2 DEF IInv, NumbersDense
  <2>7. SaverAlone'
    BY <2>2, <2>5 DEF SaverAlone
  <2>8. ReadBefore'
    BY <1>1, <1>2, <2>2, <2>3 DEF IInv, ReadBefore
  <2>9. StillUnnamed'
    BY <1>1, <1>2, <2>2, <2>3 DEF IInv, StillUnnamed, At, Named, Looking
  <2>10. NamesOnce'
    BY <1>2 DEF IInv, NamesOnce
  <2> QED
    BY <2>4, <2>6, <2>7, <2>8, <2>9, <2>10 DEF IInv
<1> QED
  BY <1>3, <1>4

\* A caller moves on to a step outside the look-up of an app.
LEMMA GotoStep ==
  ASSUME IInv, NEW c \in Caller, NEW p, Goto(c, p),
         p \notin Looking \union {"saveCount"}, call[c].pc # "saveCount",
         UNCHANGED <<deployment, apps, totalIntApp, torn, counted>>
  PROVE  IInv'
<1>1. IsCall(call[c])
  BY DEF IInv, Shape
<1>2. IsCall([call[c] EXCEPT !.pc = p]) /\ [call[c] EXCEPT !.pc = p].pc = p
  BY <1>1, Moved
<1> QED
  BY <1>2, QuietStep DEF Goto

\* A caller is done with an app, a client, a token or everything.
LEMMA RestStep ==
  ASSUME IInv, NEW c \in Caller, NEW r, IsCall(r), call' = [call EXCEPT ![c] = r],
         r.pc \in {"idle", "running", "read", "findClient", "findToken"},
         call[c].pc # "saveCount", counted => counted',
         UNCHANGED <<deployment, apps, totalIntApp, torn>>
  PROVE  IInv'
BY QuietStep DEF Looking

LEMMA IdleRests == IsCall(Idle) /\ Idle.pc = "idle"
BY DEF Idle, IsCall

\* The steps of a boot outside the set-up of an app.
LEMMA BootInv ==
  ASSUME IInv, NEW c \in Caller,
         \/ Start(c) \/ GetOrganization(c) \/ CreateOrganization(c)
         \/ FindEntityCount(c) \/ CreateEntityCount(c)
         \/ FindToken(c) \/ UpdateToken(c) \/ CreateToken(c)
  PROVE  IInv'
<1>0. IsCall(call[c])
  BY DEF IInv, Shape
<1>1. CASE Start(c)
  BY <1>1, GotoStep DEF Start, At, tables, Looking
<1>2. CASE GetOrganization(c)
  BY <1>2, GotoStep DEF GetOrganization, At, tables, Looking
<1>3. CASE CreateOrganization(c)
  BY <1>3, GotoStep DEF CreateOrganization, At, records, Looking
<1>4. CASE FindEntityCount(c)
  <2>1. CASE counted
    BY <1>4, <2>1, SettledRests, RestStep DEF FindEntityCount, At, tables
  <2>2. CASE ~counted
    <3>1. Goto(c, "createCount")
      BY <1>4, <2>2 DEF FindEntityCount, Goto
    <3> QED
      BY <1>4, <3>1, GotoStep DEF FindEntityCount, At, tables, Looking
  <2> QED
    BY <2>1, <2>2
<1>5. CASE CreateEntityCount(c)
  <2>1. totalIntApp' = totalIntApp
    BY <1>5 DEF CreateEntityCount, IInv, Shape
  <2> QED
    BY <1>5, <2>1, SettledRests, RestStep DEF CreateEntityCount, At
<1>6. CASE FindToken(c)
  BY <1>6, GotoStep DEF FindToken, At, tables, Looking
<1>7. CASE UpdateToken(c)
  BY <1>7, SettledRests, RestStep DEF UpdateToken, At, tables
<1>8. CASE CreateToken(c)
  BY <1>8, SettledRests, RestStep DEF CreateToken, At, records
<1> QED
  BY <1>1, <1>2, <1>3, <1>4, <1>5, <1>6, <1>7, <1>8

\* The steps of the set-up of an app and its client, and their rejections.
LEMMA InstallingInv ==
  ASSUME IInv, NEW c \in Caller, Installing(c)
  PROVE  IInv'
<1>0. IsCall(call[c]) /\ Shape
  BY DEF IInv, Shape
<1>1. CASE UpdateNothing(c)
  <2>1. CASE call[c].job.client = NoClient
    BY <1>1, <2>1, SettledRests, RestStep DEF UpdateNothing, At, tables
  <2>2. CASE call[c].job.client # NoClient
    BY <1>1, <2>2, IdleRests, RestStep DEF UpdateNothing, At, tables
  <2> QED
    BY <2>1, <2>2
<1>2. CASE FindClient(c)
  <2> DEFINE k == call[c].job.client
  <2>1. CASE Matching(k) = {} /\ Goto(c, "createClient")
    BY <1>2, <2>1, GotoStep DEF FindClient, At, tables, Looking
  <2>2. ASSUME NEW x \in Matching(k),
               call' = [call EXCEPT ![c].pc = "saveClient", ![c].key = Key(x)]
        PROVE  IInv'
    <3> DEFINE r == [call[c] EXCEPT !.pc = "saveClient", !.key = Key(x)]
    <3>1. IsCall(r)
      BY <1>0, Fields
    <3>2. r.pc = "saveClient"
      BY <1>0 DEF IsCall
    <3>3. call' = [call EXCEPT ![c] = r]
      BY <1>0, <2>2 DEF Shape
    <3> HIDE DEF r
    <3> QED
      BY <1>2, <3>1, <3>2, <3>3, QuietStep DEF FindClient, At, tables, Looking
  <2> QED
    BY <1>2, <2>1, <2>2 DEF FindClient
<1>3. CASE SaveClient(c)
  BY <1>0, <1>3, AfterClientRests, RestStep DEF SaveClient, At, records
<1>4. CASE CreateClient(c)
  <2>1. PICK key : call' = [call EXCEPT ![c] = AfterClient(c, key)]
    BY <1>4 DEF CreateClient
  <2> QED
    BY <1>0, <1>4, <2>1, AfterClientRests, RestStep DEF CreateClient, At, records
<1>5. CASE Collide(c)
  BY <1>5, IdleRests, RestStep DEF Collide, Taken, At, tables
<1> QED
  BY <1>1, <1>2, <1>3, <1>4, <1>5, ReadCountInv, FindAppInv, UpdateAppInv,
     CreateAppInv, SaveCountInv DEF Installing

\* A user calls.
LEMMA CallInv ==
  ASSUME IInv, NEW u \in Caller, CallApp(u) \/ CallClient(u)
  PROVE  IInv'
<1>1. \A pc, job : \A n \in Nat :
        IsCall(UserCall(pc, job, n)) /\ UserCall(pc, job, n).pc = pc
  BY DEF UserCall, IsCall
<1>2. /\ UNCHANGED <<deployment, apps, totalIntApp, torn, counted>>
      /\ call[u].pc # "saveCount"
  BY DEF CallApp, CallClient, tables, At
<1>3. CASE CallApp(u)
  <2>1. PICK j \in AppCalls :
          call' = [call EXCEPT ![u] = UserCall("read", OnlyApp(j), 0)]
    BY <1>3 DEF CallApp
  <2> QED
    BY <1>1, <1>2, <2>1, RestStep
<1>4. CASE CallClient(u)
  <2>1. PICK k \in ClientCalls, m \in DOMAIN apps :
          call' = [call EXCEPT ![u] =
                     UserCall("findClient", WithClient(apps[m], k), m)]
    BY <1>4 DEF CallClient
  <2>2. m \in Nat
    BY <2>1 DEF IInv, NumbersDense, Shape
  <2> QED
    BY <1>1, <1>2, <2>1, <2>2, RestStep
<1> QED
  BY <1>3, <1>4

\* The invariant is inductive.
THEOREM Inductive == Spec => []IInv
<1>1. ASSUME IInv, [Next]_vars
      PROVE  IInv'
  <2>1. ASSUME NEW t \in deployment.tasks, Booting(t) \/ Fail(t)
        PROVE  IInv'
    BY <1>1, <2>1, BootInv, InstallingInv, FailInv DEF Booting, Caller
  <2>2. ASSUME NEW u \in deployment.users,
               CallApp(u) \/ CallClient(u) \/ Installing(u) \/ Fail(u)
        PROVE  IInv'
    BY <1>1, <2>2, CallInv, InstallingInv, FailInv DEF Caller
  <2>3. CASE UNCHANGED vars
    BY <1>1, <2>3 DEF vars, tables, IInv, Shape, NumbersDense, SaverAlone,
       ReadBefore, StillUnnamed, NamesOnce, Caller, At, Named
  <2> QED
    BY <1>1, <2>1, <2>2, <2>3 DEF Next
<1> QED
  BY <1>1, InitIInv, PTL DEF Spec

\* Numbers of apps are dense, and only an uncounted app makes the count lag.
THEOREM AppNumbersAreDense == Spec => []NumbersDense
<1>1. IInv => NumbersDense
  BY DEF IInv
<1> QED
  BY <1>1, Inductive, PTL

\* No two apps have the same trimmed name.
THEOREM AppNamesAreUnique == Spec => []NamesOnce
<1>1. IInv => NamesOnce
  BY DEF IInv
<1> QED
  BY <1>1, Inductive, PTL

-----------------------------------------------------------------------------
\* What the set-up of an app leaves behind, up to the blanks of its name.
AppNamed(name) == \E k \in DOMAIN apps : Trimmed(apps[k].name) = Trimmed(name)

Installed(job) ==
  /\ AppNamed(job.app.name)
  /\ job.client # NoClient => Matching(job.client) # {}
  /\ job.token => \E s \in Matching(job.client) : Key(s) \in tokens

Before == {"idle", "org", "createOrg", "count", "createCount"}

AtClient == {"findClient", "saveClient", "createClient"}

AtToken == {"findToken", "updateToken", "createToken"}

WithApp == {"update", "saveCount"} \union AtClient \union AtToken

Inside == {"read", "find", "create"} \union WithApp

\* A task at a job has installed the ones before it; a job that has come past
\* its app has the app.
TaskFine(r) ==
  /\ r.i \in 0..Len(deployment.setup)
  /\ r.pc \in Before \union Inside \union {"running"}
  /\ r.pc \in Before => r.i = 0
  /\ r.pc \in Inside =>
       /\ r.i > 0 /\ r.job = deployment.setup[r.i]
       /\ \A j \in 1..(r.i - 1) : Installed(deployment.setup[j])
  /\ r.pc \in WithApp => AppNamed(r.job.app.name)
  /\ r.pc \in AtClient => r.job.client # NoClient
  /\ r.pc = "running" =>
       \A j \in 1..Len(deployment.setup) : Installed(deployment.setup[j])

\* A user's call names a client or none, and never a token.
UserFine(r) ==
  /\ r.i = 0 /\ r.job.token = FALSE
  /\ r.pc \in {"idle"} \union (Inside \ AtToken)
  /\ IF r.pc \in AtClient THEN r.job.client \in ClientCalls
                          ELSE r.job.client = NoClient

\* The number a caller works with is that of its app, the key that of a client
\* whose names match.
CallFine(r) ==
  /\ r.pc = "saveCount" =>
       r.n + 1 \in DOMAIN apps /\ Trimmed(apps[r.n + 1].name) = Trimmed(r.job.app.name)
  /\ r.pc \in AtClient =>
       r.n \in DOMAIN apps /\ Trimmed(apps[r.n].name) = Trimmed(r.job.app.name)
  /\ r.pc \in {"saveClient"} \union AtToken =>
       \E s \in Matching(r.job.client) : Key(s) = r.key
  /\ r.pc \in AtToken => r.job.token
  /\ r.pc = "updateToken" => r.key \in tokens

Fine(c, r) ==
  /\ CallFine(r)
  /\ c \in deployment.tasks => TaskFine(r)
  /\ c \in deployment.users => UserFine(r)

IsClient(s) ==
  s \in [integration : {s.integration}, sk : {s.sk}, copy : {s.copy},
         name : {s.name}, type : {s.type}, intAppId : {s.intAppId}]

Records ==
  /\ deployment \in Deployments
  /\ \A s \in clients : IsClient(s)
  /\ tokens \subseteq {Key(s) : s \in clients}
  /\ torn \in BOOLEAN /\ calls \in 0..MaxCalls /\ faults \in 0..MaxFaults

SetupInv == Records /\ \A c \in Caller : Fine(c, call[c])

-----------------------------------------------------------------------------
\* What every step keeps: an app its number and trimmed name, a client its key,
\* a client its token.
Kept ==
  /\ deployment' = deployment
  /\ \A k \in DOMAIN apps :
       k \in DOMAIN apps' /\ Trimmed(apps'[k].name) = Trimmed(apps[k].name)
  /\ \A s \in clients : \E x \in clients' : Key(x) = Key(s)
  /\ tokens \subseteq tokens'

\* A trimmed name has no blanks left.
LEMMA TrimTwice == \A x : Trimmed(Trimmed(x)) = Trimmed(x)
BY BootstrapAssumption DEF BootstrapAssumption, Trimmed

\* A client still matches.
LEMMA KeptMatching ==
  ASSUME Kept, NEW k, NEW s \in Matching(k)
  PROVE  \E x \in Matching(k)' : Key(x) = Key(s)
<1>1. PICK x \in clients' : Key(x) = Key(s)
  BY DEF Kept, Matching
<1>2. x.integration = s.integration /\ x.sk = s.sk
  BY <1>1 DEF Key
<1> QED
  BY <1>1, <1>2 DEF Matching

\* An app is still found by its name.
LEMMA KeptName ==
  ASSUME Kept, NEW name, AppNamed(name)
  PROVE  AppNamed(name)'
BY DEF Kept, AppNamed

\* A job stays installed.
LEMMA KeptInstalled ==
  ASSUME Kept, NEW job, Installed(job)
  PROVE  Installed(job)'
<1>1. AppNamed(job.app.name)'
  BY KeptName DEF Installed
<1>2. job.client # NoClient => Matching(job.client)' # {}
  BY KeptMatching DEF Installed
<1>3. ASSUME job.token
      PROVE  \E x \in Matching(job.client)' : Key(x) \in tokens'
  <2>1. PICK s \in Matching(job.client) : Key(s) \in tokens
    BY <1>3 DEF Installed
  <2>2. PICK x \in Matching(job.client)' : Key(x) = Key(s)
    BY KeptMatching
  <2> QED
    BY <2>1, <2>2 DEF Kept
<1> QED
  BY <1>1, <1>2, <1>3 DEF Installed, Key

\* A caller that does not move stays fine.
LEMMA KeptFine ==
  ASSUME Kept, NEW c, NEW r, Fine(c, r)
  PROVE  Fine(c, r)'
<1>1. CallFine(r)'
  <2>1. \A s \in Matching(r.job.client) :
          \E x \in Matching(r.job.client)' : Key(x) = Key(s)
    BY KeptMatching
  <2>2. /\ r.pc = "saveCount" => r.n + 1 \in DOMAIN apps' /\
             Trimmed(apps'[r.n + 1].name) = Trimmed(r.job.app.name)
        /\ r.pc \in AtClient => r.n \in DOMAIN apps' /\
             Trimmed(apps'[r.n].name) = Trimmed(r.job.app.name)
    BY DEF Fine, CallFine, Kept
  <2>3. r.pc \in {"saveClient"} \union AtToken =>
             \E s \in Matching(r.job.client)' : Key(s) = r.key
    <3> SUFFICES ASSUME r.pc \in {"saveClient"} \union AtToken
                 PROVE  \E s \in Matching(r.job.client)' : Key(s) = r.key
      OBVIOUS
    <3>1. PICK s \in Matching(r.job.client) : Key(s) = r.key
      BY DEF Fine, CallFine
    <3> QED
      BY <2>1, <3>1
  <2>4. (r.pc \in AtToken => r.job.token) /\ (r.pc = "updateToken" => r.key \in tokens')
    BY DEF Fine, CallFine, Kept
  <2> QED
    BY <2>2, <2>3, <2>4 DEF CallFine, Trimmed, Key
<1>2. ASSUME c \in deployment.tasks PROVE TaskFine(r)'
  <2>1. TaskFine(r) /\ deployment' = deployment
    BY <1>2 DEF Fine, Kept
  <2>2. \A j : Installed(deployment.setup[j]) => Installed(deployment.setup[j])'
    <3> SUFFICES ASSUME NEW j, Installed(deployment.setup[j])
                 PROVE  Installed(deployment.setup[j])'
      OBVIOUS
    <3>1. PICK job : job = deployment.setup[j]
      OBVIOUS
    <3>2. Installed(job)'
      BY <3>1, KeptInstalled
    <3> QED
      BY <2>1, <3>1, <3>2
  <2>3. AppNamed(r.job.app.name) => AppNamed(r.job.app.name)'
    BY KeptName
  <2> QED
    BY <2>1, <2>2, <2>3 DEF TaskFine
<1>3. c \in deployment.users => UserFine(r)'
  BY DEF Fine, Kept, UserFine
<1> QED
  BY <1>1, <1>2, <1>3 DEF Fine, Kept

-----------------------------------------------------------------------------
\* A step of one caller.
LEMMA CallerStep ==
  ASSUME IInv, SetupInv, Kept, Records', NEW c \in Caller, NEW r, Fine(c, r)',
         call' = [call EXCEPT ![c] = r]
  PROVE  SetupInv'
<1>1. Caller' = Caller
  BY DEF Kept, Caller
<1> SUFFICES ASSUME NEW d \in Caller PROVE Fine(d, call[d])'
  BY <1>1 DEF SetupInv
<1>2. call'[d] = IF d = c THEN r ELSE call[d]
  BY DEF IInv, Shape
<1>3. PICK q : q = call[d]
  OBVIOUS
<1>4. Fine(d, q)'
  BY <1>3, KeptFine DEF SetupInv
<1> QED
  BY <1>2, <1>3, <1>4

\* The tables as they are.
LEMMA SameTables ==
  ASSUME UNCHANGED <<deployment, tables>>
  PROVE  Kept
BY DEF Kept, tables

LEMMA SameRecords ==
  ASSUME Records, UNCHANGED <<deployment, clients, tokens>>,
         torn' \in BOOLEAN, calls' \in 0..MaxCalls, faults' \in 0..MaxFaults
  PROVE  Records'
BY DEF Records, Key, IsClient

\* The deployment is one of those explored, its jobs are those of the set-up.
LEMMA Deployed ==
  ASSUME Records
  PROVE  /\ Len(deployment.setup) \in Nat /\ Len(deployment.setup) > 0
         /\ \A i \in 1..Len(deployment.setup) :
              deployment.setup[i] \in Jobs(deployment)
         /\ \A job \in Jobs(deployment) : \E i \in 1..Len(deployment.setup) :
              job = deployment.setup[i]
         /\ deployment.tasks \cap deployment.users = {}
         /\ \A job \in Jobs(deployment) :
              job.app.name \notin DOMAIN Trim /\ (job.token => job.client # NoClient)
         /\ Caller = deployment.tasks \union deployment.users
<1>1. deployment \in Deployments
  BY DEF Records
<1>2. deployment.setup \in Seq(Jobs(deployment)) /\ Len(deployment.setup) > 0
  BY <1>1, BootstrapAssumption DEF BootstrapAssumption
<1>3. Len(deployment.setup) \in Nat
  BY <1>2
<1>4. /\ \A i \in 1..Len(deployment.setup) : deployment.setup[i] \in Jobs(deployment)
      /\ \A job \in Jobs(deployment) : \E i \in 1..Len(deployment.setup) :
              job = deployment.setup[i]
  BY <1>3 DEF Jobs
<1>5. deployment.tasks \cap deployment.users = {}
  BY <1>1, BootstrapAssumption DEF BootstrapAssumption
<1>6. \A job \in Jobs(deployment) :
        job.app.name \notin DOMAIN Trim /\ (job.token => job.client # NoClient)
  BY <1>1, SetupAssumption DEF SetupAssumption
<1> QED
  BY <1>2, <1>3, <1>4, <1>5, <1>6 DEF Caller

\* A caller at rest.
LEMMA IdleFine ==
  ASSUME Records, NEW c
  PROVE  Fine(c, Idle)
<1>1. Idle.pc = "idle" /\ Idle.i = 0 /\ Idle.job = OnlyApp(App("none", "none", "none"))
  BY DEF Idle
<1>2. Idle.job.token = FALSE /\ Idle.job.client = NoClient
  BY <1>1 DEF OnlyApp
<1> QED
  BY <1>1, <1>2, Deployed DEF Fine, CallFine, TaskFine, UserFine, AtClient, AtToken,
     WithApp, Inside, Before

\* A caller turns to the next job when the ones so far are installed.
LEMMA SettledFine ==
  ASSUME IInv, SetupInv, Records', Kept, NEW c \in Caller,
         c \in deployment.tasks =>
           \/ call[c].pc \in Before
           \/ /\ call[c].pc \in Inside
              /\ \A job : job = call[c].job => Installed(job)'
  PROVE  \E r : r = Settled(c) /\ Fine(c, r)'
<1>1. PICK q : q = call[c]
  OBVIOUS
<1>2. PICK r : r = Settled(c)
  OBVIOUS
<1>3. Fine(c, q) /\ Fine(c, q)'
  BY <1>1, KeptFine DEF SetupInv
<1>4. CASE c \in deployment.users
  <2>1. r = Idle
    BY <1>2, <1>4 DEF Settled
  <2>2. Fine(c, Idle)'
    <3>1. Idle.pc = "idle" /\ Idle.i = 0 /\ Idle.job = OnlyApp(App("none", "none", "none"))
      BY DEF Idle
    <3>2. Idle.job.token = FALSE /\ Idle.job.client = NoClient
      BY <3>1 DEF OnlyApp
    <3>3. Len(deployment'.setup) \in Nat /\ Len(deployment'.setup) > 0
      BY Deployed DEF SetupInv, Kept
    <3> QED
      BY <3>1, <3>2, <3>3 DEF Fine, CallFine, TaskFine, UserFine, AtClient, AtToken,
         WithApp, Inside, Before
  <2> QED
    BY <1>2, <2>1, <2>2
<1>5. CASE c \notin deployment.users
  <2>1. c \in deployment.tasks /\ deployment' = deployment
    BY <1>5 DEF Caller, Kept
  <2>2. TaskFine(q) /\ TaskFine(q)'
    BY <1>3, <2>1 DEF Fine
  <2>3. Len(deployment.setup) \in Nat /\ Len(deployment.setup) > 0
    BY Deployed DEF SetupInv
  <2>4. q.i \in 0..Len(deployment.setup)
    BY <2>2 DEF TaskFine
  <2> DEFINE i == q.i + 1
  <2>5. \A j \in 1..(i - 1) : Installed(deployment.setup[j])'
    <3>1. CASE call[c].pc \in Before
      BY <1>1, <2>2, <3>1 DEF TaskFine
    <3>2. CASE /\ call[c].pc \in Inside
               /\ \A job : job = call[c].job => Installed(job)'
      <4>1. \A j \in 1..(q.i - 1) : Installed(deployment.setup[j])'
        BY <1>1, <2>2, <3>2 DEF TaskFine
      <4>2. Installed(deployment.setup[q.i])'
        <5>1. PICK job : job = q.job
          OBVIOUS
        <5>2. job = deployment.setup[q.i]
          BY <1>1, <2>2, <3>2, <5>1 DEF TaskFine
        <5>3. Installed(job)'
          BY <1>1, <3>2, <5>1
        <5> QED
          BY <2>1, <5>2, <5>3
      <4> QED
        BY <2>4, <4>1, <4>2
    <3> QED
      BY <2>1, <3>1, <3>2
  <2>6. CASE i > Len(deployment.setup)
    <3>1. r = [Idle EXCEPT !.pc = "running"]
      BY <1>1, <1>2, <1>5, <2>6 DEF Settled
    <3>2. r.pc = "running" /\ r.i = 0
      BY <3>1 DEF Idle
    <3> QED
      BY <1>2, <1>5, <2>1, <2>3, <2>4, <2>5, <2>6, <3>2 DEF Fine, CallFine, TaskFine,
         AtClient, AtToken, WithApp, Inside, Before
  <2>7. CASE ~(i > Len(deployment.setup))
    <3>1. r = [Idle EXCEPT !.pc = "read", !.i = i, !.job = deployment.setup[i]]
      BY <1>1, <1>2, <1>5, <2>7 DEF Settled
    <3>2. r.pc = "read" /\ r.i = i /\ r.job = deployment.setup[i]
      BY <3>1 DEF Idle
    <3> QED
      BY <1>2, <1>5, <2>1, <2>3, <2>4, <2>5, <2>7, <3>2 DEF Fine, CallFine, TaskFine,
         AtClient, AtToken, WithApp, Inside, Before
  <2> QED
    BY <2>6, <2>7
<1> QED
  BY <1>4, <1>5

\* What follows the record of the app.
LEMMA AfterAppFine ==
  ASSUME IInv, SetupInv, Records', Kept, NEW c \in Caller, NEW n \in Nat,
         call[c].pc \in {"update", "saveCount"}, n \in DOMAIN apps',
         Trimmed(apps'[n].name) = Trimmed(call[c].job.app.name)
  PROVE  \E r : r = AfterApp(c, n) /\ Fine(c, r)'
<1>1. PICK q : q = call[c]
  OBVIOUS
<1>2. Fine(c, q) /\ Fine(c, q)' /\ IsCall(q)
  BY <1>1, KeptFine DEF SetupInv, IInv, Shape
<1>3. AppNamed(q.job.app.name)'
  BY <1>1 DEF AppNamed, Trimmed
<1>4. q.pc \in Inside /\ q.pc \in WithApp /\ q.pc \notin AtClient
  BY <1>1 DEF Inside, WithApp, AtClient
<1>5. CASE q.job.client = NoClient
  <2>1. ASSUME c \in deployment.tasks, NEW job, job = call[c].job
        PROVE  Installed(job)'
    <3>1. job = deployment.setup[q.i] /\ q.i \in 1..Len(deployment.setup)
      BY <1>1, <1>2, <1>4, <2>1 DEF Fine, TaskFine
    <3>2. job.token => job.client # NoClient
      BY <3>1, Deployed DEF SetupInv
    <3> QED
      BY <1>1, <1>3, <1>5, <2>1, <3>2 DEF Installed
  <2> QED
    BY <1>1, <1>4, <1>5, <2>1, SettledFine DEF AfterApp
<1>6. CASE q.job.client # NoClient
  <2>1. PICK r : r = [q EXCEPT !.pc = "findClient", !.n = n]
    OBVIOUS
  <2>2. /\ r.pc = "findClient" /\ r.n = n /\ r.i = q.i /\ r.job = q.job
        /\ r = AfterApp(c, n)
    BY <1>1, <1>2, <1>6, <2>1 DEF IsCall, AfterApp
  <2>3. CallFine(r)'
    BY <1>1, <2>2 DEF CallFine, AtClient, AtToken, Trimmed
  <2>4. c \in deployment.tasks => TaskFine(r)'
    <3> SUFFICES ASSUME c \in deployment.tasks PROVE TaskFine(r)'
      OBVIOUS
    <3>1. TaskFine(q)'
      BY <1>2 DEF Fine, Kept
    <3> QED
      BY <1>3, <1>4, <1>6, <2>2, <3>1 DEF TaskFine, Inside, Before, WithApp, AtClient
  <2>5. c \notin deployment.users
    BY <1>2, <1>4, <1>6 DEF Fine, UserFine
  <2> QED
    BY <2>2, <2>3, <2>4, <2>5 DEF Fine, Kept
<1> QED
  BY <1>5, <1>6

\* What follows the record of the client.
LEMMA AfterClientFine ==
  ASSUME IInv, SetupInv, Records', Kept, NEW c \in Caller, NEW key,
         call[c].pc \in {"saveClient", "createClient"},
         \A k : k = call[c].job.client => \E s \in Matching(k)' : Key(s) = key
  PROVE  \E r : r = AfterClient(c, key) /\ Fine(c, r)'
<1>1. PICK q : q = call[c]
  OBVIOUS
<1>2. Fine(c, q) /\ Fine(c, q)' /\ IsCall(q)
  BY <1>1, KeptFine DEF SetupInv, IInv, Shape
<1>3. \E s \in Matching(q.job.client)' : Key(s) = key
  <2>1. PICK k : k = call[c].job.client
    OBVIOUS
  <2>2. \E s \in Matching(k)' : Key(s) = key
    BY <2>1
  <2> QED
    BY <1>1, <2>1, <2>2
<1>4. q.pc \in Inside /\ q.pc \in WithApp
  BY <1>1 DEF Inside, WithApp, AtClient
<1>5. CASE ~q.job.token
  <2>1. ASSUME c \in deployment.tasks, NEW job, job = call[c].job
        PROVE  Installed(job)'
    <3>1. AppNamed(q.job.app.name)'
      BY <1>2, <1>4, <2>1 DEF Fine, TaskFine, Kept
    <3>2. job = q.job
      BY <1>1, <2>1
    <3>3. \E s : s \in Matching(job.client)'
      BY <1>3, <3>2
    <3> QED
      BY <1>5, <3>1, <3>2, <3>3 DEF Installed
  <2> QED
    BY <1>1, <1>4, <1>5, <2>1, SettledFine DEF AfterClient
<1>6. CASE q.job.token
  <2>1. PICK r : r = [q EXCEPT !.pc = "findToken", !.key = key]
    OBVIOUS
  <2>2. /\ r.pc = "findToken" /\ r.key = key /\ r.i = q.i /\ r.job = q.job
        /\ r = AfterClient(c, key)
    BY <1>1, <1>2, <1>6, <2>1 DEF IsCall, AfterClient
  <2>3. CallFine(r)'
    <3>1. r.pc \notin {"saveCount", "updateToken"} \union AtClient
      BY <2>2 DEF AtClient
    <3> QED
      BY <1>3, <1>6, <2>2, <3>1 DEF CallFine
  <2>4. c \in deployment.tasks => TaskFine(r)'
    <3> SUFFICES ASSUME c \in deployment.tasks PROVE TaskFine(r)'
      OBVIOUS
    <3>1. TaskFine(q)'
      BY <1>2 DEF Fine, Kept
    <3> QED
      BY <1>4, <2>2, <3>1 DEF TaskFine, Inside, Before, WithApp, AtToken, AtClient
  <2>5. c \notin deployment.users
    BY <1>2, <1>6 DEF Fine, UserFine
  <2> QED
    BY <2>2, <2>3, <2>4, <2>5 DEF Fine, Kept
<1> QED
  BY <1>5, <1>6

\* A caller that only turns to another step.
LEMMA MovedFine ==
  ASSUME IInv, SetupInv, Kept, Records', NEW c \in Caller, NEW p, Goto(c, p),
         \/ call[c].pc \in Before /\ p \in Before
         \/ call[c].pc \in Inside /\ p \in Inside,
         p \in AtClient <=> call[c].pc \in AtClient,
         c \in deployment.users => p \in Inside \ AtToken,
         \A r : r.pc = p /\ r.job = call[c].job /\ r.n = call[c].n /\ r.key = call[c].key
                => CallFine(r)' /\ (p \in WithApp => AppNamed(r.job.app.name)')
  PROVE  SetupInv'
<1>1. PICK q : q = call[c]
  OBVIOUS
<1>2. Fine(c, q)' /\ IsCall(q)
  BY <1>1, KeptFine DEF SetupInv, IInv, Shape
<1>3. PICK r : r = [q EXCEPT !.pc = p]
  OBVIOUS
<1>4. /\ r.pc = p /\ r.i = q.i /\ r.job = q.job /\ r.n = q.n /\ r.key = q.key
      /\ call' = [call EXCEPT ![c] = r]
  BY <1>1, <1>2, <1>3 DEF IsCall, Goto
<1>5. CallFine(r)' /\ (p \in WithApp => AppNamed(r.job.app.name)')
  BY <1>1, <1>4
<1>6. c \in deployment'.tasks => TaskFine(r)'
  <2> SUFFICES ASSUME c \in deployment'.tasks PROVE TaskFine(r)'
    OBVIOUS
  <2>1. TaskFine(q)'
    BY <1>2 DEF Fine
  <2> QED
    BY <1>1, <1>4, <1>5, <2>1 DEF TaskFine, Inside, Before, WithApp, AtClient, AtToken
<1>7. c \in deployment'.users => UserFine(r)'
  <2> SUFFICES ASSUME c \in deployment'.users PROVE UserFine(r)'
    OBVIOUS
  <2>1. UserFine(q)
    BY <1>2 DEF Fine, UserFine
  <2> QED
    BY <1>1, <1>4, <2>1 DEF UserFine, Kept
<1>8. Fine(c, r)'
  BY <1>5, <1>6, <1>7 DEF Fine
<1> QED
  BY <1>4, <1>8, CallerStep

-----------------------------------------------------------------------------
\* The organization, the count and the token: tasks only.
LEMMA BootFine ==
  ASSUME IInv, SetupInv, NEW c \in deployment.tasks,
         \/ Start(c) \/ GetOrganization(c) \/ CreateOrganization(c)
         \/ FindEntityCount(c) \/ CreateEntityCount(c)
         \/ FindToken(c) \/ UpdateToken(c) \/ CreateToken(c)
  PROVE  SetupInv'
<1>0. c \in Caller /\ Records /\ c \notin deployment.users /\ Fine(c, call[c])
  BY Deployed DEF SetupInv, Caller
<1>1. CASE Start(c) \/ GetOrganization(c)
  <2>1. PICK p \in Before : Goto(c, p)
    BY <1>1 DEF Start, GetOrganization, Before
  <2>2. Kept /\ Records'
    BY <1>0, <1>1, SameTables, SameRecords DEF Start, GetOrganization, tables, Records
  <2>3. call[c].pc \in Before
    BY <1>1 DEF Start, GetOrganization, At, Before
  <2> QED
    BY <1>0, <2>1, <2>2, <2>3, MovedFine
       DEF Before, AtClient, AtToken, WithApp, CallFine
<1>2. CASE CreateOrganization(c)
  <2>2. Kept /\ Records'
    BY <1>0, <1>2, SameRecords DEF CreateOrganization, records, Records, Kept
  <2>3. call[c].pc \in Before /\ Goto(c, "count")
    BY <1>2 DEF CreateOrganization, At, Before
  <2> QED
    BY <1>0, <2>2, <2>3, MovedFine DEF Before, AtClient, AtToken, WithApp, CallFine
<1>3. ASSUME FindEntityCount(c) \/ CreateEntityCount(c),
             call' = [call EXCEPT ![c] = Settled(c)]
      PROVE  SetupInv'
  <2>1. Kept /\ Records'
    BY <1>0, <1>3, SameRecords
       DEF FindEntityCount, CreateEntityCount, tables, Records, Kept
  <2>2. call[c].pc \in Before
    BY <1>3 DEF FindEntityCount, CreateEntityCount, At, Before
  <2>3. PICK r : r = Settled(c) /\ Fine(c, r)'
    BY <1>0, <2>1, <2>2, SettledFine
  <2> QED
    BY <1>0, <1>3, <2>1, <2>3, CallerStep
<1>4. CASE FindEntityCount(c) /\ Goto(c, "createCount")
  <2>1. Kept /\ Records'
    BY <1>0, <1>4, SameTables, SameRecords DEF FindEntityCount, tables, Records
  <2>2. call[c].pc \in Before
    BY <1>4 DEF FindEntityCount, At, Before
  <2> QED
    BY <1>0, <1>4, <2>1, <2>2, MovedFine
       DEF Before, AtClient, AtToken, WithApp, CallFine
<1>5. CASE FindToken(c)
  <2>1. Kept /\ Records'
    BY <1>0, <1>5, SameTables, SameRecords DEF FindToken, tables, Records
  <2>2. call[c].pc = "findToken"
    BY <1>5 DEF FindToken, At
  <2>3. PICK q : q = call[c]
    OBVIOUS
  <2>4. CallFine(q) /\ CallFine(q)'
    BY <1>0, <2>1, <2>3, KeptFine DEF Fine
  <2>5. PICK p \in {"updateToken", "createToken"} :
          Goto(c, p) /\ (p = "updateToken" => q.key \in tokens)
    BY <1>5, <2>3 DEF FindToken
  <2>6. AppNamed(q.job.app.name)'
    BY <1>0, <2>1, <2>2, <2>3, KeptFine DEF Fine, TaskFine, Kept, WithApp, AtToken
  <2>7. ASSUME NEW r, r.pc = p, r.job = call[c].job, r.n = call[c].n, r.key = call[c].key
        PROVE  CallFine(r)' /\ (p \in WithApp => AppNamed(r.job.app.name)')
    <3>1. r.pc \notin {"saveCount"} \union AtClient /\ r.pc \in AtToken
      BY <2>5, <2>7 DEF AtClient, AtToken
    <3>2. q.pc \in AtToken
      BY <2>2, <2>3 DEF AtToken
    <3>3. r.job = q.job /\ r.key = q.key
      BY <2>3, <2>7
    <3>4. r.key \in tokens' \/ r.pc # "updateToken"
      BY <2>1, <2>5, <2>7, <3>3 DEF Kept
    <3> QED
      BY <2>4, <2>6, <3>1, <3>2, <3>3, <3>4 DEF CallFine
  <2> QED
    BY <1>0, <2>1, <2>2, <2>5, <2>7, MovedFine DEF Inside, AtClient, AtToken, WithApp
<1>6. ASSUME UpdateToken(c) \/ CreateToken(c), tokens \subseteq tokens',
             call[c].key \in tokens', tokens' \subseteq {call[c].key} \union tokens
      PROVE  SetupInv'
  <2>1. PICK q : q = call[c]
    OBVIOUS
  <2>2. q.pc \in AtToken /\ q.pc \in {"updateToken", "createToken"}
    BY <1>6, <2>1 DEF UpdateToken, CreateToken, At, AtToken
  <2>3. Kept
    BY <1>6 DEF UpdateToken, CreateToken, tables, records, Kept
  <2>4. PICK s \in Matching(q.job.client) : Key(s) = q.key
    BY <1>0, <2>1, <2>2 DEF Fine, CallFine
  <2>5. UNCHANGED <<deployment, clients, apps, torn, calls, faults>>
    BY <1>6 DEF UpdateToken, CreateToken, tables, records
  <2>6. Records'
    <3>1. tokens' \subseteq {Key(x) : x \in clients}
      BY <1>0, <1>6, <2>1, <2>4 DEF Records, Matching
    <3> QED
      BY <1>0, <2>5, <3>1 DEF Records, Key, IsClient
  <2>7. ASSUME NEW job, job = call[c].job PROVE Installed(job)'
    <3>1. q.job = job
      BY <2>1, <2>7
    <3>2. AppNamed(job.app.name)'
      BY <1>0, <2>1, <2>2, <2>3, <3>1, KeptFine DEF Fine, TaskFine, Kept, WithApp
    <3>3. PICK x \in Matching(job.client)' : Key(x) = q.key
      BY <2>3, <2>4, <3>1, KeptMatching
    <3> QED
      BY <1>6, <2>1, <3>2, <3>3 DEF Installed, Key
  <2>8. PICK r : r = Settled(c) /\ Fine(c, r)'
    BY <1>0, <2>1, <2>2, <2>3, <2>6, <2>7, SettledFine DEF Inside, WithApp
  <2>9. call' = [call EXCEPT ![c] = r]
    BY <1>6, <2>8 DEF UpdateToken, CreateToken
  <2> QED
    BY <1>0, <2>3, <2>6, <2>8, <2>9, CallerStep
<1>7. CASE UpdateToken(c)
  <2>1. call[c].key \in tokens /\ tokens' = tokens
    BY <1>0, <1>7 DEF UpdateToken, At, Fine, CallFine, tables
  <2> QED
    BY <1>6, <1>7, <2>1
<1>8. CASE CreateToken(c)
  BY <1>6, <1>8 DEF CreateToken
<1>9. FindEntityCount(c) => \/ call' = [call EXCEPT ![c] = Settled(c)]
                            \/ Goto(c, "createCount")
  BY DEF FindEntityCount, Goto
<1> QED
  BY <1>1, <1>2, <1>3, <1>4, <1>5, <1>7, <1>8, <1>9 DEF CreateEntityCount

\* A caller dies or gives up.
LEMMA IdleStep ==
  ASSUME IInv, SetupInv, Kept, Records', NEW c \in Caller,
         call' = [call EXCEPT ![c] = Idle]
  PROVE  SetupInv'
<1>1. Idle.pc = "idle" /\ Idle.i = 0 /\ Idle.job = OnlyApp(App("none", "none", "none"))
  BY DEF Idle
<1>2. Idle.job.token = FALSE /\ Idle.job.client = NoClient
  BY <1>1 DEF OnlyApp
<1>3. Len(deployment'.setup) \in Nat
  BY Deployed DEF SetupInv, Kept
<1>4. PICK r : r = Idle
  OBVIOUS
<1>5. Fine(c, r)'
  BY <1>1, <1>2, <1>3, <1>4 DEF Fine, CallFine, TaskFine, UserFine, AtClient, AtToken,
     WithApp, Inside, Before
<1> QED
  BY <1>4, <1>5, CallerStep

\* Failing touches no table.
LEMMA FailFine ==
  ASSUME IInv, SetupInv, NEW c \in Caller, Fail(c) \/ Collide(c)
  PROVE  SetupInv'
<1>1. Kept
  BY SameTables DEF Fail, Collide, tables
<1>2. /\ UNCHANGED <<deployment, clients, tokens>>
      /\ torn' \in BOOLEAN /\ calls' \in 0..MaxCalls /\ faults' \in 0..MaxFaults
  <2>1. torn' \in BOOLEAN
    BY DEF Fail, Collide, SetupInv, Records
  <2>2. /\ calls' = calls /\ calls \in 0..MaxCalls /\ faults \in 0..MaxFaults
        /\ faults' = faults \/ (faults > 0 /\ faults' = faults - 1)
    BY DEF Fail, Collide, SetupInv, Records
  <2>4. MaxFaults \in Nat /\ MaxCalls \in Nat
    BY BootstrapAssumption DEF BootstrapAssumption
  <2>3. UNCHANGED <<deployment, clients, tokens>>
    BY DEF Fail, Collide, tables
  <2> QED
    BY <2>1, <2>2, <2>3, <2>4
<1>3. Records'
  BY <1>2, SameRecords DEF SetupInv
<1> QED
  BY <1>1, <1>3, IdleStep DEF Fail, Collide

\* A user calls.
LEMMA CallFineStep ==
  ASSUME IInv, SetupInv, NEW c \in deployment.users, CallApp(c) \/ CallClient(c)
  PROVE  SetupInv'
<1>0. c \in Caller /\ Records /\ c \notin deployment.tasks
  BY Deployed DEF SetupInv, Caller
<1>1. Kept
  BY SameTables DEF CallApp, CallClient, tables
<1>2. /\ UNCHANGED <<deployment, clients, tokens>>
      /\ torn' \in BOOLEAN /\ calls' \in 0..MaxCalls /\ faults' \in 0..MaxFaults
  BY <1>0, BootstrapAssumption
     DEF BootstrapAssumption, CallApp, CallClient, tables, Records
<1>3. Records'
  BY <1>0, <1>2, SameRecords
<1>4. CASE CallApp(c)
  <2>1. PICK j \in AppCalls :
          call' = [call EXCEPT ![c] = UserCall("read", OnlyApp(j), 0)]
    BY <1>4 DEF CallApp
  <2>2. PICK r : r = UserCall("read", OnlyApp(j), 0)
    OBVIOUS
  <2>3. r.pc = "read" /\ r.i = 0 /\ r.job.token = FALSE /\ r.job.client = NoClient
    BY <2>2 DEF UserCall, OnlyApp
  <2>4. Fine(c, r)'
    BY <1>0, <1>1, <2>3 DEF Kept, Fine, CallFine, UserFine, AtClient, AtToken, WithApp,
       Inside
  <2> QED
    BY <1>0, <1>1, <1>3, <2>1, <2>2, <2>4, CallerStep
<1>5. CASE CallClient(c)
  <2>1. PICK k \in ClientCalls, n \in DOMAIN apps :
          call' = [call EXCEPT ![c] =
                     UserCall("findClient", WithClient(apps[n], k), n)]
    BY <1>5 DEF CallClient
  <2>2. PICK r : r = UserCall("findClient", WithClient(apps[n], k), n)
    OBVIOUS
  <2>3. /\ r.pc = "findClient" /\ r.i = 0 /\ r.n = n
        /\ r.job.token = FALSE /\ r.job.client = k /\ r.job.app = apps[n]
    BY <2>2 DEF UserCall, WithClient
  <2>4. Fine(c, r)'
    BY <1>0, <1>1, <2>3 DEF Kept, Fine, CallFine, UserFine, AtClient, AtToken, WithApp,
       Inside
  <2> QED
    BY <1>0, <1>1, <1>3, <2>1, <2>2, <2>4, CallerStep
<1> QED
  BY <1>4, <1>5

\* The look-up of the app.
LEMMA LookupFine ==
  ASSUME IInv, SetupInv, NEW c \in Caller, ReadCount(c) \/ FindApp(c)
  PROVE  SetupInv'
<1>1. PICK q : q = call[c]
  OBVIOUS
<1>2. Kept /\ Records'
  BY SameTables, SameRecords DEF ReadCount, FindApp, tables, SetupInv, Records
<1>3. Fine(c, q) /\ Fine(c, q)' /\ IsCall(q)
  BY <1>1, <1>2, KeptFine DEF SetupInv, IInv, Shape
<1>4. CASE ReadCount(c)
  <2>1. PICK r : r = [q EXCEPT !.pc = "find", !.n = totalIntApp]
    OBVIOUS
  <2>2. /\ q.pc = "read" /\ r.pc = "find" /\ r.i = q.i /\ r.job = q.job
        /\ call' = [call EXCEPT ![c] = r]
    BY <1>1, <1>3, <1>4, <2>1 DEF IsCall, ReadCount, At
  <2>3. Fine(c, r)'
    BY <1>3, <2>2 DEF Fine, CallFine, TaskFine, UserFine, AtClient, AtToken,
       WithApp, Inside, Before
  <2> QED
    BY <1>2, <2>2, <2>3, CallerStep
<1>5. CASE FindApp(c)
  <2>1. q.pc = "find" /\ apps' = apps
    BY <1>1, <1>5 DEF FindApp, At, tables
  <2>2. PICK p \in {"create", "update"} :
          Goto(c, p) /\ (p = "update" => Named(q.job.app.name, q.n) # {})
    BY <1>1, <1>5 DEF FindApp
  <2>3. p = "update" => AppNamed(q.job.app.name)'
    BY <2>1, <2>2, TrimTwice DEF Named, AppNamed, Trimmed
  <2> QED
    BY <1>1, <1>2, <2>1, <2>2, <2>3, MovedFine
       DEF CallFine, AtClient, AtToken, WithApp, Inside, Before
<1> QED
  BY <1>4, <1>5

\* The app is stored.
LEMMA AppFine ==
  ASSUME IInv, SetupInv, NEW c \in Caller,
         UpdateApp(c) \/ UpdateNothing(c) \/ CreateApp(c) \/ SaveCount(c)
  PROVE  SetupInv'
<1>1. PICK q : q = call[c]
  OBVIOUS
<1>2. Fine(c, q) /\ IsCall(q) /\ Records /\ q.n \in Nat
  BY <1>1 DEF SetupInv, IInv, Shape, IsCall
<1>3. Records'
  BY <1>2, SameRecords DEF UpdateApp, UpdateNothing, CreateApp, SaveCount, tables, Records
<1>4. CASE UpdateApp(c)
  <2>1. PICK k \in Named(q.job.app.name, q.n) :
          /\ apps' = [apps EXCEPT ![k] = q.job.app]
          /\ call' = [call EXCEPT ![c] = AfterApp(c, k)]
    BY <1>1, <1>4 DEF UpdateApp
  <2>2. k \in DOMAIN apps /\ apps[k].name = Trimmed(q.job.app.name)
    BY <2>1 DEF Named
  <2>3. Trimmed(apps'[k].name) = Trimmed(apps[k].name)
    BY <2>1, <2>2, TrimTwice
  <2>4. Kept
    BY <1>4, <2>1, <2>3 DEF UpdateApp, Kept
  <2>5. k \in Nat /\ k \in DOMAIN apps' /\ q.pc = "update"
    BY <1>1, <1>4, <2>1, <2>2 DEF UpdateApp, At, IInv, NumbersDense, Shape
  <2>6. Trimmed(apps'[k].name) = Trimmed(q.job.app.name)
    BY <2>1, <2>2
  <2>7. PICK r : r = AfterApp(c, k) /\ Fine(c, r)'
    BY <1>1, <1>3, <2>4, <2>5, <2>6, AfterAppFine
  <2> QED
    BY <1>3, <2>1, <2>4, <2>7, CallerStep
<1>5. CASE UpdateNothing(c)
  <2>1. Kept /\ q.pc = "update"
    BY <1>1, <1>5, SameTables DEF UpdateNothing, At, tables
  <2>2. CASE q.job.client # NoClient
    BY <1>1, <1>3, <1>5, <2>1, <2>2, IdleStep DEF UpdateNothing
  <2>3. CASE q.job.client = NoClient
    <3>1. ASSUME c \in deployment.tasks, NEW job, job = call[c].job
          PROVE  Installed(job)'
      <4>1. /\ job = deployment.setup[q.i] /\ q.i \in 1..Len(deployment.setup)
            /\ AppNamed(job.app.name)
        BY <1>1, <1>2, <2>1, <3>1 DEF Fine, TaskFine, Inside, WithApp
      <4>2. ~job.token
        BY <1>1, <1>2, <2>3, <3>1, <4>1, Deployed
      <4> QED
        BY <1>1, <2>1, <2>3, <3>1, <4>1, <4>2, KeptName DEF Installed
    <3>2. PICK r : r = Settled(c) /\ Fine(c, r)'
      BY <1>1, <1>3, <2>1, <3>1, SettledFine DEF Inside, WithApp
    <3> QED
      BY <1>1, <1>3, <1>5, <2>1, <2>3, <3>2, CallerStep DEF UpdateNothing
  <2> QED
    BY <2>2, <2>3
<1>6. CASE CreateApp(c)
  <2>1. /\ q.pc = "create" /\ q.n + 1 \notin DOMAIN apps /\ Goto(c, "saveCount")
        /\ apps' = [k \in DOMAIN apps \union {q.n + 1} |->
                      IF k = q.n + 1 THEN q.job.app ELSE apps[k]]
    BY <1>1, <1>6 DEF CreateApp, At
  <2>2. Kept
    BY <1>6, <2>1 DEF CreateApp, Kept
  <2>3. q.n + 1 \in DOMAIN apps' /\ Trimmed(apps'[q.n + 1].name) = Trimmed(q.job.app.name)
    BY <2>1
  <2>4. AppNamed(q.job.app.name)'
    BY <2>3 DEF AppNamed, Trimmed
  <2> QED
    BY <1>1, <1>3, <2>1, <2>2, <2>3, <2>4, MovedFine
       DEF CallFine, AtClient, AtToken, WithApp, Inside, Before, Trimmed
<1>7. CASE SaveCount(c)
  <2>1. /\ q.pc = "saveCount" /\ apps' = apps
        /\ call' = [call EXCEPT ![c] = AfterApp(c, q.n + 1)]
    BY <1>1, <1>7 DEF SaveCount, At
  <2>2. Kept
    BY <1>7 DEF SaveCount, Kept
  <2>3. q.n + 1 \in DOMAIN apps' /\ Trimmed(apps'[q.n + 1].name) = Trimmed(q.job.app.name)
    BY <1>2, <2>1 DEF Fine, CallFine
  <2>4. q.n + 1 \in Nat
    BY <1>2
  <2>5. PICK r : r = AfterApp(c, q.n + 1) /\ Fine(c, r)'
    BY <1>1, <1>3, <2>1, <2>2, <2>3, <2>4, AfterAppFine
  <2> QED
    BY <1>3, <2>1, <2>2, <2>5, CallerStep
<1> QED
  BY <1>4, <1>5, <1>6, <1>7

\* The client is looked for and stored.
LEMMA ClientFine ==
  ASSUME IInv, SetupInv, NEW c \in Caller,
         FindClient(c) \/ SaveClient(c) \/ CreateClient(c)
  PROVE  SetupInv'
<1>1. PICK q : q = call[c]
  OBVIOUS
<1>2. Fine(c, q) /\ IsCall(q) /\ Records
  BY <1>1 DEF SetupInv, IInv, Shape
<1> DEFINE k == q.job.client
<1>3. CASE FindClient(c)
  <2>1. Kept /\ Records' /\ q.pc = "findClient"
    BY <1>1, <1>2, <1>3, SameTables, SameRecords DEF FindClient, tables, Records, At
  <2>2. Fine(c, q)'
    BY <1>2, <2>1, KeptFine
  <2>3. ASSUME NEW s \in Matching(k),
               call' = [call EXCEPT ![c].pc = "saveClient", ![c].key = Key(s)]
        PROVE  SetupInv'
    <3>1. PICK r : r = [q EXCEPT !.pc = "saveClient", !.key = Key(s)]
      OBVIOUS
    <3>2. /\ r.pc = "saveClient" /\ r.i = q.i /\ r.job = q.job /\ r.n = q.n
          /\ r.key = Key(s)
      BY <1>2, <3>1 DEF IsCall
    <3>3. call' = [call EXCEPT ![c] = r]
      BY <1>1, <2>3, <3>1 DEF IInv, Shape
    <3>4. PICK x \in Matching(k)' : Key(x) = Key(s)
      BY <2>1, KeptMatching
    <3>5. CallFine(r)'
      BY <2>1, <2>2, <3>2, <3>4 DEF Fine, CallFine, AtClient, AtToken
    <3>6. Fine(c, r)'
      BY <2>1, <2>2, <3>2, <3>5 DEF Fine, TaskFine, UserFine, AtClient, AtToken,
         WithApp, Inside, Before
    <3> QED
      BY <2>1, <3>3, <3>6, CallerStep
  <2>4. ASSUME Goto(c, "createClient") PROVE SetupInv'
    <3>1. CallFine(q)' /\ (c \in deployment.tasks => AppNamed(q.job.app.name)')
      BY <2>1, <2>2 DEF Fine, TaskFine, Kept, WithApp, AtClient
    <3>2. AppNamed(q.job.app.name)'
      <4>1. q.n \in DOMAIN apps' /\ Trimmed(apps'[q.n].name) = Trimmed(q.job.app.name)
        BY <2>1, <2>2 DEF Fine, CallFine, AtClient, Trimmed
      <4> QED
        BY <4>1 DEF AppNamed, Trimmed
    <3>3. ASSUME NEW r, r.pc = "createClient", r.job = call[c].job, r.n = call[c].n
          PROVE  CallFine(r)' /\ AppNamed(r.job.app.name)'
      <4>1. r.job = q.job /\ r.n = q.n
        BY <1>1, <3>3
      <4> QED
        BY <2>1, <3>1, <3>2, <3>3, <4>1 DEF CallFine, AtClient, AtToken
    <3> QED
      BY <1>1, <2>1, <2>4, <3>3, MovedFine DEF AtClient, AtToken, WithApp, Inside
  <2>5. \/ \E s \in Matching(k) :
             call' = [call EXCEPT ![c].pc = "saveClient", ![c].key = Key(s)]
        \/ Goto(c, "createClient")
    BY <1>1, <1>3 DEF FindClient
  <2> QED
    BY <2>3, <2>4, <2>5
<1>4. CASE SaveClient(c)
  <2> DEFINE after(s) == IF Key(s) = q.key
                         THEN [s EXCEPT !.name = k.name, !.type = k.type, !.intAppId = q.n]
                         ELSE s
  <2>1. /\ q.pc = "saveClient" /\ clients' = {after(s) : s \in clients}
        /\ call' = [call EXCEPT ![c] = AfterClient(c, q.key)]
        /\ UNCHANGED <<deployment, apps, tokens, torn, calls, faults>>
    BY <1>1, <1>4 DEF SaveClient, At, records
  <2>2. \A s \in clients : IsClient(after(s)) /\ Key(after(s)) = Key(s)
    BY <1>2 DEF Records, IsClient, Key
  <2> HIDE DEF after
  <2>3. \A s \in clients : \E x \in clients' : Key(x) = Key(s)
    BY <2>1, <2>2
  <2>4. Kept
    BY <2>1, <2>3 DEF Kept
  <2>5. Records'
    <3>1. tokens' \subseteq {Key(x) : x \in clients'}
      <4> SUFFICES ASSUME NEW t \in tokens PROVE \E x \in clients' : t = Key(x)
        BY <2>1
      <4>1. PICK s \in clients : t = Key(s)
        BY <1>2 DEF Records
      <4> QED
        BY <2>3, <4>1
    <3>2. \A x \in clients' : IsClient(x)
      BY <2>1, <2>2
    <3> QED
      BY <1>2, <2>1, <3>1, <3>2 DEF Records, IsClient, Key
  <2>6. ASSUME NEW l, l = call[c].job.client
        PROVE  \E x \in Matching(l)' : Key(x) = q.key
    <3>1. PICK s \in Matching(l) : Key(s) = q.key
      BY <1>1, <1>2, <2>1, <2>6 DEF Fine, CallFine
    <3> QED
      BY <2>4, <3>1, KeptMatching
  <2>7. PICK r : r = AfterClient(c, q.key) /\ Fine(c, r)'
    BY <1>1, <2>1, <2>4, <2>5, <2>6, AfterClientFine
  <2> QED
    BY <2>1, <2>4, <2>5, <2>7, CallerStep
<1>5. CASE CreateClient(c)
  <2> DEFINE new == [integration |-> k.integration, sk |-> k.name,
                     copy |-> Cardinality({s \in clients : s.integration = k.integration
                                                           /\ s.sk = k.name}) + 1,
                     name |-> k.name, type |-> k.type, intAppId |-> q.n]
  <2>1. /\ q.pc = "createClient" /\ clients' = clients \union {new}
        /\ call' = [call EXCEPT ![c] = AfterClient(c, Key(new))]
        /\ UNCHANGED <<deployment, apps, tokens, torn, calls, faults>>
    BY <1>1, <1>5 DEF CreateClient, At, records
  <2>2. IsClient(new) /\ new.integration = k.integration /\ new.sk = k.name
    BY DEF IsClient
  <2>3. Kept
    BY <2>1 DEF Kept
  <2>4. Records'
    BY <1>2, <2>1, <2>2 DEF Records, IsClient, Key
  <2>5. PICK key : key = Key(new)
    OBVIOUS
  <2>6. ASSUME NEW l, l = call[c].job.client
        PROVE  \E x \in Matching(l)' : Key(x) = key
    BY <1>1, <2>1, <2>2, <2>5, <2>6 DEF Matching, Begins
  <2>7. PICK r : r = AfterClient(c, key) /\ Fine(c, r)'
    BY <1>1, <2>1, <2>3, <2>4, <2>6, AfterClientFine
  <2> QED
    BY <2>1, <2>3, <2>4, <2>5, <2>7, CallerStep
<1> QED
  BY <1>3, <1>4, <1>5

\* Nobody has begun.
LEMMA InitSetup == Init => SetupInv
<1> SUFFICES ASSUME Init PROVE SetupInv
  OBVIOUS
<1>1. Records
  <2>1. MaxFaults \in Nat /\ MaxCalls \in Nat
    BY BootstrapAssumption DEF BootstrapAssumption
  <2>2. torn \in BOOLEAN
    BY DEF Init
  <2>3. calls \in 0..MaxCalls /\ faults \in 0..MaxFaults
    BY <2>1 DEF Init
  <2>4. deployment \in Deployments /\ clients = {} /\ tokens = {}
    BY DEF Init
  <2> QED
    BY <2>2, <2>3, <2>4 DEF Records
<1>2. \A c \in Caller : call[c] = Idle
  BY DEF Init
<1> QED
  BY <1>1, <1>2, IdleFine DEF SetupInv

\* What a task has installed stays installed, whatever the others do.
THEOREM SetupInductive == Spec => []SetupInv
<1>1. ASSUME IInv, SetupInv, [Next]_vars
      PROVE  SetupInv'
  <2>1. ASSUME NEW t \in deployment.tasks, Booting(t) \/ Fail(t)
        PROVE  SetupInv'
    BY <1>1, <2>1, BootFine, LookupFine, AppFine, ClientFine, FailFine
       DEF Booting, Installing, Caller
  <2>2. ASSUME NEW u \in deployment.users,
               CallApp(u) \/ CallClient(u) \/ Installing(u) \/ Fail(u)
        PROVE  SetupInv'
    BY <1>1, <2>2, CallFineStep, LookupFine, AppFine, ClientFine, FailFine
       DEF Installing, Caller
  <2>3. CASE UNCHANGED vars
    <3>1. Kept /\ Records' /\ call' = call /\ Caller' = Caller
      BY <1>1, <2>3, SameTables, SameRecords DEF vars, tables, SetupInv, Records, Caller
    <3>2. ASSUME NEW c \in Caller PROVE Fine(c, call[c])'
      <4>1. PICK q : q = call[c]
        OBVIOUS
      <4>2. Fine(c, q)'
        BY <1>1, <3>1, <3>2, <4>1, KeptFine DEF SetupInv
      <4> QED
        BY <3>1, <4>1, <4>2
    <3> QED
      BY <3>1, <3>2 DEF SetupInv
  <2> QED
    BY <1>1, <2>1, <2>2, <2>3 DEF Next
<1> QED
  BY <1>1, Inductive, InitSetup, PTL DEF Spec

\* Whoever starts the consumer has everything of the set-up in the tables.
THEOREM SetUpBeforeConsuming == Spec => []StartedComplete
<1>1. SetupInv => StartedComplete
  <2> SUFFICES ASSUME SetupInv, NEW t \in deployment.tasks, At(t, "running"),
                      NEW job \in Jobs(deployment)
               PROVE  /\ \E k \in DOMAIN apps : Trimmed(apps[k].name) = job.app.name
                      /\ job.client # NoClient => Matching(job.client) # {}
                      /\ job.token => \E s \in Matching(job.client) : Key(s) \in tokens
    BY DEF StartedComplete
  <2>1. Records /\ TaskFine(call[t])
    BY DEF SetupInv, Fine, Caller
  <2>2. PICK i \in 1..Len(deployment.setup) : job = deployment.setup[i]
    BY <2>1, Deployed
  <2>3. Installed(job)
    BY <2>1, <2>2 DEF TaskFine, At
  <2>4. Trimmed(job.app.name) = job.app.name
    BY <2>1, Deployed DEF Trimmed
  <2> QED
    BY <2>3, <2>4 DEF Installed, AppNamed
<1> QED
  BY <1>1, SetupInductive, PTL

\* The records and calls have their shapes; a token is looked for under the
\* key of a client that exists.
THEOREM TypeCorrect == Spec => []TypeOK
<1>1. IInv /\ SetupInv => TypeOK
  <2> SUFFICES ASSUME IInv, SetupInv PROVE TypeOK
    OBVIOUS
  <2>1. \A k \in DOMAIN apps : k \in Nat \ {0}
    BY DEF IInv, Shape, NumbersDense
  <2>2. ASSUME NEW c \in Caller
        PROVE  /\ call[c].i \in 0..Len(deployment.setup) /\ call[c].n \in Nat
               /\ call[c].pc \in {"findToken", "updateToken", "createToken"} =>
                    call[c].job.token /\ \E s \in clients : Key(s) = call[c].key
    <3>1. call[c].i \in 0..Len(deployment.setup)
      BY Deployed DEF SetupInv, Fine, TaskFine, UserFine
    <3>2. call[c].n \in Nat
      BY DEF IInv, Shape, IsCall
    <3> QED
      BY <3>1, <3>2 DEF SetupInv, Fine, CallFine, AtToken, Matching
  <2>3. totalIntApp \in Nat /\ (counted \/ totalIntApp = 0)
    BY DEF IInv, Shape
  <2> QED
    BY <2>1, <2>2, <2>3 DEF TypeOK, SetupInv, Records
<1> QED
  BY <1>1, Inductive, SetupInductive, PTL

-----------------------------------------------------------------------------
\* A deployment of one task and no users never creates the same client twice:
\* whoever is about to create one has found none of its names.
Alone ==
  \A c \in Caller : Caller = {c} =>
    /\ At(c, "createClient") => Matching(call[c].job.client) = {}
    /\ \A q, r \in clients : q.integration = r.integration /\ q.sk = r.sk => q = r

Stepping(c) ==
  Booting(c) \/ Installing(c) \/ CallApp(c) \/ CallClient(c) \/ Fail(c)

\* Only the look-up leads to the creation, and it found nothing.
LEMMA CreationFound ==
  ASSUME IInv, NEW c \in Caller, Stepping(c), At(c, "createClient")'
  PROVE  FindClient(c) /\ Matching(call[c].job.client) = {}
<1>0. IsCall(call[c]) /\ Shape
  BY DEF IInv, Shape
<1>1. \A r : call' = [call EXCEPT ![c] = r] => call'[c] = r
  BY DEF IInv, Shape
<1>2. \A p : Goto(c, p) => call'[c].pc = p
  <2> TAKE p
  <2>1. Goto(c, p) => call'[c] = [call[c] EXCEPT !.pc = p]
    BY DEF Goto, IInv, Shape
  <2>2. [call[c] EXCEPT !.pc = p].pc = p
    BY <1>0, Moved
  <2> QED
    BY <2>1, <2>2
<1>3. /\ Settled(c).pc # "createClient" /\ Idle.pc # "createClient"
      /\ \A n \in Nat : AfterApp(c, n).pc # "createClient"
      /\ \A key : AfterClient(c, key).pc # "createClient"
  BY <1>0, SettledRests, AfterAppRests, AfterClientRests, IdleRests
<1>4. call'[c].pc = "createClient"
  BY DEF At
<1>5. ~(Start(c) \/ GetOrganization(c) \/ CreateOrganization(c))
  BY <1>2, <1>4 DEF Start, GetOrganization, CreateOrganization
<1>6. ~(FindEntityCount(c) \/ CreateEntityCount(c))
  <2>1. FindEntityCount(c) => \/ call' = [call EXCEPT ![c] = Settled(c)]
                              \/ Goto(c, "createCount")
    BY DEF FindEntityCount, Goto
  <2> QED
    BY <1>1, <1>2, <1>3, <1>4, <2>1 DEF CreateEntityCount
<1>7. ~(FindToken(c) \/ UpdateToken(c) \/ CreateToken(c))
  BY <1>1, <1>2, <1>3, <1>4 DEF FindToken, UpdateToken, CreateToken
<1>8. ~ReadCount(c)
  <2>1. ReadCount(c) => call'[c] = [call[c] EXCEPT !.pc = "find", !.n = totalIntApp]
    BY DEF ReadCount, IInv, Shape
  <2>2. [call[c] EXCEPT !.pc = "find", !.n = totalIntApp].pc = "find"
    BY <1>0 DEF IsCall
  <2> QED
    BY <1>4, <2>1, <2>2
<1>9. ~FindApp(c)
  BY <1>2, <1>4 DEF FindApp
<1>10. ~UpdateApp(c)
  <2>1. \A k \in DOMAIN apps : k \in Nat
    BY DEF IInv, Shape, NumbersDense
  <2> QED
    BY <1>1, <1>3, <1>4, <2>1 DEF UpdateApp, Named
<1>11. ~(UpdateNothing(c) \/ Collide(c) \/ Fail(c))
  BY <1>1, <1>3, <1>4 DEF UpdateNothing, Collide, Fail
<1>12. ~CreateApp(c)
  BY <1>2, <1>4 DEF CreateApp
<1>13. ~SaveCount(c)
  <2>1. call[c].n + 1 \in Nat
    BY <1>0 DEF IsCall
  <2> QED
    BY <1>1, <1>3, <1>4, <2>1 DEF SaveCount
<1>14. ~(SaveClient(c) \/ CreateClient(c))
  <2>1. SaveClient(c) \/ CreateClient(c) => \E key : call' = [call EXCEPT ![c] = AfterClient(c, key)]
    BY DEF SaveClient, CreateClient
  <2> QED
    BY <1>1, <1>3, <1>4, <2>1
<1>15. ~(CallApp(c) \/ CallClient(c))
  <2>1. CallApp(c) \/ CallClient(c) => call'[c].pc \in {"read", "findClient"}
    BY <1>1 DEF CallApp, CallClient, UserCall
  <2> QED
    BY <1>4, <2>1
<1>16. FindClient(c)
  BY <1>5, <1>6, <1>7, <1>8, <1>9, <1>10, <1>11, <1>12, <1>13, <1>14, <1>15
     DEF Stepping, Booting, Installing
<1>17. ASSUME NEW s \in Matching(call[c].job.client),
              call' = [call EXCEPT ![c].pc = "saveClient", ![c].key = Key(s)]
       PROVE  FALSE
  <2>1. call'[c].pc = "saveClient"
    BY <1>0, <1>17 DEF Shape, IsCall
  <2> QED
    BY <1>4, <2>1
<1> QED
  BY <1>16, <1>17 DEF FindClient

\* Only two actions touch the clients.
LEMMA ClientsTouched ==
  ASSUME NEW c \in Caller, Stepping(c), clients' # clients
  PROVE  SaveClient(c) \/ CreateClient(c)
BY DEF Stepping, Booting, Installing, Start, GetOrganization, CreateOrganization,
   FindEntityCount, CreateEntityCount, FindToken, UpdateToken, CreateToken, ReadCount,
   FindApp, UpdateApp, UpdateNothing, CreateApp, SaveCount, FindClient, Collide, Fail,
   CallApp, CallClient, tables, records

\* A single caller keeps its clients apart.
LEMMA AloneStep ==
  ASSUME IInv, SetupInv, Alone, NEW c \in Caller, Stepping(c), Caller' = Caller
  PROVE  Alone'
<1> SUFFICES ASSUME Caller = {c}
             PROVE  /\ At(c, "createClient")' => Matching(call[c].job.client)' = {}
                    /\ \A q, r \in clients' :
                         q.integration = r.integration /\ q.sk = r.sk => q = r
  BY DEF Alone
<1>1. PICK q : q = call[c]
  OBVIOUS
<1>2. /\ At(c, "createClient") => Matching(q.job.client) = {}
      /\ \A s, r \in clients : s.integration = r.integration /\ s.sk = r.sk => s = r
      /\ Records
  BY <1>1 DEF Alone, SetupInv
<1>3. ASSUME At(c, "createClient")' PROVE Matching(call[c].job.client)' = {}
  <2>1. FindClient(c) /\ Matching(q.job.client) = {}
    BY <1>1, <1>3, CreationFound
  <2>2. Goto(c, "createClient") /\ clients' = clients
    BY <1>1, <2>1 DEF FindClient, tables
  <2>3. call'[c].job = q.job
    <3>1. IsCall(q) /\ call' = [call EXCEPT ![c] = [q EXCEPT !.pc = "createClient"]]
      BY <1>1, <2>2 DEF IInv, Shape, Goto
    <3>2. call'[c] = [q EXCEPT !.pc = "createClient"]
      BY <3>1 DEF IInv, Shape
    <3>3. [q EXCEPT !.pc = "createClient"].job = q.job
      BY <3>1, Moved
    <3> QED
      BY <3>2, <3>3
  <2> QED
    BY <2>1, <2>2, <2>3 DEF Matching
<1>4. CASE clients' = clients
  BY <1>2, <1>3, <1>4
<1>5. CASE SaveClient(c)
  <2> DEFINE k == q.job.client
             after(s) == IF Key(s) = q.key
                         THEN [s EXCEPT !.name = k.name, !.type = k.type, !.intAppId = q.n]
                         ELSE s
  <2>1. clients' = {after(s) : s \in clients}
    BY <1>1, <1>5 DEF SaveClient
  <2>2. \A s \in clients : after(s).integration = s.integration /\ after(s).sk = s.sk
    BY <1>2 DEF Records, IsClient
  <2> HIDE DEF after
  <2>3. \A x, y \in clients' : x.integration = y.integration /\ x.sk = y.sk => x = y
    BY <1>2, <2>1, <2>2
  <2> QED
    BY <1>3, <2>3
<1>6. CASE CreateClient(c)
  <2> DEFINE k == q.job.client
  <2>1. PICK new : /\ clients' = clients \union {new}
                   /\ new.integration = k.integration /\ new.sk = k.name
    BY <1>1, <1>6 DEF CreateClient
  <2>2. Matching(k) = {}
    BY <1>2, <1>6 DEF CreateClient
  <2>3. \A s \in clients : ~(s.integration = k.integration /\ s.sk = k.name)
    BY <2>2 DEF Matching, Begins
  <2>4. \A x, y \in clients' : x.integration = y.integration /\ x.sk = y.sk => x = y
    BY <1>2, <2>1, <2>3
  <2> QED
    BY <1>3, <2>4
<1> QED
  BY <1>4, <1>5, <1>6, ClientsTouched

\* What any step does is a step of one caller.
LEMMA StepOfOne ==
  ASSUME SetupInv, [Next]_vars
  PROVE  /\ Caller' = Caller /\ deployment' = deployment
         /\ \/ \E c \in Caller : Stepping(c)
            \/ UNCHANGED vars
<1>1. ASSUME NEW t \in deployment.tasks, Booting(t) \/ Fail(t)
      PROVE  Stepping(t) /\ t \in Caller
  BY <1>1 DEF Stepping, Caller
<1>2. ASSUME NEW u \in deployment.users,
             CallApp(u) \/ CallClient(u) \/ Installing(u) \/ Fail(u)
      PROVE  Stepping(u) /\ u \in Caller
  BY <1>2 DEF Stepping, Caller
<1>3. ASSUME NEW c \in Caller, Stepping(c) PROVE deployment' = deployment
  BY <1>3 DEF Stepping, Booting, Installing, Start, GetOrganization, CreateOrganization,
   FindEntityCount, CreateEntityCount, FindToken, UpdateToken, CreateToken, ReadCount,
   FindApp, UpdateApp, UpdateNothing, CreateApp, SaveCount, FindClient, SaveClient,
   CreateClient, Collide, Fail, CallApp, CallClient
<1>4. UNCHANGED vars => deployment' = deployment
  BY DEF vars
<1>5. deployment' = deployment => Caller' = Caller
  BY DEF Caller
<1> QED
  BY <1>1, <1>2, <1>3, <1>4, <1>5 DEF Next

\* A single caller never leaves two records of the same names.
THEOREM OneCallerNoTwins == Spec => []AloneNoTwins
<1>1. Init => Alone
  BY DEF Init, Alone, Idle, At
<1>2. IInv /\ SetupInv /\ Alone /\ [Next]_vars => Alone'
  <2> SUFFICES ASSUME IInv, SetupInv, Alone, [Next]_vars PROVE Alone'
    OBVIOUS
  <2>1. CASE UNCHANGED vars
    BY <2>1 DEF vars, tables, Alone, Caller, At, Matching
  <2> QED
    BY <2>1, StepOfOne, AloneStep
<1>3. SetupInv /\ Alone => AloneNoTwins
  <2> SUFFICES ASSUME SetupInv, Alone, Cardinality(Caller) = 1
               PROVE  \A q, r \in clients :
                        q.integration = r.integration /\ q.sk = r.sk => q = r
    BY DEF AloneNoTwins
  <2>1. deployment.tasks \subseteq Task /\ deployment.users \subseteq User
        /\ IsFiniteSet(Task) /\ IsFiniteSet(User)
    BY BootstrapAssumption DEF SetupInv, Records, BootstrapAssumption
  <2>2. IsFiniteSet(Caller)
    BY <2>1, FS_Subset, FS_Union DEF Caller
  <2>3. PICK c : Caller = {c}
    BY <2>2, FS_Singleton
  <2> QED
    BY <2>3 DEF Alone
<1> QED
  BY <1>1, <1>2, <1>3, Inductive, SetupInductive, PTL DEF Spec

-----------------------------------------------------------------------------
\* The users' clients are not named like those of the set-up: CreateClient
\* stores its app in the client it finds, whoever registered it.
OwnNames ==
  \A d \in Deployments : d.users # {} =>
    \A k \in ClientCalls, job \in Jobs(d) : k.name # job.client.name

\* Apps keep their number and trimmed name.
LEMMA AppsKept ==
  ASSUME IInv, SetupInv, NEW c \in Caller, Stepping(c), NEW k \in DOMAIN apps
  PROVE  k \in DOMAIN apps' /\ Trimmed(apps'[k].name) = Trimmed(apps[k].name)
<1>1. CASE apps' = apps
  BY <1>1
<1>2. CASE UpdateApp(c)
  <2>1. PICK j \in Named(call[c].job.app.name, call[c].n) :
          apps' = [apps EXCEPT ![j] = call[c].job.app]
    BY <1>2 DEF UpdateApp
  <2>2. j \in DOMAIN apps /\ apps[j].name = Trimmed(call[c].job.app.name)
    BY <2>1 DEF Named
  <2>3. Trimmed(apps'[j].name) = Trimmed(apps[j].name)
    BY <2>1, <2>2, TrimTwice
  <2> QED
    BY <2>1, <2>3
<1>3. CASE CreateApp(c)
  BY <1>3 DEF CreateApp
<1>4. apps' # apps => UpdateApp(c) \/ CreateApp(c)
  BY DEF Stepping, Booting, Installing, Start, GetOrganization, CreateOrganization,
   FindEntityCount, CreateEntityCount, FindToken, UpdateToken, CreateToken, ReadCount,
   FindApp, UpdateNothing, SaveCount, FindClient, SaveClient, CreateClient, Collide, Fail,
   CallApp, CallClient, tables, records
<1> QED
  BY <1>1, <1>2, <1>3, <1>4

\* The app a caller stores in a client is the one the set-up names with it.
LEMMA StoredApp ==
  ASSUME OwnNames, IInv, SetupInv, NEW c \in Caller, call[c].pc \in AtClient,
         NEW job \in Jobs(deployment), call[c].job.client.name = job.client.name
  PROVE  /\ call[c].n \in DOMAIN apps
         /\ Trimmed(apps[call[c].n].name) = job.app.name
<1>1. PICK q : q = call[c]
  OBVIOUS
<1>2. Fine(c, q) /\ Records /\ q.pc \in AtClient /\ deployment \in Deployments
  BY <1>1 DEF SetupInv, Records
<1>3. q.n \in DOMAIN apps /\ Trimmed(apps[q.n].name) = Trimmed(q.job.app.name)
  BY <1>2 DEF Fine, CallFine
<1>4. ASSUME c \in deployment.users PROVE FALSE
  BY <1>1, <1>2, <1>4 DEF Fine, UserFine, OwnNames
<1>5. /\ q.job = deployment.setup[q.i] /\ q.i \in 1..Len(deployment.setup)
      /\ q.job.client # NoClient
  BY <1>2, <1>4 DEF Fine, TaskFine, Caller, Inside, WithApp
<1>6. q.job \in Jobs(deployment)
  BY <1>2, <1>5, Deployed
<1>7. q.job.app.name = job.app.name /\ job.app.name \notin DOMAIN Trim
  BY <1>1, <1>2, <1>5, <1>6, SetupAssumption DEF SetupAssumption
<1> QED
  BY <1>1, <1>3, <1>7 DEF Trimmed

\* Clients keep the app stored in them.
LEMMA OfItsAppStep ==
  ASSUME OwnNames, IInv, SetupInv, ClientOfItsApp, NEW c \in Caller, Stepping(c),
         deployment' = deployment
  PROVE  ClientOfItsApp'
<1>1. PICK q : q = call[c]
  OBVIOUS
<1>2. Records
  BY DEF SetupInv
<1>3. \A n : \A job : n \in DOMAIN apps /\ Trimmed(apps[n].name) = job.app.name =>
                n \in DOMAIN apps' /\ Trimmed(apps'[n].name) = job.app.name
  BY AppsKept
<1>4. ASSUME NEW s \in clients, NEW job \in Jobs(deployment), s.name = job.client.name
      PROVE  /\ s.intAppId \in DOMAIN apps'
             /\ Trimmed(apps'[s.intAppId].name) = job.app.name
  BY <1>3, <1>4 DEF ClientOfItsApp
<1>5. ASSUME q.pc \in AtClient, NEW job \in Jobs(deployment),
             q.job.client.name = job.client.name
      PROVE  q.n \in DOMAIN apps' /\ Trimmed(apps'[q.n].name) = job.app.name
  BY <1>1, <1>3, <1>5, StoredApp
<1>6. SUFFICES ASSUME NEW x \in clients', NEW job \in Jobs(deployment),
                    x.name = job.client.name
             PROVE  /\ x.intAppId \in DOMAIN apps'
                    /\ Trimmed(apps'[x.intAppId].name) = job.app.name
  <2>1. Jobs(deployment)' = Jobs(deployment)
    BY DEF Jobs
  <2> QED
    BY <2>1 DEF ClientOfItsApp, Trimmed
<1>7. CASE clients' = clients
  BY <1>4, <1>6, <1>7
<1>8. CASE SaveClient(c)
  <2> DEFINE k == q.job.client
             after(s) == IF Key(s) = q.key
                         THEN [s EXCEPT !.name = k.name, !.type = k.type, !.intAppId = q.n]
                         ELSE s
  <2>1. clients' = {after(s) : s \in clients} /\ q.pc \in AtClient
    BY <1>1, <1>8 DEF SaveClient, At, AtClient
  <2>2. PICK s \in clients : x = after(s)
    BY <2>1
  <2>3. CASE Key(s) = q.key
    <3>1. x.name = k.name /\ x.intAppId = q.n
      BY <1>2, <2>2, <2>3 DEF Records, IsClient
    <3> QED
      BY <1>5, <1>6, <2>1, <3>1
  <2>4. CASE Key(s) # q.key
    BY <1>4, <1>6, <2>2, <2>4
  <2> QED
    BY <2>3, <2>4
<1>9. CASE CreateClient(c)
  <2>1. PICK new : /\ clients' = clients \union {new}
                   /\ new.name = q.job.client.name /\ new.intAppId = q.n
    BY <1>1, <1>9 DEF CreateClient
  <2>2. q.pc \in AtClient
    BY <1>1, <1>9 DEF CreateClient, At, AtClient
  <2> QED
    BY <1>4, <1>5, <1>6, <2>1, <2>2
<1> QED
  BY <1>7, <1>8, <1>9, ClientsTouched

\* A client set up for an app refers to that app, whoever creates or renames
\* apps meanwhile.
THEOREM ClientsKeepTheirApp ==
  ASSUME OwnNames
  PROVE  Spec => []ClientOfItsApp
<1>1. Init => ClientOfItsApp
  BY DEF Init, ClientOfItsApp
<1>2. IInv /\ SetupInv /\ ClientOfItsApp /\ [Next]_vars => ClientOfItsApp'
  <2> SUFFICES ASSUME IInv, SetupInv, ClientOfItsApp, [Next]_vars
               PROVE  ClientOfItsApp'
    OBVIOUS
  <2>1. CASE UNCHANGED vars
    BY <2>1 DEF vars, tables, ClientOfItsApp, Jobs, Trimmed
  <2> QED
    BY <2>1, StepOfOne, OfItsAppStep
<1> QED
  BY <1>1, <1>2, Inductive, SetupInductive, PTL DEF Spec
=============================================================================
