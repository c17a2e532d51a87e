-------------------------- MODULE ExecutionNumbering --------------------------
(***************************************************************************)
(* How the executions of one workflow version get their numbers:            *)
(* createWorkflowExecution reads TotalEXC, saves it increased by one and    *)
(* creates the record with that number in its key, in three awaits.  The    *)
(* HTTP trigger, the engine and its sub-workflows call it concurrently, from *)
(* several processes.                                                       *)
(***************************************************************************)
EXTENDS Integers, FiniteSets

CONSTANTS
  Caller,       \* the callers: each makes one call at a time
  Number,       \* the bound on the numbers ever computed
  MaxFailures   \* the bound on the awaits that reject

ASSUME NumberingAssumption == Number \subseteq Nat /\ MaxFailures \in Nat

VARIABLES
  TotalEXC,  \* the counter kept in the workflow version
  record,    \* the execution records: number -> the call that created it
  call,      \* what each caller is doing
  failures,  \* awaits that may still reject
  dropped    \* history: numbers whose call failed or whose record was deleted

vars == <<TotalEXC, record, call, failures, dropped>>

Free == [pc |-> "idle", n |-> 0]

At(c, p) == call[c].pc = p

Init ==
  /\ TotalEXC = 0
  /\ record = << >>
  /\ call = [c \in Caller |-> Free]
  /\ failures = MaxFailures
  /\ dropped = {}

\* getWorkflowVersionByKey; newTotalEXC is kept across the next awaits.
ReadTotal(c) ==
  /\ At(c, "idle")
  /\ TotalEXC + 1 \in Number
  /\ call' = [call EXCEPT ![c] = [pc |-> "save", n |-> TotalEXC + 1]]
  /\ UNCHANGED <<TotalEXC, record, failures, dropped>>

\* Mutant of SaveTotal: the counter is increased where it is stored, but the
\* number of the record is the one computed before.
AddToTotal(c) ==
  /\ At(c, "save")
  /\ TotalEXC' = TotalEXC + 1
  /\ call' = [call EXCEPT ![c].pc = "create"]
  /\ UNCHANGED <<record, failures, dropped>>

\* saveWorkflowVersion overwrites the counter, also with a smaller number.
SaveTotal(c) ==
  /\ At(c, "save")
  /\ TotalEXC' = call[c].n
  /\ call' = [call EXCEPT ![c].pc = "create"]
  /\ UNCHANGED <<record, failures, dropped>>

\* Mutant of CreateRecord: the record is put without a condition.
PutRecord(c) ==
  /\ At(c, "create")
  /\ record' = [k \in DOMAIN record \union {call[c].n} |->
                  IF k = call[c].n THEN c ELSE record[k]]
  /\ call' = [call EXCEPT ![c] = Free]
  /\ UNCHANGED <<TotalEXC, failures, dropped>>

\* The model's create accepts a key that does not exist.
CreateRecord(c) ==
  /\ At(c, "create")
  /\ call[c].n \notin DOMAIN record
  /\ record' = [k \in DOMAIN record \union {call[c].n} |->
                  IF k = call[c].n THEN c ELSE record[k]]
  /\ call' = [call EXCEPT ![c] = Free]
  /\ UNCHANGED <<TotalEXC, failures, dropped>>

\* Mutant of Collide: the counter is put back when the number is taken.
CollideAndRestore(c) ==
  /\ At(c, "create")
  /\ call[c].n \in DOMAIN record
  /\ TotalEXC' = call[c].n - 1
  /\ call' = [call EXCEPT ![c] = Free]
  /\ UNCHANGED <<record, failures, dropped>>

\* It rejects one that does: the call fails, the counter stays as it was saved.
Collide(c) ==
  /\ At(c, "create")
  /\ call[c].n \in DOMAIN record
  /\ call' = [call EXCEPT ![c] = Free]
  /\ UNCHANGED <<TotalEXC, record, failures, dropped>>

\* An await rejects, or the caller's process dies, before the record exists.
Fail(c) ==
  /\ ~At(c, "idle")
  /\ failures > 0
  /\ failures' = failures - 1
  /\ dropped' = dropped \union {call[c].n}
  /\ call' = [call EXCEPT ![c] = Free]
  /\ UNCHANGED <<TotalEXC, record>>

\* deleteWorkflowExecution leaves the counter alone.
Delete(n) ==
  /\ n \in DOMAIN record
  /\ record' = [k \in DOMAIN record \ {n} |-> record[k]]
  /\ dropped' = dropped \union {n}
  /\ UNCHANGED <<TotalEXC, call, failures>>

\* Every number of the bound has been handed out.
Exhausted == TotalEXC + 1 \notin Number /\ UNCHANGED vars

Step(c) == ReadTotal(c) \/ SaveTotal(c) \/ CreateRecord(c) \/ Collide(c)

Next ==
  \/ \E c \in Caller : Step(c) \/ Fail(c)
  \/ \E n \in DOMAIN record : Delete(n)
  \/ Exhausted

Spec == Init /\ [][Next]_vars

\* Callers keep calling and their awaits settle.
FairSpec == Spec /\ \A c \in Caller : WF_vars(Step(c))

-------------------------------------------------------------------------------
(* Properties *)

\* A number below one that was handed out.
Reached == DOMAIN record \union {TotalEXC}

\* Numbers are handed out without gaps, which the pages of
\* listWorkflowExecutionsOfAVersion count on: below a record and below TotalEXC
\* each number has its record, or is about to, or its call failed or its record
\* was deleted.
Dense ==
  \A m \in Reached : \A k \in 1 .. m :
    \/ k \in DOMAIN record \union dropped
    \/ \E c \in Caller : call[c].pc \in {"save", "create"} /\ call[c].n = k

\* createWorkflowExecution never gives a number that is in use to a second
\* call: the records implement the allocator.
A == INSTANCE Allocator WITH granted <- record
OneRecordPerNumber == A!Spec

\* A counter that a delayed save has put back does not stay behind: as long as
\* calls are made, TotalEXC reaches every number of the bound.
Recovers == <>[](TotalEXC + 1 \notin Number)

-------------------------------------------------------------------------------
(* listWorkflowExecutionsOfAVersion: the numbers on a page, oldest or newest   *)
(* first; the records are fetched by these numbers.                             *)

\* Upwards from pageSize * page - pageSize + 1, not beyond TotalEXC.
AscendingPage(total, page, size) ==
  LET start == size * page - size + 1
  IN {n \in start .. start + size - 1 : n <= total}

\* Downwards; the last page may reach 0, a number no execution has.
DescendingPage(total, page, size) ==
  LET start == total - page * size + size
  IN {n \in start - size + 1 .. start : n >= 0}
==============================================================================
