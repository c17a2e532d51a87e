----------------------------- MODULE DataActivities -----------------------------
(***************************************************************************)
(* The activities that work on data: Query Builder, which opens a connection   *)
(* for every query, and Matching Data.  Each database has its driver and its    *)
(* own way to end: which paths close what they opened differs.  Neither          *)
(* activity ever reports isError: the step of a query that answers {error} goes  *)
(* on, and on one that answers nothing handleMessage throws (MustThrow of         *)
(* WorkflowEngine).                                                              *)
(***************************************************************************)
EXTENDS MatchingData

CONSTANTS
  Worker,    \* the handlers that run activities beside each other
  Database,  \* a subset of the drivers below
  Limit,     \* the connections a server accepts
  Key,       \* the primary keys of the rows that are matched
  Content,   \* what their matching fields hold
  Lists,     \* the inputs of Matching Data: lists of rows
  Mentions,  \* the lengths of a mention
  Gap,       \* the characters between two mentions
  Plans      \* the kinds of activities of a run, and how many

Drivers == {"MYSQL", "MONGODB", "DYNAMODB", "POSTGRESQL", "MICROSOFTSQL", "ORACLEDB"}

Row == [key : Key, fields : Content]

ASSUME DataAssumption ==
  /\ IsFiniteSet(Worker)
  /\ Database \subseteq Drivers
  /\ Lists \subseteq Seq(Seq(Row)) \ {<< >>}
  /\ Limit \in Nat /\ Gap \in Nat /\ Mentions \subseteq Nat
  /\ \A p \in Plans : p.kinds \subseteq {"query", "matching"} /\ p.activities \in Nat

VARIABLES
  plan,    \* the one of Plans that is run
  worker,  \* what each handler is doing
  open,    \* database -> the connections its server holds
  begun,   \* the activities begun
  blamed   \* history: database -> the calls that failed on an open connection, or
           \*   that were visual queries of MongoDB

dataVars == <<plan, worker, open, begun, blamed>>

AtRest == [at |-> "idle", db |-> "none", query |-> "none", connected |-> FALSE,
           result |-> "none", input |-> << >>, roomy |-> TRUE]

DataInit ==
  /\ plan \in Plans
  /\ worker = [w \in Worker |-> AtRest]
  /\ open = [d \in Database |-> 0]
  /\ begun = 0
  /\ blamed = [d \in Database |-> 0]

Doing(w, p) == worker[w].at = p
Begin == begun < plan.activities /\ begun' = begun + 1

---------------------------------------------------------------------------
(* Query Builder. *)

\* The query is text, made by the visual builder, or an object without a
\* queryResult (or, for MongoDB, with one that is not JSON).
Queries == {"text", "visual", "malformed"}

BeginQuery(w) ==
  /\ Doing(w, "idle") /\ "query" \in plan.kinds /\ Begin
  /\ \E d \in Database, q \in Queries :
       worker' = [worker EXCEPT ![w] = [AtRest EXCEPT !.at = "connect", !.db = d, !.query = q]]
  /\ UNCHANGED <<plan, open, blamed>>

Answer(w, result) == worker' = [worker EXCEPT ![w] = [AtRest EXCEPT !.result = result]]

Blame(d) == blamed' = [blamed EXCEPT ![d] = @ + 1]
Close(d) == open' = [open EXCEPT ![d] = @ - 1]

\* DynamoDB has no connection; a pool of PostgreSQL connects for its query.
Connectionless == {"DYNAMODB"}

OpenConnection(w) ==
  LET d == worker[w].db IN
  /\ Doing(w, "connect") /\ d \notin Connectionless
  /\ d = "POSTGRESQL" => worker[w].query # "malformed"
  /\ open[d] < Limit
  /\ open' = [open EXCEPT ![d] = @ + 1]
  /\ worker' = [worker EXCEPT ![w].at = "query", ![w].connected = TRUE]
  /\ UNCHANGED <<plan, begun, blamed>>

\* The server refuses.  SQL Server and Oracle throw past their own catch: the
\* activity's result is undefined; the others answer an error.
Refuse(w) ==
  LET d == worker[w].db IN
  /\ Doing(w, "connect") /\ d \notin Connectionless
  /\ d = "POSTGRESQL" => worker[w].query # "malformed"
  /\ open[d] = Limit
  /\ Answer(w, IF d \in {"MICROSOFTSQL", "ORACLEDB"} THEN "undefined" ELSE "error")
  /\ UNCHANGED <<plan, open, begun, blamed>>

\* Nothing to connect: the query is sent, or could not be written.
AskDynamo(w) ==
  /\ Doing(w, "connect") /\ worker[w].db \in Connectionless
  /\ \E result \in {"rows", "error"} :
       /\ worker[w].query = "malformed" => result = "error"
       /\ Answer(w, result)
  /\ UNCHANGED <<plan, open, begun, blamed>>

PoolUnused(w) ==
  /\ Doing(w, "connect") /\ worker[w].db = "POSTGRESQL" /\ worker[w].query = "malformed"
  /\ Answer(w, "error")
  /\ UNCHANGED <<plan, open, begun, blamed>>

\* Mutant of Closes: the pool of PostgreSQL is only ended after a good query.
ClosesGood(d, q, failed) ==
  CASE d \in {"MYSQL", "ORACLEDB", "POSTGRESQL"} -> ~failed
    [] d = "MICROSOFTSQL"            -> q # "malformed"
    [] d = "MONGODB"                 -> q = "text"

\* Whether a call that reached the server closes its connection: MySQL and
\* Oracle after a good query, SQL Server once the query is sent, MongoDB after a
\* command but never after a find, PostgreSQL always.
Closes(d, q, failed) ==
  CASE d \in {"MYSQL", "ORACLEDB"}   -> ~failed
    [] d = "MICROSOFTSQL"            -> q # "malformed"
    [] d = "MONGODB"                 -> q = "text"
    [] d = "POSTGRESQL"              -> TRUE

Leaky(d, q, failed) == failed \/ (d = "MONGODB" /\ q # "text")

RunQuery(w) ==
  LET d == worker[w].db
      q == worker[w].query IN
  /\ Doing(w, "query")
  /\ \E failed \in BOOLEAN :
       /\ q = "malformed" => failed
       /\ IF Closes(d, q, failed) THEN Close(d) ELSE UNCHANGED open
       /\ IF Leaky(d, q, failed) THEN Blame(d) ELSE UNCHANGED blamed
       /\ Answer(w, IF failed THEN "error" ELSE "rows")
  /\ UNCHANGED <<plan, begun>>

---------------------------------------------------------------------------
(* Matching Data. *)

\* The length of a list's text: an empty one is short.
TextLength(list) == 2 + 20 * Len(list)

RunMatching(w) ==
  /\ Doing(w, "idle") /\ "matching" \in plan.kinds /\ Begin
  /\ \E lists \in Lists, mention \in Mentions :
       LET text == [i \in DOMAIN lists |-> TextLength(lists[i])] IN
       worker' = [worker EXCEPT ![w] =
                    [AtRest EXCEPT !.at = "matched", !.input = lists,
                                 !.result = Matching(lists, text, mention, Gap),
                                 !.roomy = Roomy(text, mention, Gap)]]
  /\ UNCHANGED <<plan, open, blamed>>

EndMatching(w) ==
  /\ Doing(w, "matched")
  /\ worker' = [worker EXCEPT ![w] = AtRest]
  /\ UNCHANGED <<plan, open, begun, blamed>>

DataNext == \E w \in Worker :
  \/ BeginQuery(w) \/ OpenConnection(w) \/ Refuse(w) \/ AskDynamo(w) \/ PoolUnused(w) \/ RunQuery(w)
  \/ RunMatching(w) \/ EndMatching(w)

DataSpec == DataInit /\ [][DataNext]_dataVars

---------------------------------------------------------------------------
(* Properties. *)

InUse(d) == {w \in Worker : worker[w].connected /\ worker[w].db = d}

\* A server holds a connection only for a query under way, for one that failed
\* (of MySQL, SQL Server or Oracle), or for a find of MongoDB: PostgreSQL's are all
\* closed.  Without such calls a server is never full of connections nobody uses.
ConnectionsAccounted ==
  \A d \in Database :
    open[d] <= Cardinality(InUse(d)) + (IF d = "POSTGRESQL" THEN 0 ELSE blamed[d])

\* A row of the first list is matched when the other lists hold its key and agree
\* with it wherever they do, and is missing when they do not hold it; the activity
\* answers nothing just when a list and what follows it are shorter than its mention.
MatchingAgrees ==
  \A w \in Worker : Doing(w, "matched") =>
    IF worker[w].roomy
    THEN Agrees(worker[w].result, worker[w].input)
    ELSE worker[w].result = Undefined
=============================================================================
