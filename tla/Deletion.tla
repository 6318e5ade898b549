------------------------------ MODULE Deletion ------------------------------
(***************************************************************************)
(* Deleting an account, POST /account/delete (app/main.py), against what   *)
(* goes on meanwhile: the user's other requests, and the worker that       *)
(* uploads the documents of reports (app/report/worker.py,                 *)
(* app/storage.py).                                                        *)
(*                                                                         *)
(* The rows go in one transaction of the database; the objects in R2 go    *)
(* before it commits, one call each, and do not come back.  One account    *)
(* with one chart.  The order of two deletes in one flush is SQLAlchemy's  *)
(* and not modelled.                                                       *)
(***************************************************************************)
EXTENDS Integers, FiniteSets

CONSTANTS
    Reports,     \* the reports of the chart
    MaxRetries   \* bound: deletions that are tried

ASSUME DeletionAssumption == IsFiniteSet(Reports) /\ MaxRetries \in Nat

VARIABLES
    present,     \* whether the user row exists
    held,        \* kinds of other rows the account has
    reportRows,  \* rows of reports
    keyed,       \* reports whose row names an object (r2_key); as it was when the row went
    store,       \* reports whose object is in R2
    job,         \* job[r]: where the job that writes r is
    del,         \* where the deletion is: its reports, and those whose object is still to go
    tries,       \* deletions begun
    \* History, read by the properties only:
    busy         \* reports whose job was under way since the last deletion began

delVars == <<present, held, reportRows, keyed, store, job, del, tries, busy>>

\* Rows by how they hang on the account and what the handler does about them.
RowKinds ==
    {"ledger",    \* credit_transactions, entitlements, ...: refer to the user, deleted by name
     "messages",  \* chat_messages, orders of a chart, ...: refer to the chart, deleted by name
     "forecasts", \* transit_forecasts: refer to the chart, ON DELETE CASCADE
     "packs",     \* orders of a credit pack: no chart, refer to the user
     "days"}      \* daily_reflections: refer to the chart

\* The tables the handler selects from.
Named == {"ledger", "messages"}
Cascading == {"forecasts"}

NoDeletion == [at |-> "idle", seen |-> {}, todo |-> {}, late |-> FALSE]

DeletionTypeOK ==
    /\ present \in BOOLEAN
    /\ held \subseteq RowKinds
    /\ reportRows \subseteq Reports /\ keyed \subseteq Reports /\ store \subseteq Reports
    /\ job \in [Reports -> {"none", "running", "uploaded", "unstored"}]
    /\ del \in [at : {"idle", "objects"}, seen : SUBSET Reports, todo : SUBSET Reports,
                late : BOOLEAN]
    /\ tries \in 0 .. MaxRetries
    /\ busy \subseteq Reports

DeletionInit ==
    /\ present = TRUE
    /\ held = {} /\ reportRows = {} /\ keyed = {} /\ store = {}
    /\ job = [r \in Reports |-> "none"]
    /\ del = NoDeletion /\ tries = 0 /\ busy = {}

-----------------------------------------------------------------------------
(* The user and the worker.                                                *)

\* A request of the user commits a row, which may be after the deletion has selected
\* the rows of its table.
Acquire(k, late) ==
    /\ present
    /\ late => del.at = "objects" /\ k \in Named
    /\ held' = held \union {k}
    /\ del' = [del EXCEPT !.late = @ \/ late]
    /\ UNCHANGED <<present, reportRows, keyed, store, job, tries, busy>>

\* A report is ordered, or ordered again.
StartJob(r) ==
    /\ present
    /\ job[r] = "none"
    /\ reportRows' = reportRows \union {r}
    /\ job' = [job EXCEPT ![r] = "running"]
    /\ busy' = busy \union {r}
    /\ UNCHANGED <<present, held, keyed, store, del, tries>>

\* upload_report: the object's name is the report's id; a failure answers None.
Upload(r, ok) ==
    /\ job[r] = "running"
    /\ store' = IF ok THEN store \union {r} ELSE store
    /\ job' = [job EXCEPT ![r] = IF ok THEN "uploaded" ELSE "unstored"]
    /\ UNCHANGED <<present, held, reportRows, keyed, del, tries, busy>>

\* The job commits r2_key as the upload answered it; without a row it raises.
CommitJob(r) ==
    /\ job[r] \in {"uploaded", "unstored"}
    /\ keyed' = IF r \notin reportRows THEN keyed
                ELSE IF job[r] = "uploaded" THEN keyed \union {r}
                ELSE keyed \ {r}
    /\ job' = [job EXCEPT ![r] = "none"]
    /\ UNCHANGED <<present, held, reportRows, store, del, tries, busy>>

-----------------------------------------------------------------------------
(* account_delete                                                          *)

\* The reports are selected, with their keys.
BeginDeletion ==
    /\ present
    /\ del.at = "idle"
    /\ tries < MaxRetries
    /\ tries' = tries + 1
    /\ del' = [at |-> "objects", seen |-> reportRows, todo |-> reportRows \intersect keyed, late |-> FALSE]
    /\ busy' = {r \in Reports : job[r] # "none"}
    /\ UNCHANGED <<present, held, reportRows, keyed, store, job>>

\* delete_object_checked
DropObject(r) ==
    /\ r \in del.todo
    /\ store' = store \ {r}
    /\ del' = [del EXCEPT !.todo = @ \ {r}]
    /\ UNCHANGED <<present, held, reportRows, keyed, job, tries, busy>>

\* A fault: a failure of R2 is passed over.
DropPassedOver(r) ==
    /\ r \in del.todo
    /\ del' = [del EXCEPT !.todo = @ \ {r}]
    /\ UNCHANGED <<present, held, reportRows, keyed, store, job, tries, busy>>

\* "R2 deletion is FAIL-CLOSED": the transaction is rolled back.
DropFails(r) ==
    /\ r \in del.todo
    /\ del' = NoDeletion
    /\ UNCHANGED <<present, held, reportRows, keyed, store, job, tries, busy>>

\* A row that stays refers to one that goes: one that came too late, or of another kind.
Dangling == reportRows # del.seen \/ del.late \/ ~ held \subseteq Named \union Cascading

\* The rows are deleted, level by level, and the transaction commits.
CommitDeletion ==
    /\ del.at = "objects" /\ del.todo = {}
    /\ ~Dangling
    /\ present' = FALSE /\ held' = {} /\ reportRows' = {}
    /\ del' = NoDeletion
    /\ UNCHANGED <<keyed, store, job, tries, busy>>

\* A foreign key refuses the delete, which raises through the handler: 500.
DeletionRefused ==
    /\ del.at = "objects" /\ del.todo = {}
    /\ Dangling
    /\ del' = NoDeletion
    /\ UNCHANGED <<present, held, reportRows, keyed, store, job, tries, busy>>

DeletionNext ==
    \/ \E k \in RowKinds, late \in BOOLEAN : Acquire(k, late)
    \/ \E r \in Reports :
          \/ StartJob(r)
          \/ \E ok \in BOOLEAN : Upload(r, ok)
          \/ CommitJob(r)
          \/ DropObject(r) \/ DropFails(r)
    \/ BeginDeletion \/ CommitDeletion \/ DeletionRefused

DeletionSpec == DeletionInit /\ [][DeletionNext]_delVars

-----------------------------------------------------------------------------
(* Correctness.                                                            *)

\* "A leaked private artifact is worse than a failed deletion": when the account is gone,
\* so is every object that a row named, but for those whose job was at work meanwhile.
FailClosed == ~present => store \intersect keyed \subseteq busy

\* "A PAYING user could never delete their account" is what the handler says it mends: a
\* deletion that no other request interferes with can commit.
Deletable == del.at = "objects" /\ reportRows = del.seen /\ ~del.late => ~Dangling
=============================================================================
